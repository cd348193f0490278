------------------------------- MODULE STTRing ------------------------------
(***************************************************************************)
(* The resilient STT connection of one call                                *)
(* (go/internal/degrade/sttring.go).  Send runs on the call's goroutine;   *)
(* its loops are unfolded into one step per dial attempt and per frame     *)
(* handed to the connection, because the provider may fail at any of them. *)
(* Frames are numbered in the order the caller spoke them.  The provider   *)
(* behind the connection is external: a frame it accepted is on the wire   *)
(* until the provider has processed it into the transcript.  The names do  *)
(* not meet those of Hedge, the other half of the package.                 *)
(***************************************************************************)
EXTENDS Naturals, Sequences

CONSTANTS
  Factories,  \* number of providers
  Capacity,   \* ring capacity in frames
  MaxFrames   \* bound: frames in the call

DialAttempts == 3 \* len(sttReconnectDelays); the first delay is zero

ASSUME RingAssumption ==
  /\ Factories \in Nat \ {0}
  /\ Capacity \in Nat \ {0}
  /\ MaxFrames \in Nat

VARIABLES
  sendPc,     \* "idle", or what Send is doing: "dial", "flush"
  replaying,  \* Send is past its first flush: the next failure is final
  conn,       \* conn # nil
  dialled,    \* failed dial attempts of the current dial()
  buf,        \* frames not yet delivered to a live connection
  sent,       \* frames given to Send so far
  accepted,   \* history: frames for which conn.Send returned nil
  wire,       \* accepted by the current connection, not processed yet
  transcript  \* frames the provider has processed

ringVars == <<sendPc, replaying, conn, dialled, buf, sent, accepted, wire, transcript>>
provider == <<wire, transcript>>

\* Variant: the newest frame is refused when the ring is full.
pushNewestLost(f) == buf' = IF Len(buf) >= Capacity THEN buf ELSE Append(buf, f)

\* push: append, evicting the oldest frame when full.
push(f) == buf' = Append(IF Len(buf) >= Capacity THEN Tail(buf) ELSE buf, f)

dropConn ==
  /\ conn' = FALSE
  /\ wire' = << >>

Send ==
  /\ sendPc = "idle" /\ sent < MaxFrames
  /\ sent' = sent + 1
  /\ push(sent + 1)
  /\ sendPc' = IF conn THEN "flush" ELSE "dial"
  /\ replaying' = FALSE
  /\ dialled' = 0
  /\ UNCHANGED <<conn, accepted, provider>>

DialSucceeds ==
  /\ sendPc = "dial"
  /\ conn' = TRUE
  /\ sendPc' = "flush"
  /\ UNCHANGED <<replaying, dialled, buf, sent, accepted, provider>>

\* An attempt failed: the next one, the next provider, or ErrSTTUnavailable.
DialFails ==
  /\ sendPc = "dial"
  /\ dialled' = dialled + 1
  /\ sendPc' = IF dialled + 1 = DialAttempts * Factories THEN "idle" ELSE "dial"
  /\ UNCHANGED <<replaying, conn, buf, sent, accepted, provider>>

\* The context ended while sleeping before a delayed attempt.
SleepCancelled ==
  /\ sendPc = "dial" /\ dialled % DialAttempts # 0
  /\ sendPc' = "idle"
  /\ UNCHANGED <<replaying, conn, dialled, buf, sent, accepted, provider>>

\* Variant: the frame stays in the ring.
FlushKeepsFrame ==
  /\ sendPc = "flush" /\ buf # << >>
  /\ Len(accepted) < 2 * MaxFrames
  /\ accepted' = Append(accepted, Head(buf))
  /\ wire' = Append(wire, Head(buf))
  /\ buf' \in {buf, Tail(buf)}
  /\ UNCHANGED <<sendPc, replaying, conn, dialled, sent, transcript>>

FlushFrame ==
  /\ sendPc = "flush" /\ buf # << >>
  /\ accepted' = Append(accepted, Head(buf))
  /\ wire' = Append(wire, Head(buf))
  /\ buf' = Tail(buf)
  /\ UNCHANGED <<sendPc, replaying, conn, dialled, sent, transcript>>

\* Variant: a failed flush drops what was buffered.
FlushFailsEmpty ==
  /\ sendPc = "flush" /\ buf # << >>
  /\ dropConn
  /\ sendPc' = IF replaying THEN "idle" ELSE "dial"
  /\ replaying' = TRUE
  /\ dialled' = 0
  /\ buf' = << >>
  /\ UNCHANGED <<sent, accepted, transcript>>

\* Variant: every failed flush dials again.
FlushFailsForever ==
  /\ sendPc = "flush" /\ buf # << >>
  /\ dropConn
  /\ sendPc' = "dial"
  /\ replaying' = TRUE
  /\ dialled' = 0
  /\ UNCHANGED <<buf, sent, accepted, transcript>>

\* conn.Send failed: drop the connection, dial again once and replay; a
\* failure during the replay is final.
FlushFails ==
  /\ sendPc = "flush" /\ buf # << >>
  /\ dropConn
  /\ sendPc' = IF replaying THEN "idle" ELSE "dial"
  /\ replaying' = TRUE
  /\ dialled' = 0
  /\ UNCHANGED <<buf, sent, accepted, transcript>>

FlushDone ==
  /\ sendPc = "flush" /\ buf = << >>
  /\ sendPc' = "idle"
  /\ UNCHANGED <<replaying, conn, dialled, buf, sent, accepted, provider>>

\* Close, between two Sends: a graceful end lets the provider drain.
Close ==
  /\ sendPc = "idle" /\ conn
  /\ conn' = FALSE
  /\ transcript' = transcript \o wire
  /\ wire' = << >>
  /\ UNCHANGED <<sendPc, replaying, dialled, buf, sent, accepted>>

\* The provider processes the next frame it holds.
Process ==
  /\ wire # << >>
  /\ transcript' = Append(transcript, Head(wire))
  /\ wire' = Tail(wire)
  /\ UNCHANGED <<sendPc, replaying, conn, dialled, buf, sent, accepted>>

RingInit ==
  /\ sendPc = "idle" /\ replaying = FALSE /\ conn = FALSE /\ dialled = 0
  /\ buf = << >> /\ sent = 0 /\ accepted = << >>
  /\ wire = << >> /\ transcript = << >>

RingNext == Send \/ DialSucceeds \/ DialFails \/ SleepCancelled \/ FlushFrame
        \/ FlushFails \/ FlushDone \/ Close \/ Process

RingSpec == RingInit /\ [][RingNext]_ringVars

\* Send runs to its end: a dial or a conn.Send answers, one way or the other.
FairRingSpec ==
  RingSpec /\ WF_ringVars(DialSucceeds \/ DialFails \/ FlushFrame \/ FlushFails \/ FlushDone)
-----------------------------------------------------------------------------
(* Properties.                                                             *)

\* The ring always holds the newest frames: at most Capacity of them, with no
\* hole, up to the last one given to Send, through any failed flush or dial.
RingHoldsNewest ==
  /\ Len(buf) <= Capacity
  /\ \A i \in 1..Len(buf) : buf[i] = sent - Len(buf) + i

\* No reconnection delivers a frame twice or out of order: frames reach the
\* connections in the order they were spoken, and all before the buffered ones.
InOrderOnce ==
  /\ \A i \in 1..Len(accepted) : \A j \in 1..(i - 1) : accepted[j] < accepted[i]
  /\ \A i \in 1..Len(accepted) : \A j \in 1..Len(buf) : accepted[i] < buf[j]

\* A frame that was neither accepted nor kept was evicted by an outage longer
\* than the ring: at least Capacity newer frames have been spoken since.
OnlyLongOutagesEvict ==
  \A f \in 1..sent :
    \/ \E i \in 1..Len(accepted) : accepted[i] = f
    \/ \E i \in 1..Len(buf) : buf[i] = f
    \/ f + Capacity <= sent

\* Through any reconnections and replays the ring keeps the contract of
\* FrameLine: no step hands over a frame that is not newer than all before it,
\* or passes over one that is not yet Capacity frames old.
Line == INSTANCE FrameLine WITH spoken <- sent, delivered <- accepted
IsFrameLine == Line!Spec

\* Send never keeps the call's goroutine: whatever the providers do, it
\* returns after at most two dials and one replay (no endless reconnection).
SendReturns == sendPc # "idle" ~> sendPc = "idle"
=============================================================================
