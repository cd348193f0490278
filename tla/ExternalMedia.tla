--------------------------- MODULE ExternalMedia ----------------------------
(***************************************************************************)
(* The media server for Asterisk (go/internal/asterisk/externalmedia.go,   *)
(* rtp.go): one read loop turns RTP packets of several legs into sessions  *)
(* of frames, each session paces its outbound packets, and a session or    *)
(* the whole server may be closed meanwhile by another goroutine.          *)
(*                                                                         *)
(* A leg (its SSRC) numbers its packets 0, 1, ...; on the wire only the    *)
(* number modulo Wrap is left (2^16).  The network loses, duplicates and   *)
(* reorders packets, within what half the range holds (Horizon).  Packets  *)
(* that are no RTP of the leg's format change nothing (parseRTP) and are   *)
(* left out, as are the audio itself and the reader of a session's frames: *)
(* a frame its channel has no room for is dropped.                         *)
(***************************************************************************)
EXTENDS Jitter, Integers, Sequences

CONSTANTS
  Legs,         \* SSRCs
  Wrap,         \* wire sequence numbers, half of which count as ahead
  Reorder,      \* how many numbers a packet may come late
  FirstSeq,     \* the wire number of a leg's first packet
  OutQueueMax,  \* 250: outbound packets waiting for the pacer
  AcceptCap,    \* 16: sessions waiting to be accepted
  MaxPackets,   \* bound: packets of a leg
  MaxCopies,    \* bound: duplicated packets
  MaxSessions,  \* bound: sessions
  MaxWritten    \* bound: packets written to all sessions

ASSUME ExternalMediaAssumption ==
  /\ {OutQueueMax, AcceptCap, MaxPackets, MaxCopies, MaxSessions, MaxWritten} \subseteq Nat
  /\ Wrap \in Nat \ {0} /\ Wrap % 2 = 0
  /\ Reorder \in 0 .. (Wrap \div 2) - 1
  /\ FirstSeq \in 0 .. Wrap - 1

VARIABLES
  copies,    \* duplicates the network has delivered
  reader,    \* the read loop: its step, packet and session
  server,    \* conn open, closed flag, sessions the shutdown has to close,
             \* the accept channel and the sessions taken from it
  mapped,    \* s.sessions: [Legs -> session or None]
  sessions,  \* the sessions in order of creation
  jitter,    \* per leg, a jitter buffer fed with what arrives
  panicked

netVars == <<copies, jitter>>
vars    == <<netVars, reader, server, mapped, sessions, panicked>>

None  == 0
Half  == Wrap \div 2
Seq16(n) == (FirstSeq + n) % Wrap

newMediaSession(leg) ==
  [leg |-> leg, started |-> FALSE, lastSeq |-> 0, frameSeq |-> 0,
   close |-> "no", out |-> <<>>, popped |-> None,
   first |-> 0, last |-> 0,        \* history: the first and the last packet made a frame
   written |-> 0, cut |-> 0]       \* history: packets written, those cut off by a flush

Reading == [at |-> "read", leg |-> None, n |-> 0, s |-> None]

Init ==
  /\ copies = 0
  /\ jitter = [g \in Legs |-> [buffer |-> NewJitterBuffer, seen |-> {}, first |-> 0]]
  /\ reader = Reading
  /\ server = [conn |-> TRUE, closed |-> FALSE, closing |-> {},
               accept |-> <<>>, acceptClosed |-> FALSE, owned |-> {}]
  /\ mapped = [g \in Legs |-> None]
  /\ sessions = <<>>
  /\ panicked = FALSE

-----------------------------------------------------------------------------
(* The network: a packet comes at most Reorder numbers late, and the numbers *)
(* lost before it leave room for that within half the range: whichever      *)
(* packet a session started at, the next ones are ahead of it.              *)
Horizon(g, n) ==
  LET seen == jitter[g].seen IN
  /\ \A h \in seen : h - n <= Reorder
  /\ seen # {} => \E h \in seen : n - h <= Half - Reorder

(* The read loop (Serve).  What arrives also feeds a jitter buffer.         *)
ReadFromUDP(g, n) ==
  /\ reader.at = "read" /\ server.conn
  /\ Horizon(g, n)
  /\ copies' = IF n \in jitter[g].seen THEN copies + 1 ELSE copies
  /\ copies' <= MaxCopies
  /\ reader' = [at |-> "session", leg |-> g, n |-> n, s |-> None]
  /\ jitter' = [jitter EXCEPT ![g] =
       [buffer |-> Push(@.buffer, n), seen |-> @.seen \cup {n},
        first |-> IF @.seen = {} THEN n ELSE @.first]]
  /\ UNCHANGED <<server, mapped, sessions, panicked>>

(* The session of the packet; a new one is mapped and announced, unless     *)
(* nobody accepts.  Announcing on a closed channel panics.                  *)
session ==
  /\ reader.at = "session"
  /\ UNCHANGED netVars
  /\ \/ /\ mapped[reader.leg] # None
        /\ reader' = [reader EXCEPT !.at = "deliver", !.s = mapped[reader.leg]]
        /\ UNCHANGED <<server, mapped, sessions, panicked>>
     \/ /\ mapped[reader.leg] = None /\ Len(sessions) < MaxSessions
        /\ LET s == Len(sessions) + 1 IN
             /\ sessions' = Append(sessions, newMediaSession(reader.leg))
             /\ mapped' = [mapped EXCEPT ![reader.leg] = s]
             /\ reader' = [reader EXCEPT !.at = "deliver", !.s = s]
             /\ panicked' = server.acceptClosed
             /\ server' = IF Len(server.accept) < AcceptCap
                          THEN [server EXCEPT !.accept = Append(@, s)] ELSE server

deliverMovesBack ==  \* Variant of deliver.
  LET m     == sessions[reader.s]
      seq   == Seq16(reader.n)
      delta == (seq - m.lastSeq + Wrap) % Wrap
      late  == m.started /\ (delta = 0 \/ delta > Half)
      moved == [m EXCEPT !.started = TRUE, !.lastSeq = seq, !.last = reader.n,
                         !.frameSeq = IF m.started THEN @ + delta ELSE @,
                         !.first = IF m.started THEN @ ELSE reader.n]
  IN  /\ reader.at = "deliver"
      /\ sessions' = IF late THEN [sessions EXCEPT ![reader.s].lastSeq = seq]
                     ELSE [sessions EXCEPT ![reader.s] = moved]
      /\ reader' = IF late \/ m.close # "no" THEN Reading ELSE [reader EXCEPT !.at = "send"]
      /\ UNCHANGED <<netVars, server, mapped, panicked>>
(* deliver: the wire number is unwrapped against the last one; a repeated   *)
(* or late packet is dropped, as is one for a closed session.               *)
deliver ==
  LET m     == sessions[reader.s]
      seq   == Seq16(reader.n)
      delta == (seq - m.lastSeq + Wrap) % Wrap
      late  == m.started /\ (delta = 0 \/ delta > Half)
      moved == [m EXCEPT !.started = TRUE, !.lastSeq = seq, !.last = reader.n,
                         !.frameSeq = IF m.started THEN @ + delta ELSE @,
                         !.first = IF m.started THEN @ ELSE reader.n]
  IN  /\ reader.at = "deliver"
      /\ sessions' = IF late THEN sessions
                     ELSE [sessions EXCEPT ![reader.s] = moved]
      /\ reader' = IF late \/ m.close # "no" THEN Reading ELSE [reader EXCEPT !.at = "send"]
      /\ UNCHANGED <<netVars, server, mapped, panicked>>

(* The frame is sent to the session's channel.  The session may have been   *)
(* closed since the check: then the send panics.                            *)
SendFrame ==
  /\ reader.at = "send"
  /\ reader' = Reading
  /\ panicked' = (sessions[reader.s].close \in {"frames closed", "done"})
  /\ UNCHANGED <<netVars, server, mapped, sessions>>

(* The socket is closed: the loop ends with a shutdown. *)
ReadFails ==
  /\ reader.at = "read" /\ ~server.conn
  /\ reader' = [Reading EXCEPT !.at = "shutdown"]
  /\ UNCHANGED <<netVars, server, mapped, sessions, panicked>>

-----------------------------------------------------------------------------
(* Close, by the owner or at the end of the context: first the socket, then *)
(* shutdown.                                                                *)
CloseServer ==
  /\ server.conn
  /\ server' = [server EXCEPT !.conn = FALSE]
  /\ UNCHANGED <<netVars, reader, mapped, sessions, panicked>>

(* shutdown, the part under the lock: whoever closed the socket or found it  *)
(* closed; the first caller takes the sessions, others return.              *)
Shutdown ==
  /\ ~server.conn /\ ~server.closed
  /\ server' = [server EXCEPT !.closed = TRUE, !.closing = {mapped[g] : g \in Legs} \ {None}]
  /\ mapped' = [g \in Legs |-> None]
  /\ UNCHANGED <<netVars, reader, sessions, panicked>>

(* It closes each session, waiting where another goroutine is about to, and *)
(* then the accept channel.                                                 *)
ShutdownCloses(s) ==
  /\ s \in server.closing /\ sessions[s].close = "done"
  /\ server' = [server EXCEPT !.closing = @ \ {s}]
  /\ UNCHANGED <<netVars, reader, mapped, sessions, panicked>>

CloseAccept ==
  /\ server.closed /\ server.closing = {} /\ ~server.acceptClosed
  /\ server' = [server EXCEPT !.acceptClosed = TRUE]
  /\ UNCHANGED <<netVars, reader, mapped, sessions, panicked>>

(* The call's goroutine takes an announced session. *)
Accept ==
  /\ server.accept # <<>>
  /\ server' = [server EXCEPT !.accept = Tail(@), !.owned = @ \cup {Head(server.accept)}]
  /\ UNCHANGED <<netVars, reader, mapped, sessions, panicked>>

-----------------------------------------------------------------------------
(* MediaSession.Close runs once, for its call or for shutdown: the flag and *)
(* the queue, then the channels, then the map.                              *)
Changes(s, new) ==
  sessions' = [sessions EXCEPT ![s] = new] /\ UNCHANGED <<netVars, reader, server, panicked>>

CloseSessionDropsFirst(s) ==  \* Variant of CloseSession.
  /\ sessions[s].close = "no"
  /\ s \in server.owned \cup server.closing
  /\ Changes(s, [sessions[s] EXCEPT !.close = "flagged", !.out = <<>>])
  /\ mapped' = [mapped EXCEPT ![sessions[s].leg] = None]
CloseSession(s) ==
  /\ sessions[s].close = "no"
  /\ s \in server.owned \cup server.closing
  /\ Changes(s, [sessions[s] EXCEPT !.close = "flagged", !.out = <<>>])
  /\ UNCHANGED mapped

CloseFrames(s) ==
  /\ sessions[s].close = "flagged"
  /\ Changes(s, [sessions[s] EXCEPT !.close = "frames closed"])
  /\ UNCHANGED mapped

drop(s) ==
  /\ sessions[s].close = "frames closed"
  /\ Changes(s, [sessions[s] EXCEPT !.close = "done"])
  /\ mapped' = IF server.closed THEN mapped ELSE [mapped EXCEPT ![sessions[s].leg] = None]

FlushKeepsOne(s) ==  \* Variant of Flush.
  /\ sessions[s].out # <<>>
  /\ Changes(s, [sessions[s] EXCEPT !.out = <<Head(@)>>, !.cut = sessions[s].written])
  /\ UNCHANGED mapped
(* Write queues packets until the queue is full, and then reports overflow  *)
(* with the first ones queued; Flush empties the queue.                     *)
Write(s, k) ==
  LET m    == sessions[s]
      fits == IF Len(m.out) + k <= OutQueueMax THEN k ELSE OutQueueMax - Len(m.out)
  IN  /\ m.close = "no" /\ s \in server.owned /\ fits > 0
      /\ MapThenSumSet(LAMBDA t : sessions[t].written, DOMAIN sessions) + fits <= MaxWritten
      /\ Changes(s, [m EXCEPT !.out = @ \o [i \in 1 .. fits |-> m.written + i],
                              !.written = @ + fits])
      /\ UNCHANGED mapped

Flush(s) ==
  /\ sessions[s].out # <<>>
  /\ Changes(s, [sessions[s] EXCEPT !.out = <<>>, !.cut = sessions[s].written])
  /\ UNCHANGED mapped

(* sendLoop: a tick takes the oldest packet and puts it on the wire.  It    *)
(* ends when the session has closed its channels.                           *)
nextPayload(s) ==
  LET m == sessions[s] IN
  /\ m.close \notin {"frames closed", "done"} /\ m.popped = None /\ m.out # <<>>
  /\ Changes(s, [m EXCEPT !.out = Tail(@), !.popped = Head(m.out)])
  /\ UNCHANGED mapped

WriteToUDP(s) ==
  LET m == sessions[s] IN
  /\ m.popped # None
  /\ Changes(s, [m EXCEPT !.popped = None])
  /\ UNCHANGED mapped

-----------------------------------------------------------------------------
Session(s) ==
  \/ CloseSession(s) \/ CloseFrames(s) \/ drop(s) \/ ShutdownCloses(s)
  \/ (\E k \in 1 .. 2 : Write(s, k)) \/ Flush(s) \/ nextPayload(s) \/ WriteToUDP(s)

Next ==
  /\ ~panicked
  /\ \/ \E g \in Legs, n \in 0 .. MaxPackets - 1 : ReadFromUDP(g, n)
     \/ session \/ deliver \/ SendFrame \/ ReadFails
     \/ CloseServer \/ Shutdown \/ CloseAccept \/ Accept
     \/ \E s \in DOMAIN sessions : Session(s)

Spec == Init /\ [][Next]_vars

-----------------------------------------------------------------------------
(* A frame's number is its packet's place in the leg's stream, counted from *)
(* the session's first packet, however the 16-bit number wrapped and        *)
(* whatever was lost, repeated or late in between: the media clock of the   *)
(* call is built on it (externalmedia.go:265-272, media/frame.go:26-28).    *)
FrameSeqIsOffset ==
  \A s \in DOMAIN sessions : sessions[s].frameSeq = sessions[s].last - sessions[s].first

(* A barge-in cut holds: what a flush dropped is never on the wire, packets *)
(* leave in the order written, and at most the one packet that the pacer    *)
(* had already taken survives a flush or a close (externalmedia.go:225).    *)
FlushCuts ==
  \A s \in DOMAIN sessions :
    LET m == sessions[s] IN
    /\ \A i \in 1 .. Len(m.out) : m.out[i] = m.written - Len(m.out) + i /\ m.out[i] > m.cut
    /\ m.popped # None /\ m.out # <<>> => m.popped < Head(m.out)
    /\ Len(m.out) <= OutQueueMax

(* One leg has one session at a time that is neither closing nor left to    *)
(* the shutdown: a leg that sends on after its call ended gets a new one    *)
(* only when the old one can deliver nothing more (externalmedia.go:96,     *)
(* 135).                                                                    *)
OneSessionPerLeg ==
  \A s, t \in DOMAIN sessions :
    s < t /\ sessions[s].leg = sessions[t].leg /\ ~server.closed => sessions[s].close = "done"

(* The jitter buffer waits for a frame that at most Window later ones have  *)
(* overtaken, holds no more than Window frames, and never stalls behind a   *)
(* frame it holds (media/jitter.go:3-7).                                    *)
JitterWaits ==
  \A g \in Legs :
    LET j == jitter[g] IN
    /\ \A f \in 0 .. MaxPackets - 1 :
         /\ f > j.first /\ j.seen # {} /\ f \notin j.seen
         /\ Cardinality({h \in j.seen : h > f}) <= Window
         => f >= j.buffer.next
    /\ Cardinality(j.buffer.pending) <= Window
    /\ \A f \in j.buffer.pending : f > j.buffer.next

(* "drop, never crash the media path" (externalmedia.go:83): no goroutine   *)
(* of the server panics.                                                    *)
NeverPanics == ~panicked
=============================================================================
