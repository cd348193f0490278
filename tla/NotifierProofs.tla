--------------------------- MODULE NotifierProofs ---------------------------
(***************************************************************************)
(* Proofs about the notifier, for every set of calls and every bound on    *)
(* restarts and weeks:                                                     *)
(*   - in one run of the process an SMS goes out at most once              *)
(*     (OncePerRun);                                                       *)
(*   - the reports of a run hold no call twice (ReportsNotInflated);       *)
(*   - an event leaves the stream only after a handler took it or failed   *)
(*     on it (AckedUnlessFailed);                                          *)
(*   - while the process lives, a caller who left a message is texted once *)
(*     when the call is handled, unless an event of the call came after    *)
(*     its call.ended (ClientConfirmed).                                   *)
(*                                                                         *)
(* Each has its own inductive invariant.  The last needs the other two     *)
(* parts of the state: what the buffers hold of the stream, and what the   *)
(* dedup keys say of the SMS sent.                                         *)
(***************************************************************************)
EXTENDS Notifier, TLAPS

-----------------------------------------------------------------------------
(* Types.                                                                  *)

Keys == Calls \X {"owner", "client", "agg"}

\* The callback is idle, or it handles the call.ended of one call.
HandTyped ==
  /\ pc \in Steps
  /\ \/ pc = "idle" /\ current = {}
     \/ pc # "idle" /\ \E c \in Calls : current = {c}

BusTyped == stream \subseteq Events /\ fresh \subseteq stream /\ unacked \subseteq Events

MemoryTyped == /\ seen \subseteq Events /\ pending \in [Calls -> SUBSET Events]
               /\ keys \subseteq Keys
               /\ handled \subseteq Events /\ failed \subseteq Events

CountersTyped == /\ sent \in [SMS -> Nat] /\ sentRun \in [SMS -> Nat]
                 /\ {weekly, wstats, counted, reported, crashes} \subseteq Nat
                 /\ wpc \in {"idle", "send", "reset"}

TypeInv == HandTyped /\ BusTyped /\ MemoryTyped /\ CountersTyped

-----------------------------------------------------------------------------
(* The inductive invariants.                                               *)

\* The SMS of key s is out and its key not marked yet.
MarkStep(s) == IF s[2] = "owner" THEN "ownerMark" ELSE "clientMark"
Unmarked(s) == pc = MarkStep(s) /\ current = {s[1]}

\* An SMS is out exactly when its key is marked or about to be.
SentInv == \A s \in SMS : sentRun[s] = IF s \in keys \/ Unmarked(s) THEN 1 ELSE 0

\* What a report reads is still in the counters when it goes out.
ReportInv ==
  /\ wpc = "send" => wstats <= weekly
  /\ wpc = "reset" => reported <= counted
  /\ ReportsNotInflated

\* Every recorded event was handled, failed, or is in hand.
AckInv == /\ seen \subseteq handled \cup failed \cup {Event(c, "ended") : c \in current}
          /\ AckedUnlessFailed

Delivered(e) == e \in stream \ fresh

\* A call in the stream has its call.started there, and when call.ended was
\* not delivered ahead of others, none of the call is still to come.
StreamInv ==
  /\ \A e \in stream : Event(e.call, "started") \in stream
  /\ \A c \in Calls \ overtaken : Delivered(Event(c, "ended")) => \A e \in fresh : e.call # c

\* What the buffers hold while the process that filled them lives.
BufferInv ==
  /\ seen = {e \in Events : e \in pending[e.call]}
  /\ \A e \in unacked : Delivered(e)
  /\ \A c \in current : Delivered(Event(c, "ended"))
  /\ \A c \in Calls : Event(c, "ended") \in handled => Delivered(Event(c, "ended"))
  /\ \A e \in Events : crashes = 0 /\ Event(e.call, "ended") \notin handled /\ Delivered(e)
                         => e \in pending[e.call]

\* The confirmation of c is behind.
Confirmed(c) == \/ Event(c, "ended") \in handled
                \/ current = {c} /\ pc \in {"clientMark", "agg", "done"}

ConfirmInv ==
  /\ crashes = 0 => sent = sentRun
  /\ \A c \in Calls \ overtaken : crashes = 0 /\ Confirmed(c) /\ InStream(Event(c, "message"))
       => sent[<<c, "client">>] = 1

-----------------------------------------------------------------------------
(* The steps of the callback.                                              *)

After(s) == IF s[2] = "owner" THEN "client" ELSE "agg"

Moves(c, from, to) == /\ pc = from /\ current = {c} /\ pc' = to /\ current' = {c}
                      /\ failed' = failed

\* A step returns an error.
Drops(c) == /\ pc \in {"lookup", "owner", "client"} /\ current = {c}
            /\ pc' = "idle" /\ current' = {}
            /\ failed' = failed \cup {Event(c, "ended")}
            /\ UNCHANGED effects

\* A step without effect.
Skips(c) == /\ \/ Moves(c, "lookup", "owner") \/ Moves(c, "owner", "client")
               \/ Moves(c, "client", "agg") /\ (<<c, "client">> \in keys \/ ~ClientDue(c))
            /\ UNCHANGED effects

\* The SMS s goes out, and its key is marked.
Sends(s) == Moves(s[1], s[2], MarkStep(s)) /\ s \notin keys /\ Transmit(s)
Marks(s) == /\ Moves(s[1], MarkStep(s), After(s))
            /\ keys' = keys \cup {s} /\ UNCHANGED <<smsVars, weekly, counted>>

\* The call is counted for the weekly report.
Counts(c) == /\ Moves(c, "agg", "done")
             /\ keys' = keys \cup {<<c, "agg">>} /\ UNCHANGED smsVars
             /\ \E n \in {0, 1} : weekly' = weekly + n /\ counted' = counted + n

HandleShape == \/ \E c \in Calls : Drops(c) \/ Skips(c) \/ Counts(c)
               \/ \E s \in SMS : Sends(s) \/ Marks(s)

\* Every step of HandleEvent is one of these (notifier.go:127-194).
LEMMA HandleSteps ==
  ASSUME TypeInv, Handle
  PROVE  HandleShape
<1>1. PICK c \in current : \/ \E f \in Fails : Lookup(c, f) \/ OwnerSMS(c, f) \/ ClientSMS(c, f)
                           \/ OwnerMark(c) \/ ClientMark(c) \/ RecordWeekly(c)
  BY Zenon DEF Handle
<1>2. c \in Calls /\ current = {c}
  BY <1>1 DEF TypeInv, HandTyped
<1>3. <<c, "owner">> \in SMS /\ <<c, "client">> \in SMS
      /\ <<c, "owner">>[1] = c /\ <<c, "client">>[1] = c
      /\ <<c, "owner">>[2] = "owner" /\ <<c, "client">>[2] = "client"
  BY <1>2 DEF SMS
<1>4. Fail => /\ pc' = "idle" /\ current' = {} /\ UNCHANGED effects
              /\ failed' = failed \cup {Event(c, "ended")}
  BY <1>2 DEF Fail
<1>5. ASSUME NEW f, Lookup(c, f)
      PROVE  Drops(c) \/ Skips(c)
  <2>1. pc = "lookup"
    BY <1>5, Zenon DEF Lookup, At
  <2>2. pc = "lookup" => pc \in {"lookup", "owner", "client"}
    OBVIOUS
  <2>3. CASE f
    BY <1>2, <1>4, <1>5, <2>1, <2>2, <2>3, Zenon DEF Lookup, Drops
  <2>4. CASE ~f
    BY <1>2, <1>5, <2>1, <2>4, Zenon DEF Lookup, To, Skips, Moves
  <2>5. QED
    BY <2>3, <2>4
<1>6. ASSUME NEW f, OwnerSMS(c, f)
      PROVE  Drops(c) \/ Skips(c) \/ Sends(<<c, "owner">>)
  <2>1. pc = "owner"
    BY <1>6, Zenon DEF OwnerSMS, At
  <2>2. pc = "owner" => pc \in {"lookup", "owner", "client"}
    OBVIOUS
  <2>3. CASE <<c, "owner">> \notin keys /\ f
    BY <1>2, <1>4, <1>6, <2>1, <2>2, <2>3, Zenon DEF OwnerSMS, SendOnce, Drops
  <2>4. CASE <<c, "owner">> \notin keys /\ ~f
    BY <1>2, <1>3, <1>6, <2>1, <2>4, Zenon DEF OwnerSMS, SendOnce, To, Sends, Moves, MarkStep
  <2>5. CASE <<c, "owner">> \in keys
    BY <1>2, <1>6, <2>1, <2>5, Zenon DEF OwnerSMS, SendOnce, To, Skips, Moves
  <2>6. QED
    BY <2>3, <2>4, <2>5
<1>7. ASSUME NEW f, ClientSMS(c, f)
      PROVE  Drops(c) \/ Skips(c) \/ Sends(<<c, "client">>)
  <2>1. pc = "client"
    BY <1>7, Zenon DEF ClientSMS, At
  <2>2. pc = "client" => pc \in {"lookup", "owner", "client"}
    OBVIOUS
  <2>0. "client" # "owner"
    OBVIOUS
  <2>3. CASE ClientDue(c) /\ <<c, "client">> \notin keys /\ f
    BY <1>2, <1>4, <1>7, <2>1, <2>2, <2>3, Zenon DEF ClientSMS, SendOnce, Drops
  <2>4. CASE ClientDue(c) /\ <<c, "client">> \notin keys /\ ~f
    BY <1>2, <1>3, <1>7, <2>0, <2>1, <2>4, Zenon DEF ClientSMS, SendOnce, To, Sends, Moves, MarkStep
  <2>5. CASE ~ClientDue(c) \/ <<c, "client">> \in keys
    BY <1>2, <1>7, <2>1, <2>5, Zenon DEF ClientSMS, SendOnce, To, Skips, Moves
  <2>6. QED
    BY <2>3, <2>4, <2>5
<1>8. OwnerMark(c) => Marks(<<c, "owner">>)
  BY <1>2, <1>3, Zenon DEF OwnerMark, At, Mark, To, Marks, Moves, MarkStep, After
<1>9. ClientMark(c) => Marks(<<c, "client">>)
  <2>0. "client" # "owner"
    OBVIOUS
  <2>1. QED
    BY <1>2, <1>3, <2>0, Zenon DEF ClientMark, At, Mark, To, Marks, Moves, MarkStep, After
<1>10. RecordWeekly(c) => Counts(c)
  <2>1. SUFFICES ASSUME RecordWeekly(c)
                 PROVE  Counts(c)
    OBVIOUS
  <2>2. PICK n : n = IF <<c, "agg">> \in keys THEN 0 ELSE 1
    OBVIOUS
  <2>3. n \in {0, 1}
    BY <2>2
  <2>4. weekly' = weekly + n /\ counted' = counted + n
    BY <2>1, <2>2, Zenon DEF RecordWeekly
  <2>5. Moves(c, "agg", "done") /\ keys' = keys \cup {<<c, "agg">>} /\ UNCHANGED smsVars
    BY <1>2, <2>1, Zenon DEF RecordWeekly, At, To, Moves
  <2>6. QED
    BY <2>3, <2>4, <2>5, Zenon DEF Counts
<1>11. QED
  BY <1>1, <1>2, <1>3, <1>5, <1>6, <1>7, <1>8, <1>9, <1>10, Zenon DEF HandleShape

-----------------------------------------------------------------------------
(* The steps of the system.                                                *)

\* The callback receives e: for the first time, or again.
Takes(e) ==
  /\ pc = "idle" /\ Receive(e)
  /\ \/ /\ e \in fresh /\ fresh' = fresh \ {e}
        /\ overtaken' = overtaken \cup
             IF e.kind = "ended" /\ Behind(e) # {} THEN {e.call} ELSE {}
     \/ UNCHANGED <<fresh, overtaken>> /\ e \in unacked
  /\ UNCHANGED <<stream, effects, weeklyVars, weeks, crashes, reported>>

Handles == HandleShape /\ UNCHANGED <<bus, seen, pending, weeklyVars, crashes, handled, reported>>

NextShape == \/ \E e \in Events : Publish(e) \/ Takes(e)
             \/ Handles
             \/ \E c \in Calls : Done(c)
             \/ Weekly \/ NewWeek \/ Crash \/ UNCHANGED vars

\* Every step of the notifier is one of these.
LEMMA NextSteps ==
  ASSUME TypeInv, [Next]_vars
  PROVE  NextShape
<1>1. \A e \in Events : Deliver(e) => Takes(e)
  BY Zenon DEF Deliver, Takes
<1>2. \A e \in Events : Redeliver(e) => Takes(e)
  BY Zenon DEF Redeliver, Takes, feed
<1>3. Handle => Handles
  BY HandleSteps, Zenon DEF Handle, Handles
<1>4. QED
  BY <1>1, <1>2, <1>3, Zenon DEF Next, NextShape

\* The fields of an event.
LEMMA EventFields ==
  /\ \A c \in Calls : \A k \in {"started", "message", "ended"} :
       Event(c, k) \in Events /\ Event(c, k).call = c /\ Event(c, k).kind = k
  /\ \A e \in Events : e.call \in Calls /\ e = Event(e.call, e.kind)
                       /\ e.kind \in {"started", "message", "ended"}
BY DEF Event, Events

\* What Receive does to an event seen before, to call.ended, and to the rest.
LEMMA ReceiveCases ==
  ASSUME NEW e \in Events, Receive(e)
  PROVE  \/ e \in seen /\ Ack(e) /\ UNCHANGED <<seen, pc, current, failed, pending, handled>>
         \/ /\ e \notin seen /\ e.kind = "ended"
            /\ seen' = seen \cup {e} /\ pending' = [pending EXCEPT ![e.call] = @ \cup {e}]
            /\ pc' = "lookup" /\ current' = {e.call} /\ unacked' = unacked \cup {e}
            /\ UNCHANGED <<failed, handled>>
         \/ /\ e \notin seen /\ e.kind # "ended" /\ Ack(e)
            /\ seen' = seen \cup {e} /\ pending' = [pending EXCEPT ![e.call] = @ \cup {e}]
            /\ handled' = handled \cup {e}
            /\ UNCHANGED <<pc, current, failed>>
BY Zenon DEF Receive, isDuplicate, callback

\* An acknowledgement takes at most its event off the list, and adds no other.
LEMMA AckOutcomes ==
  ASSUME NEW e, Ack(e)
  PROVE  unacked' \subseteq unacked \cup {e} /\ unacked \subseteq unacked' \cup {e}
BY DEF Ack

\* Only the callback moves its hand, between calls.
LEMMA HandStep ==
  ASSUME TypeInv, NextShape
  PROVE  HandTyped'
<1>0. HandTyped
  BY DEF TypeInv
<1>1. CASE UNCHANGED <<pc, current>>
  BY <1>0, <1>1, Zenon DEF HandTyped
<1>2. CASE pc' = "idle" /\ current' = {}
  BY <1>2 DEF HandTyped, Steps
<1>3. CASE \E c \in Calls : current' = {c} /\ pc' \in Steps /\ pc' # "idle"
  BY <1>3, Zenon DEF HandTyped
<1>4. ASSUME NEW e \in Events, Takes(e)
      PROVE  HandTyped'
  <2>1. e.call \in Calls /\ Receive(e)
    BY <1>4, EventFields, Zenon DEF Takes
  <2>2. "lookup" \in Steps /\ "lookup" # "idle"
    BY DEF Steps
  <2>3. QED
    BY <1>1, <1>3, <2>1, <2>2, ReceiveCases, Zenon
<1>5. CASE Handles
  <2>1. ASSUME NEW c \in Calls, NEW from, NEW to \in Steps \ {"idle"}, Moves(c, from, to)
        PROVE  HandTyped'
    BY <1>3, <2>1, Zenon DEF Moves
  <2>2. {"owner", "client", "agg", "done", "ownerMark", "clientMark"} \subseteq Steps \ {"idle"}
    BY DEF Steps
  <2>3. \A s \in SMS : MarkStep(s) \in Steps \ {"idle"} /\ After(s) \in Steps \ {"idle"} /\ s[1] \in Calls
    BY <2>2 DEF SMS, MarkStep, After
  <2>4. \A c \in Calls : Drops(c) => HandTyped'
    BY <1>2, Zenon DEF Drops
  <2>5. \A c \in Calls : Skips(c) \/ Counts(c) => HandTyped'
    <3>1. "owner" \in Steps \ {"idle"} /\ "client" \in Steps \ {"idle"}
          /\ "agg" \in Steps \ {"idle"} /\ "done" \in Steps \ {"idle"}
      BY <2>2
    <3>2. QED
      BY <2>1, <3>1, Zenon DEF Skips, Counts
  <2>6. \A s \in SMS : Sends(s) \/ Marks(s) => HandTyped'
    BY <2>1, <2>3, Zenon DEF Sends, Marks
  <2>7. QED
    BY <1>5, <2>4, <2>5, <2>6, Zenon DEF Handles, HandleShape
<1>6. QED
  BY <1>1, <1>2, <1>4, <1>5, Zenon
  DEF NextShape, Publish, Done, Weekly, NewWeek, Crash, vars, callback

\* The stream grows by events, and what is still to be delivered is part of it.
LEMMA BusStep ==
  ASSUME TypeInv, NextShape
  PROVE  BusTyped'
<1>0. BusTyped
  BY DEF TypeInv
<1>1. CASE UNCHANGED bus
  BY <1>0, <1>1, Zenon DEF BusTyped, bus, feed
<1>2. ASSUME NEW e \in Events, Publish(e)
      PROVE  BusTyped'
  <2>1. stream' = stream \cup {e} /\ fresh' = fresh \cup {e} /\ unacked' = unacked
    BY <1>2, Zenon DEF Publish
  <2>2. QED
    BY <1>0, <2>1 DEF BusTyped
<1>3. ASSUME NEW e \in Events, Takes(e)
      PROVE  BusTyped'
  <2>1. unacked' \subseteq unacked \cup {e}
    BY <1>3, ReceiveCases, AckOutcomes, Zenon DEF Takes
  <2>2. stream' = stream /\ (fresh' = fresh \/ fresh' = fresh \ {e})
    BY <1>3, Zenon DEF Takes
  <2>3. QED
    BY <1>0, <2>1, <2>2 DEF BusTyped
<1>4. ASSUME NEW c \in Calls, Done(c)
      PROVE  BusTyped'
  <2>1. stream' = stream /\ fresh' = fresh /\ Ack(Event(c, "ended"))
    BY <1>4, Zenon DEF Done, feed
  <2>2. unacked' \subseteq unacked \cup {Event(c, "ended")} /\ Event(c, "ended") \in Events
    BY <2>1, AckOutcomes, EventFields
  <2>3. QED
    BY <1>0, <2>1, <2>2 DEF BusTyped
<1>5. QED
  BY <1>1, <1>2, <1>3, <1>4, Zenon DEF NextShape, Handles, Weekly, NewWeek, Crash, vars

\* The memory of the process, and the history, hold events and keys.
LEMMA MemoryStep ==
  ASSUME TypeInv, NextShape
  PROVE  MemoryTyped'
<1>0. MemoryTyped
  BY DEF TypeInv
<1>1. CASE UNCHANGED <<seen, pending, keys, handled, failed>>
  BY <1>0, <1>1, Zenon DEF MemoryTyped
<1>2. ASSUME NEW e \in Events, Takes(e)
      PROVE  MemoryTyped'
  <2>1. keys' = keys
    BY <1>2, Zenon DEF Takes, effects
  <2>2. /\ seen' = seen \/ seen' = seen \cup {e}
        /\ pending' = pending \/ pending' = [pending EXCEPT ![e.call] = @ \cup {e}]
        /\ handled' = handled \/ handled' = handled \cup {e}
        /\ failed' = failed
    BY <1>2, ReceiveCases, Zenon DEF Takes
  <2>3. e.call \in Calls
    BY EventFields
  <2>4. pending' \in [Calls -> SUBSET Events]
    BY <1>0, <2>2, <2>3 DEF MemoryTyped
  <2>5. QED
    BY <1>0, <2>1, <2>2, <2>4 DEF MemoryTyped
<1>3. CASE Handles
  <2>1. UNCHANGED <<seen, pending, handled>>
    BY <1>3, Zenon DEF Handles
  <2>2. failed' = failed \/ \E c \in Calls : failed' = failed \cup {Event(c, "ended")}
    BY <1>3, Zenon DEF Handles, HandleShape, Drops, Skips, Counts, Sends, Marks, Moves, SMS
  <2>3. failed' \subseteq Events
    BY <1>0, <2>2, EventFields DEF MemoryTyped
  <2>4. keys' = keys \/ (\E c \in Calls : keys' = keys \cup {<<c, "agg">>})
        \/ \E s \in SMS : keys' = keys \cup {s}
    BY <1>3, Zenon DEF Handles, HandleShape, Drops, Skips, Counts, Sends, Marks, Transmit, effects
  <2>5. SMS \subseteq Keys /\ \A c \in Calls : <<c, "agg">> \in Keys
    BY DEF SMS, Keys
  <2>6. keys' \subseteq Keys
    BY <1>0, <2>4, <2>5 DEF MemoryTyped
  <2>7. QED
    BY <1>0, <2>1, <2>3, <2>6, Zenon DEF MemoryTyped
<1>4. ASSUME NEW c \in Calls, Done(c)
      PROVE  MemoryTyped'
  <2>1. /\ pending' = [pending EXCEPT ![c] = {}] /\ seen' = {e \in seen : e.call # c}
        /\ handled' = handled \cup {Event(c, "ended")} /\ failed' = failed /\ keys' = keys
    BY <1>4, Zenon DEF Done, effects
  <2>2. Event(c, "ended") \in Events
    BY EventFields
  <2>3. QED
    BY <1>0, <2>1, <2>2 DEF MemoryTyped
<1>5. CASE Crash
  BY <1>0, <1>5 DEF Crash, MemoryTyped
<1>6. CASE Weekly
  BY <1>1, <1>6, Zenon DEF Weekly, callback
<1>7. QED
  BY <1>1, <1>2, <1>3, <1>4, <1>5, <1>6, Zenon DEF NextShape, Publish, NewWeek, vars, callback, effects

\* What a step does to the carrier's counts.
LEMMA SentSteps ==
  ASSUME NextShape
  PROVE  \/ UNCHANGED <<sent, sentRun>>
         \/ \E s \in SMS : sent' = [sent EXCEPT ![s] = @ + 1] /\ sentRun' = [sentRun EXCEPT ![s] = @ + 1]
         \/ sent' = sent /\ sentRun' = [s \in SMS |-> 0]
<1>1. Handles => \/ UNCHANGED <<sent, sentRun>>
                 \/ \E s \in SMS : sent' = [sent EXCEPT ![s] = @ + 1] /\ sentRun' = [sentRun EXCEPT ![s] = @ + 1]
  BY Zenon DEF Handles, HandleShape, Drops, Skips, Counts, Sends, Marks, Transmit, effects, smsVars
<1>2. QED
  BY <1>1, Zenon DEF NextShape, Publish, Takes, Done, Weekly, NewWeek, Crash, vars, effects, smsVars

\* The counters of the weekly report, and the report goroutine's own.
reports == <<weekly, wstats, counted, reported, wpc>>

\* What a step does to them (notifier.go:260, weekly.go:52-95).
ReportShape ==
  \/ UNCHANGED reports
  \/ /\ \E n \in {0, 1} : weekly' = weekly + n /\ counted' = counted + n
     /\ UNCHANGED <<wpc, wstats, reported>>
  \/ wpc = "idle" /\ wpc' = "send" /\ wstats' = weekly /\ UNCHANGED <<weekly, counted, reported>>
  \/ /\ wpc = "send" /\ UNCHANGED <<weekly, wstats, counted>>
     /\ \/ wpc' = "idle" /\ reported' = reported
        \/ wpc' = "reset" /\ reported' = reported + wstats
  \/ wpc = "reset" /\ wpc' = "idle" /\ weekly' = 0 /\ UNCHANGED <<wstats, counted, reported>>
  \/ wpc' = "idle" /\ weekly' = 0 /\ wstats' = 0 /\ counted' = 0 /\ reported' = 0

\* The weekly report is sent and reset, and calls are counted, by these steps
\* only (SendWeeklyReports, recordWeekly).
LEMMA ReportSteps ==
  ASSUME NextShape
  PROVE  ReportShape
<1>1. CASE Handles
  <2>1. UNCHANGED <<wpc, wstats, reported>>
    BY <1>1, Zenon DEF Handles, weeklyVars
  <2>2. UNCHANGED <<weekly, counted>>
        \/ \E n \in {0, 1} : weekly' = weekly + n /\ counted' = counted + n
    BY <1>1, Zenon DEF Handles, HandleShape, Drops, Skips, Counts, Sends, Marks, Transmit, effects
  <2>3. QED
    BY <2>1, <2>2, Zenon DEF ReportShape, reports
<1>2. CASE Weekly
  <2>1. counted' = counted
    BY <1>2, Zenon DEF Weekly
  <2>2. CASE WeeklyRead
    BY <2>1, <2>2, Zenon DEF WeeklyRead, ReportShape
  <2>3. CASE WeeklyReset
    BY <2>1, <2>3, Zenon DEF WeeklyReset, ReportShape
  <2>4. ASSUME NEW f, WeeklySend(f)
        PROVE  ReportShape
    <3>1. CASE f
      BY <2>1, <2>4, <3>1, Zenon DEF WeeklySend, ReportShape
    <3>2. CASE ~f
      BY <2>1, <2>4, <3>2, Zenon DEF WeeklySend, ReportShape
    <3>3. QED
      BY <3>1, <3>2
  <2>5. QED
    BY <1>2, <2>2, <2>3, <2>4, Zenon DEF Weekly
<1>3. QED
  BY <1>1, <1>2, Zenon
  DEF NextShape, Publish, Takes, Done, NewWeek, Crash, vars, effects, weeklyVars, ReportShape, reports

\* The counts are natural numbers.
LEMMA CountersStep ==
  ASSUME TypeInv, NextShape
  PROVE  CountersTyped'
<1>0. CountersTyped
  BY DEF TypeInv
<1>1. sent' \in [SMS -> Nat] /\ sentRun' \in [SMS -> Nat]
  BY <1>0, SentSteps DEF CountersTyped
<1>2. {weekly', wstats', counted', reported'} \subseteq Nat
  <2>1. /\ weekly' \in {weekly, weekly + 0, weekly + 1, 0} /\ wstats' \in {wstats, weekly, 0}
        /\ counted' \in {counted, counted + 0, counted + 1, 0}
        /\ reported' \in {reported, reported + wstats, 0}
    BY ReportSteps, Zenon DEF ReportShape, reports
  <2>2. QED
    BY <1>0, <2>1 DEF CountersTyped
<1>3. wpc' \in {"idle", "send", "reset"}
  BY <1>0, ReportSteps, Zenon DEF CountersTyped, ReportShape, reports
<1>4. crashes' = crashes \/ crashes' = crashes + 1
  BY Zenon DEF NextShape, Publish, Takes, Handles, Done, Weekly, NewWeek, Crash, vars
<1>5. crashes' \in Nat
  BY <1>0, <1>4 DEF CountersTyped
<1>6. QED
  BY <1>1, <1>2, <1>3, <1>5 DEF CountersTyped

\* TypeInv: the callback has one call.ended in hand or none, what is still to
\* be delivered was published, and memory holds what it should (bus.go,
\* notifier.go).
THEOREM TypeInvTheorem == Spec => []TypeInv
<1>1. Init => TypeInv
  <2>1. SUFFICES ASSUME Init
                 PROVE  TypeInv
    OBVIOUS
  <2>2. HandTyped
    BY <2>1 DEF Init, HandTyped, Steps
  <2>3. BusTyped
    BY <2>1 DEF Init, BusTyped
  <2>4. MemoryTyped
    BY <2>1 DEF Init, MemoryTyped
  <2>5. CountersTyped
    BY <2>1 DEF Init, CountersTyped
  <2>6. QED
    BY <2>2, <2>3, <2>4, <2>5 DEF TypeInv
<1>2. ASSUME TypeInv, [Next]_vars
      PROVE  TypeInv'
  <2>1. NextShape
    BY <1>2, NextSteps
  <2>2. QED
    BY <1>2, <2>1, HandStep, BusStep, MemoryStep, CountersStep DEF TypeInv
<1>3. QED
  BY <1>1, <1>2, PTL DEF Spec

-----------------------------------------------------------------------------
(* The weekly reports (notifier.go:260, weekly.go).                        *)

\* A report takes no more out of the counters than they held.
THEOREM ReportInvTheorem == Spec => []ReportInv
<1>1. Init => ReportInv
  BY DEF Init, ReportInv, ReportsNotInflated
<1>2. ASSUME TypeInv, ReportInv, [Next]_vars
      PROVE  ReportInv'
  <2>0. /\ weekly \in Nat /\ wstats \in Nat /\ counted \in Nat /\ reported \in Nat
        /\ wpc \in {"idle", "send", "reset"}
    BY <1>2 DEF TypeInv, CountersTyped
  <2>1. ReportShape
    BY <1>2, NextSteps, ReportSteps
  <2>2. /\ wpc = "send" => wstats <= weekly
        /\ wpc = "reset" => reported <= counted
        /\ reported + weekly <= counted + IF wpc = "reset" THEN wstats ELSE 0
    BY <1>2 DEF ReportInv, ReportsNotInflated
  <2>3. /\ wpc' = "send" => wstats' <= weekly'
        /\ wpc' = "reset" => reported' <= counted'
        /\ reported' + weekly' <= counted' + IF wpc' = "reset" THEN wstats' ELSE 0
    <3>1. CASE UNCHANGED reports
      BY <2>2, <3>1, Zenon DEF reports
    <3>2. ASSUME NEW n \in {0, 1}, weekly' = weekly + n, counted' = counted + n,
                 UNCHANGED <<wpc, wstats, reported>>
          PROVE  /\ wpc' = "send" => wstats' <= weekly'
                 /\ wpc' = "reset" => reported' <= counted'
                 /\ reported' + weekly' <= counted' + IF wpc' = "reset" THEN wstats' ELSE 0
      BY <2>0, <2>2, <3>2
    <3>3. CASE wpc = "idle" /\ wpc' = "send" /\ wstats' = weekly /\ UNCHANGED <<weekly, counted, reported>>
      BY <2>0, <2>2, <3>3
    <3>4. CASE wpc = "send" /\ UNCHANGED <<weekly, wstats, counted>> /\ wpc' = "idle" /\ reported' = reported
      BY <2>0, <2>2, <3>4
    <3>5. CASE wpc = "send" /\ UNCHANGED <<weekly, wstats, counted>> /\ wpc' = "reset" /\ reported' = reported + wstats
      BY <2>0, <2>2, <3>5
    <3>6. CASE wpc = "reset" /\ wpc' = "idle" /\ weekly' = 0 /\ UNCHANGED <<wstats, counted, reported>>
      BY <2>0, <2>2, <3>6
    <3>7. CASE wpc' = "idle" /\ weekly' = 0 /\ wstats' = 0 /\ counted' = 0 /\ reported' = 0
      BY <3>7
    <3>8. QED
      BY <2>1, <3>1, <3>2, <3>3, <3>4, <3>5, <3>6, <3>7 DEF ReportShape
  <2>4. QED
    BY <2>3 DEF ReportInv, ReportsNotInflated
<1>3. QED
  BY <1>1, <1>2, TypeInvTheorem, PTL DEF Spec

\* ReportsNotInflated: no call is in the reports twice, nor both reported and
\* still waiting to be, for every interleaving of the callback and the report
\* goroutine (notifier.go:260, weekly.go:84).
THEOREM ReportsNotInflatedTheorem == Spec => []ReportsNotInflated
<1>1. ReportInv => ReportsNotInflated
  BY DEF ReportInv
<1>2. QED
  BY <1>1, ReportInvTheorem, PTL

-----------------------------------------------------------------------------
(* The dedup of the SMS (dedup.go, notifier.go:148-194).                   *)

\* A step that neither sends nor marks.
Quiet == /\ sentRun' = sentRun /\ \A s \in SMS : s \in keys' <=> s \in keys
         /\ \/ UNCHANGED <<pc, current>>
            \/ {pc, pc'} \cap {"ownerMark", "clientMark"} = {}

\* What a step does to the SMS, their keys and the callback.
SentShape == \/ Quiet
             \/ \E s \in SMS : Sends(s) \/ Marks(s)
             \/ Crash

\* An SMS leaves in its own handler's step, and its key is set in another
\* (sendOwnerSMS, sendClientSMS).
LEMMA SentShapes ==
  ASSUME TypeInv, NextShape
  PROVE  SentShape
<1>1. ASSUME UNCHANGED <<sentRun, keys>>,
             UNCHANGED <<pc, current>> \/ {pc, pc'} \cap {"ownerMark", "clientMark"} = {}
      PROVE  SentShape
  BY <1>1, Zenon DEF SentShape, Quiet
<1>2. ASSUME NEW from \in {"idle", "lookup", "owner", "client", "agg", "done"},
             NEW to \in {"idle", "lookup", "owner", "client", "agg", "done"}
      PROVE  {from, to} \cap {"ownerMark", "clientMark"} = {}
  OBVIOUS
<1>3. ASSUME NEW e \in Events, Takes(e)
      PROVE  SentShape
  <2>1. UNCHANGED <<sentRun, keys>> /\ pc = "idle"
    BY <1>3, Zenon DEF Takes, effects, smsVars
  <2>2. UNCHANGED <<pc, current>> \/ pc' = "lookup"
    BY <1>3, ReceiveCases, Zenon DEF Takes
  <2>3. QED
    BY <1>1, <1>2, <2>1, <2>2
<1>4. CASE Handles
  <2>1. ASSUME NEW c \in Calls, Drops(c) \/ Skips(c)
        PROVE  SentShape
    <3>1. UNCHANGED <<sentRun, keys>>
      BY <2>1, Zenon DEF Drops, Skips, effects, smsVars
    <3>2. pc \in {"lookup", "owner", "client"} /\ pc' \in {"idle", "owner", "client", "agg"}
      BY <2>1 DEF Drops, Skips, Moves
    <3>3. QED
      BY <1>1, <1>2, <3>1, <3>2
  <2>2. ASSUME NEW c \in Calls, Counts(c)
        PROVE  SentShape
    <3>1. sentRun' = sentRun /\ keys' = keys \cup {<<c, "agg">>} /\ pc = "agg" /\ pc' = "done"
      BY <2>2, Zenon DEF Counts, Moves, smsVars
    <3>2. <<c, "agg">> \notin SMS
      BY DEF SMS
    <3>3. \A s \in SMS : s \in keys' <=> s \in keys
      BY <3>1, <3>2
    <3>4. {pc, pc'} \cap {"ownerMark", "clientMark"} = {}
      BY <3>1
    <3>5. QED
      BY <3>1, <3>3, <3>4, Zenon DEF SentShape, Quiet
  <2>3. QED
    BY <1>4, <2>1, <2>2, Zenon DEF Handles, HandleShape, SentShape
<1>5. ASSUME NEW c \in Calls, Done(c)
      PROVE  SentShape
  <2>1. UNCHANGED <<sentRun, keys>> /\ pc = "done" /\ pc' = "idle"
    BY <1>5, Zenon DEF Done, At, effects, smsVars
  <2>2. QED
    BY <1>1, <1>2, <2>1
<1>6. CASE (\E e \in Events : Publish(e)) \/ Weekly \/ NewWeek \/ UNCHANGED vars
  BY <1>1, <1>6, Zenon DEF Publish, Weekly, NewWeek, vars, callback, effects, smsVars
<1>7. QED
  BY <1>3, <1>4, <1>5, <1>6, Zenon DEF NextShape, SentShape

\* Two SMS with the same call and the same mark step are the same.
LEMMA OneMark ==
  ASSUME NEW s \in SMS, NEW t \in SMS, MarkStep(s) = MarkStep(t), s[1] = t[1]
  PROVE  s = t
BY DEF SMS, MarkStep

\* No SMS goes out but at its own step.
LEMMA MarkSteps ==
  ASSUME NEW s \in SMS
  PROVE  /\ s[1] \in Calls /\ s[2] \in {"owner", "client"}
         /\ MarkStep(s) \in {"ownerMark", "clientMark"}
         /\ After(s) \notin {"ownerMark", "clientMark"}
         /\ \A t \in SMS : s[2] # MarkStep(t) /\ After(s) # MarkStep(t)
BY DEF SMS, MarkStep, After

\* An SMS is out exactly when its key is marked, or its mark is the next step.
LEMMA SentStep ==
  ASSUME TypeInv, SentInv, SentShape
  PROVE  SentInv'
<1>0. sentRun \in [SMS -> Nat]
  BY DEF TypeInv, CountersTyped
<1>1. SUFFICES ASSUME NEW t \in SMS
               PROVE  sentRun'[t] = IF t \in keys' \/ (pc' = MarkStep(t) /\ current' = {t[1]})
                                    THEN 1 ELSE 0
  BY Zenon DEF SentInv, Unmarked
<1>2. sentRun[t] = IF t \in keys \/ (pc = MarkStep(t) /\ current = {t[1]}) THEN 1 ELSE 0
  BY Zenon DEF SentInv, Unmarked
<1>3. MarkStep(t) \in {"ownerMark", "clientMark"}
  BY MarkSteps
<1>4. CASE Quiet
  <2>1. sentRun' = sentRun /\ (t \in keys' <=> t \in keys)
    BY <1>4, Zenon DEF Quiet
  <2>2. CASE UNCHANGED <<pc, current>>
    BY <1>2, <2>1, <2>2, Zenon
  <2>3. CASE {pc, pc'} \cap {"ownerMark", "clientMark"} = {}
    <3>1. pc # MarkStep(t) /\ pc' # MarkStep(t)
      BY <1>3, <2>3
    <3>2. QED
      BY <1>2, <2>1, <3>1, Zenon
  <2>4. QED
    BY <1>4, <2>2, <2>3, Zenon DEF Quiet
<1>5. ASSUME NEW s \in SMS, Sends(s)
      PROVE  sentRun'[t] = IF t \in keys' \/ (pc' = MarkStep(t) /\ current' = {t[1]}) THEN 1 ELSE 0
  <2>1. /\ pc = s[2] /\ current = {s[1]} /\ pc' = MarkStep(s) /\ current' = {s[1]}
        /\ s \notin keys /\ sentRun' = [sentRun EXCEPT ![s] = @ + 1] /\ keys' = keys
    BY <1>5, Zenon DEF Sends, Moves, Transmit
  <2>2. pc # MarkStep(t)
    BY <2>1, MarkSteps
  <2>3. CASE t = s
    <3>1. sentRun[t] = 0
      BY <1>2, <2>1, <2>2, <2>3, Zenon
    <3>2. sentRun'[t] = 1
      BY <1>0, <2>1, <2>3, <3>1
    <3>3. QED
      BY <2>1, <2>3, <3>2, Zenon
  <2>4. CASE t # s
    <3>1. sentRun'[t] = sentRun[t]
      BY <1>0, <2>1, <2>4
    <3>2. ~(pc' = MarkStep(t) /\ current' = {t[1]})
      <4>1. current' = {t[1]} => s[1] = t[1]
        BY <2>1
      <4>2. QED
        BY <2>1, <2>4, <4>1, OneMark, Zenon
    <3>3. QED
      BY <1>2, <2>1, <2>2, <3>1, <3>2, Zenon
  <2>5. QED
    BY <2>3, <2>4
<1>6. ASSUME NEW s \in SMS, Marks(s)
      PROVE  sentRun'[t] = IF t \in keys' \/ (pc' = MarkStep(t) /\ current' = {t[1]}) THEN 1 ELSE 0
  <2>1. /\ pc = MarkStep(s) /\ current = {s[1]} /\ pc' = After(s)
        /\ keys' = keys \cup {s} /\ sentRun' = sentRun
    BY <1>6, Zenon DEF Marks, Moves, smsVars
  <2>2. pc' # MarkStep(t)
    BY <2>1, MarkSteps
  <2>3. CASE t = s
    BY <1>2, <2>1, <2>3
  <2>4. CASE t # s
    <3>1. ~(pc = MarkStep(t) /\ current = {t[1]})
      <4>1. current = {t[1]} => s[1] = t[1]
        BY <2>1
      <4>2. QED
        BY <2>1, <2>4, <4>1, OneMark, Zenon
    <3>2. t \in keys' <=> t \in keys
      BY <2>1, <2>4
    <3>3. QED
      BY <1>2, <2>1, <2>2, <3>1, <3>2, Zenon
  <2>5. QED
    BY <2>3, <2>4
<1>7. CASE Crash
  <2>1. sentRun' = [s \in SMS |-> 0] /\ keys' = {} /\ pc' = "idle"
    BY <1>7, Zenon DEF Crash
  <2>2. sentRun'[t] = 0 /\ t \notin keys' /\ pc' # MarkStep(t)
    BY <1>3, <2>1
  <2>3. QED
    BY <2>2, Zenon
<1>8. QED
  BY <1>4, <1>5, <1>6, <1>7, Zenon DEF SentShape

\* The dedup keys account for every SMS of this run.
THEOREM SentInvTheorem == Spec => []SentInv
<1>1. Init => SentInv
  <2>1. SUFFICES ASSUME Init, NEW s \in SMS
                 PROVE  sentRun[s] = IF s \in keys \/ Unmarked(s) THEN 1 ELSE 0
    BY Zenon DEF SentInv
  <2>2. sentRun[s] = 0 /\ s \notin keys /\ pc = "idle"
    BY <2>1 DEF Init
  <2>3. ~Unmarked(s)
    BY <2>2, MarkSteps DEF Unmarked
  <2>4. QED
    BY <2>2, <2>3, Zenon
<1>2. ASSUME TypeInv, SentInv, [Next]_vars
      PROVE  SentInv'
  BY <1>2, NextSteps, SentShapes, SentStep
<1>3. QED
  BY <1>1, <1>2, TypeInvTheorem, PTL DEF Spec

\* OncePerRun: whatever is redelivered, and after whatever failure, one
\* process sends each SMS at most once (notifier.go:148).
THEOREM OncePerRunTheorem == Spec => []OncePerRun
<1>1. SentInv => OncePerRun
  <2>1. SUFFICES ASSUME SentInv, NEW s \in SMS
                 PROVE  sentRun[s] <= 1
    BY Zenon DEF OncePerRun
  <2>2. sentRun[s] = 1 \/ sentRun[s] = 0
    BY <2>1, Zenon DEF SentInv
  <2>3. QED
    BY <2>2
<1>2. QED
  BY <1>1, SentInvTheorem, PTL

-----------------------------------------------------------------------------
(* The acknowledgements (natsbus.go, bus.go).                              *)

\* What leaves the stream has been handled, or its handler failed.
AckedGood == \A e \in Events : Delivered(e) /\ e \notin unacked => e \in handled \cup failed

\* What was delivered stays delivered, and only the callback's event joins it.
LEMMA DeliveredSteps ==
  ASSUME TypeInv, NextShape
  PROVE  /\ \A e : Delivered(e) => Delivered(e)'
         /\ \A e \in Events : Delivered(e)' => \/ Delivered(e)
                                                \/ Takes(e)
<1>1. CASE UNCHANGED feed
  BY <1>1, Zenon DEF Delivered, feed
<1>2. ASSUME NEW e \in Events, Publish(e)
      PROVE  \A f : Delivered(f)' <=> Delivered(f)
  <2>1. stream' = stream \cup {e} /\ fresh' = fresh \cup {e} /\ e \notin stream
    BY <1>2, Zenon DEF Publish, InStream
  <2>2. QED
    BY <2>1 DEF Delivered
<1>3. ASSUME NEW e \in Events, Takes(e)
      PROVE  /\ \A f : Delivered(f) => Delivered(f)'
             /\ \A f \in Events : Delivered(f)' => Delivered(f) \/ f = e
  <2>1. stream' = stream /\ (fresh' = fresh \/ fresh' = fresh \ {e})
    BY <1>3, Zenon DEF Takes
  <2>2. QED
    BY <2>1 DEF Delivered
<1>4. CASE \E e \in Events : Publish(e)
  BY <1>2, <1>4, Zenon
<1>5. CASE \E e \in Events : Takes(e)
  BY <1>3, <1>5, Zenon
<1>6. QED
  BY <1>1, <1>4, <1>5, Zenon DEF NextShape, Handles, Done, Weekly, NewWeek, Crash, vars, bus

\* Nothing handled or failed on is forgotten by the history.
LEMMA HistoryGrows ==
  ASSUME NextShape
  PROVE  handled \subseteq handled' /\ failed \subseteq failed'
<1>1. \A e \in Events : Takes(e) =>
        failed' = failed /\ (handled' = handled \/ handled' = handled \cup {e})
  BY ReceiveCases, Zenon DEF Takes
<1>2. Handles => handled' = handled /\ (failed' = failed \/ \E c \in Calls : failed' = failed \cup {Event(c, "ended")})
  BY Zenon DEF Handles, HandleShape, Drops, Skips, Counts, Sends, Marks, Moves, SMS
<1>3. handled' = handled \/ \E e \in Events : handled' = handled \cup {e}
  BY <1>1, <1>2, EventFields, Zenon DEF NextShape, Publish, Done, Weekly, NewWeek, Crash, vars
<1>4. failed' = failed \/ \E e \in Events : failed' = failed \cup {e}
  BY <1>1, <1>2, EventFields, Zenon DEF NextShape, Publish, Done, Weekly, NewWeek, Crash, vars, callback
<1>5. QED
  BY <1>3, <1>4

\* A recorded event stays accounted for.
LEMMA SeenStep ==
  ASSUME TypeInv, AckInv, NextShape
  PROVE  seen' \subseteq handled' \cup failed' \cup {Event(c, "ended") : c \in current'}
<1>0. seen \subseteq handled \cup failed \cup {Event(c, "ended") : c \in current}
  BY Zenon DEF AckInv
<1>1. handled \subseteq handled' /\ failed \subseteq failed'
  BY HistoryGrows
<1>2. CASE seen' = seen /\ current' = current
  BY <1>0, <1>1, <1>2
<1>3. ASSUME NEW e \in Events, Takes(e), seen' # seen
      PROVE  seen' \subseteq handled' \cup failed' \cup {Event(c, "ended") : c \in current'}
  <2>1. current = {}
    BY <1>3 DEF Takes, TypeInv, HandTyped
  <2>2. seen' = seen \cup {e}
    BY <1>3, ReceiveCases, Zenon DEF Takes
  <2>3. e \in handled' \/ (e.kind = "ended" /\ current' = {e.call})
    BY <1>3, ReceiveCases DEF Takes
  <2>4. e.kind = "ended" => e = Event(e.call, "ended")
    BY EventFields
  <2>5. QED
    BY <1>0, <1>1, <2>1, <2>2, <2>3, <2>4
<1>4. ASSUME NEW e \in Events, Takes(e), seen' = seen
      PROVE  seen' \subseteq handled' \cup failed' \cup {Event(c, "ended") : c \in current'}
  <2>1. current = {}
    BY <1>4 DEF Takes, TypeInv, HandTyped
  <2>2. QED
    BY <1>0, <1>1, <1>4, <2>1
<1>5. CASE Handles
  <2>1. seen' = seen
    BY <1>5, Zenon DEF Handles
  <2>2. ASSUME NEW c \in Calls, Drops(c)
        PROVE  seen' \subseteq handled' \cup failed' \cup {Event(d, "ended") : d \in current'}
    <3>1. current = {c} /\ failed' = failed \cup {Event(c, "ended")}
      BY <2>2, Zenon DEF Drops
    <3>2. QED
      BY <1>0, <1>1, <2>1, <3>1
  <2>3. current' = current \/ \E c \in Calls : Drops(c)
    BY <1>5, Zenon DEF Handles, HandleShape, Skips, Counts, Sends, Marks, Moves
  <2>4. QED
    BY <1>2, <2>1, <2>2, <2>3
<1>6. ASSUME NEW c \in Calls, Done(c)
      PROVE  seen' \subseteq handled' \cup failed' \cup {Event(d, "ended") : d \in current'}
  <2>1. /\ current = {c} /\ seen' = {e \in seen : e.call # c}
        /\ handled' = handled \cup {Event(c, "ended")}
    BY <1>6, Zenon DEF Done, At
  <2>2. QED
    BY <1>0, <1>1, <2>1
<1>7. CASE Crash
  <2>1. seen' = {}
    BY <1>7, Zenon DEF Crash
  <2>2. QED
    BY <2>1
<1>8. CASE (\E e \in Events : Publish(e)) \/ Weekly \/ NewWeek \/ UNCHANGED vars
  BY <1>2, <1>8, Zenon DEF Publish, Weekly, NewWeek, vars, callback
<1>9. QED
  BY <1>3, <1>4, <1>5, <1>6, <1>7, <1>8, Zenon DEF NextShape

\* No step acknowledges an event that no handler took or failed on.
LEMMA AckStep ==
  ASSUME TypeInv, AckInv, AckedGood, NextShape
  PROVE  AckedGood'
<1>0. seen \subseteq handled \cup failed \cup {Event(c, "ended") : c \in current}
  BY Zenon DEF AckInv
<1>1. handled \subseteq handled' /\ failed \subseteq failed'
  BY HistoryGrows
<1>2. SUFFICES ASSUME NEW e \in Events, Delivered(e)', e \notin unacked'
               PROVE  e \in handled' \cup failed'
  BY Zenon DEF AckedGood
<1>3. CASE Delivered(e) /\ e \notin unacked
  BY <1>1, <1>3 DEF AckedGood
<1>4. CASE Takes(e)
  <2>1. current = {}
    BY <1>4 DEF Takes, TypeInv, HandTyped
  <2>2. e \in seen => e \in handled \cup failed
    BY <1>0, <2>1
  <2>3. e \in seen \/ e \in handled' \/ e \in unacked'
    BY <1>4, ReceiveCases DEF Takes
  <2>4. QED
    BY <1>1, <1>2, <2>2, <2>3
<1>5. CASE e \in unacked
  <2>1. CASE \E f \in Events : Takes(f)
    <3>1. PICK f \in Events : Takes(f)
      BY <2>1
    <3>2. unacked \subseteq unacked' \cup {f}
      <4>1. Receive(f)
        BY <3>1 DEF Takes
      <4>2. Ack(f) \/ unacked' = unacked \cup {f}
        BY <4>1, ReceiveCases, Zenon
      <4>3. QED
        BY <4>2, AckOutcomes
    <3>3. e = f
      BY <1>2, <1>5, <3>2
    <3>4. QED
      BY <1>4, <3>1, <3>3
  <2>2. CASE \E c \in Calls : Done(c)
    <3>1. PICK c \in Calls : Done(c)
      BY <2>2
    <3>2. Ack(Event(c, "ended")) /\ handled' = handled \cup {Event(c, "ended")}
      BY <3>1, Zenon DEF Done
    <3>3. e = Event(c, "ended")
      BY <1>2, <1>5, <3>2, AckOutcomes
    <3>4. QED
      BY <3>2, <3>3
  <2>3. CASE unacked' = unacked
    BY <1>2, <1>5, <2>3
  <2>4. QED
    BY <2>1, <2>2, <2>3, Zenon DEF NextShape, Publish, Handles, Weekly, NewWeek, Crash, vars, bus
<1>6. QED
  BY <1>2, <1>3, <1>4, <1>5, DeliveredSteps

\* AckedUnlessFailed: an event leaves the stream only after a handler took it
\* or failed on it, through redeliveries, lost acks and restarts
\* (natsbus.go:54).
THEOREM AckedUnlessFailedTheorem == Spec => []AckedUnlessFailed
<1>0. AckedUnlessFailed <=> AckedGood
  BY Zenon DEF AckedUnlessFailed, AckedGood, Acked, Delivered
<1>1. Init => AckInv
  <2>1. SUFFICES ASSUME Init
                 PROVE  AckInv
    OBVIOUS
  <2>2. seen = {} /\ stream = {}
    BY <2>1, Zenon DEF Init
  <2>3. AckedUnlessFailed
    BY <2>2 DEF AckedUnlessFailed, Acked
  <2>4. QED
    BY <2>2, <2>3 DEF AckInv
<1>2. ASSUME TypeInv, AckInv, [Next]_vars
      PROVE  AckInv'
  <2>1. NextShape
    BY <1>2, NextSteps
  <2>2. AckedGood
    BY <1>0, <1>2, Zenon DEF AckInv
  <2>3. AckedGood'
    BY <1>2, <2>1, <2>2, AckStep
  <2>4. AckedUnlessFailed'
    BY <2>3, Zenon DEF AckedUnlessFailed, AckedGood, Acked, Delivered
  <2>5. QED
    BY <1>2, <2>1, <2>4, SeenStep, Zenon DEF AckInv
<1>3. AckInv => AckedUnlessFailed
  BY DEF AckInv
<1>4. QED
  BY <1>1, <1>2, <1>3, TypeInvTheorem, PTL DEF Spec

-----------------------------------------------------------------------------
(* The caller's confirmation (notifier.go:127-194).                        *)

\* Nothing of a call is published after its call.ended; delivering that while
\* other events of the call are still fresh marks the call as overtaken.
LEMMA StreamStep ==
  ASSUME TypeInv, StreamInv, NextShape
  PROVE  StreamInv'
<1>0. /\ stream \subseteq Events /\ fresh \subseteq stream
      /\ \A e \in stream : Event(e.call, "started") \in stream
      /\ \A c \in Calls \ overtaken : Event(c, "ended") \in stream \ fresh => \A e \in fresh : e.call # c
  BY DEF TypeInv, BusTyped, StreamInv, Delivered
<1>1. CASE UNCHANGED feed
  BY <1>1, Zenon DEF StreamInv, Delivered, feed
<1>2. ASSUME NEW e \in Events, Publish(e)
      PROVE  StreamInv'
  <2>1. /\ stream' = stream \cup {e} /\ fresh' = fresh \cup {e} /\ overtaken' = overtaken
        /\ Event(e.call, "ended") \notin stream
        /\ e.kind # "started" => Event(e.call, "started") \in stream
    BY <1>2, Zenon DEF Publish, InStream
  <2>2. \A f \in stream' : Event(f.call, "started") \in stream'
    BY <1>0, <2>1, EventFields
  <2>3. ASSUME NEW c \in Calls \ overtaken', Event(c, "ended") \in stream' \ fresh', NEW f \in fresh'
        PROVE  f.call # c
    <3>1. Event(c, "ended") \in stream \ fresh
      BY <2>1, <2>3
    <3>2. QED
      BY <1>0, <2>1, <2>3, <3>1
  <2>4. QED
    BY <2>2, <2>3 DEF StreamInv, Delivered
<1>3. ASSUME NEW e \in Events, Takes(e), fresh' # fresh
      PROVE  StreamInv'
  <2>1. /\ stream' = stream /\ fresh' = fresh \ {e}
        /\ overtaken' = overtaken \cup IF e.kind = "ended" /\ Behind(e) # {} THEN {e.call} ELSE {}
    BY <1>3, Zenon DEF Takes
  <2>2. ASSUME NEW c \in Calls \ overtaken', Event(c, "ended") \in stream' \ fresh', NEW f \in fresh'
        PROVE  f.call # c
    <3>1. c \notin overtaken
      BY <2>1, <2>2
    <3>2. CASE e = Event(c, "ended")
      <4>1. e.kind = "ended" /\ e.call = c
        BY <3>2, EventFields
      <4>2. Behind(e) = {}
        BY <2>1, <2>2, <4>1
      <4>3. QED
        BY <2>1, <2>2, <4>1, <4>2 DEF Behind
    <3>3. CASE e # Event(c, "ended")
      BY <1>0, <2>1, <2>2, <3>1, <3>3
    <3>4. QED
      BY <3>2, <3>3
  <2>3. QED
    BY <1>0, <2>1, <2>2 DEF StreamInv, Delivered
<1>4. ASSUME NEW e \in Events, Takes(e), fresh' = fresh
      PROVE  StreamInv'
  <2>1. stream' = stream /\ overtaken \subseteq overtaken'
    BY <1>4 DEF Takes
  <2>2. QED
    BY <1>0, <1>4, <2>1 DEF StreamInv, Delivered
<1>5. QED
  BY <1>1, <1>2, <1>3, <1>4, Zenon DEF NextShape, Handles, Done, Weekly, NewWeek, Crash, vars, bus

\* When call.ended is delivered and was not ahead of others, all of its call is.
LEMMA EndedIsLast ==
  ASSUME TypeInv, StreamInv, NEW c \in Calls \ overtaken, Delivered(Event(c, "ended")),
         NEW k \in {"started", "message", "ended"}, InStream(Event(c, k))
  PROVE  Delivered(Event(c, k)) /\ Delivered(Event(c, "started"))
<1>1. Event(c, k).call = c /\ Event(c, "started").call = c
  BY EventFields
<1>2. Event(c, k) \in stream /\ Event(c, "started") \in stream
  BY <1>1 DEF StreamInv, InStream
<1>3. \A e \in fresh : e.call # c
  BY DEF StreamInv
<1>4. QED
  BY <1>1, <1>2, <1>3 DEF Delivered

\* The recorded seqs are those of the buffered events.
LEMMA SeenIsPending ==
  ASSUME TypeInv, seen = {e \in Events : e \in pending[e.call]}, NextShape
  PROVE  seen' = {e \in Events : e \in pending'[e.call]}
<1>0. pending \in [Calls -> SUBSET Events] /\ seen \subseteq Events
      /\ \A e \in Events : e.call \in Calls
  BY EventFields DEF TypeInv, MemoryTyped
<1>1. CASE UNCHANGED <<seen, pending>>
  BY <1>1, Zenon
<1>2. ASSUME NEW e \in Events, seen' = seen \cup {e},
             pending' = [pending EXCEPT ![e.call] = @ \cup {e}]
      PROVE  seen' = {f \in Events : f \in pending'[f.call]}
  BY <1>0, <1>2
<1>3. ASSUME NEW e \in Events, Takes(e)
      PROVE  seen' = {f \in Events : f \in pending'[f.call]}
  BY <1>1, <1>2, <1>3, ReceiveCases, Zenon DEF Takes
<1>4. ASSUME NEW c \in Calls, Done(c)
      PROVE  seen' = {f \in Events : f \in pending'[f.call]}
  <2>1. pending' = [pending EXCEPT ![c] = {}] /\ seen' = {e \in seen : e.call # c}
    BY <1>4, Zenon DEF Done
  <2>2. QED
    BY <1>0, <2>1
<1>5. CASE Crash
  BY <1>0, <1>5 DEF Crash
<1>6. QED
  BY <1>1, <1>3, <1>4, <1>5, Zenon DEF NextShape, Publish, Handles, Weekly, NewWeek, vars

\* What the callback receives is delivered.
LEMMA TakenIsDelivered ==
  ASSUME TypeInv, \A f \in unacked : Delivered(f), NextShape, NEW e \in Events, Takes(e)
  PROVE  Delivered(e)' /\ e \in seen'
<1>1. ASSUME e \in fresh, fresh' = fresh \ {e}
      PROVE  Delivered(e)'
  <2>1. stream' = stream /\ e \in stream
    BY <1>1, Zenon DEF Takes, TypeInv, BusTyped
  <2>2. QED
    BY <1>1, <2>1 DEF Delivered
<1>2. ASSUME e \in unacked
      PROVE  Delivered(e)'
  <2>1. Delivered(e)
    BY <1>2
  <2>2. QED
    BY <2>1, DeliveredSteps
<1>3. Delivered(e)'
  BY <1>1, <1>2, Zenon DEF Takes
<1>4. e \in seen'
  BY ReceiveCases DEF Takes
<1>5. QED
  BY <1>3, <1>4

\* A step that takes no event and finishes no call touches neither the
\* buffers nor the acknowledgements, but for a crash.
LEMMA BufferSteps ==
  ASSUME NextShape
  PROVE  \/ \E e \in Events : Takes(e)
         \/ \E c \in Calls : Done(c)
         \/ UNCHANGED <<unacked, handled, crashes, pending>> /\ (current' = current \/ current' = {})
         \/ UNCHANGED <<unacked, handled>> /\ crashes' = crashes + 1 /\ current' = {}
<1>1. Handles => UNCHANGED <<unacked, handled, crashes, pending>> /\ (current' = current \/ current' = {})
  BY Zenon DEF Handles, HandleShape, Drops, Skips, Counts, Sends, Marks, Moves, bus
<1>2. QED
  BY <1>1, Zenon DEF NextShape, Publish, Weekly, NewWeek, Crash, vars, bus, callback

\* The buffers keep what was delivered of a call until the call is handled.
LEMMA BufferStep ==
  ASSUME TypeInv, BufferInv, NextShape
  PROVE  BufferInv'
<1>0. /\ seen = {e \in Events : e \in pending[e.call]}
      /\ \A e \in unacked : Delivered(e)
      /\ \A c \in current : Delivered(Event(c, "ended"))
      /\ \A c \in Calls : Event(c, "ended") \in handled => Delivered(Event(c, "ended"))
  BY Zenon DEF BufferInv
<1>1. \A e \in Events : crashes = 0 /\ Event(e.call, "ended") \notin handled /\ Delivered(e)
                          => e \in pending[e.call]
  BY Zenon DEF BufferInv
<1>2. /\ \A e : Delivered(e) => Delivered(e)'
      /\ \A e \in Events : Delivered(e)' => Delivered(e) \/ Takes(e)
  BY DeliveredSteps
<1>3. \A e \in Events : Takes(e) => Delivered(e)' /\ e \in seen'
  BY <1>0, TakenIsDelivered
<1>4. seen' = {e \in Events : e \in pending'[e.call]}
  BY <1>0, SeenIsPending
<1>5. ASSUME NEW f \in Events, Takes(f)
      PROVE  /\ unacked' \subseteq unacked \cup {f}
             /\ current' = current \/ (current' = {f.call} /\ f = Event(f.call, "ended"))
             /\ handled' = handled \/ (handled' = handled \cup {f} /\ f.kind # "ended")
             /\ crashes' = crashes
             /\ \A e \in Events : e \in pending[e.call] => e \in pending'[e.call]
  <2>1. Receive(f) /\ crashes' = crashes
    BY <1>5, Zenon DEF Takes
  <2>2. unacked' \subseteq unacked \cup {f}
    BY <2>1, ReceiveCases, AckOutcomes, Zenon
  <2>3. /\ current' = current \/ (current' = {f.call} /\ f = Event(f.call, "ended"))
        /\ handled' = handled \/ (handled' = handled \cup {f} /\ f.kind # "ended")
    BY <2>1, ReceiveCases, EventFields, Zenon
  <2>4. seen \subseteq seen'
    BY <2>1, ReceiveCases
  <2>5. QED
    BY <1>0, <1>4, <2>1, <2>2, <2>3, <2>4
<1>6. ASSUME NEW c \in Calls, Done(c)
      PROVE  /\ current = {c} /\ current' = {} /\ handled' = handled \cup {Event(c, "ended")}
             /\ unacked' \subseteq unacked \cup {Event(c, "ended")}
             /\ crashes' = crashes
             /\ pending' = [pending EXCEPT ![c] = {}]
  <2>1. Ack(Event(c, "ended"))
    BY <1>6, Zenon DEF Done
  <2>2. unacked' \subseteq unacked \cup {Event(c, "ended")}
    BY <2>1, AckOutcomes
  <2>3. QED
    BY <1>6, <2>2, Zenon DEF Done, At
<1>7. \A e \in unacked' : Delivered(e)'
  <2>1. SUFFICES ASSUME NEW e \in unacked'
                 PROVE  Delivered(e)'
    OBVIOUS
  <2>2. e \in unacked \/ (e \in Events /\ Takes(e)) \/ \E c \in Calls : Done(c) /\ e = Event(c, "ended")
    BY <1>5, <1>6, <2>1, BufferSteps
  <2>3. \A c \in Calls : Done(c) => Delivered(Event(c, "ended"))
    BY <1>0, <1>6
  <2>4. QED
    BY <1>0, <1>2, <1>3, <2>2, <2>3, Zenon
<1>8. \A c \in current' : Delivered(Event(c, "ended"))'
  <2>1. current' = current \/ current' = {} \/ \E f \in Events : Takes(f) /\ current' = {f.call} /\ f = Event(f.call, "ended")
    BY <1>5, <1>6, BufferSteps, Zenon
  <2>2. CASE current' = current
    BY <1>0, <1>2, <2>2, Zenon
  <2>3. CASE current' = {}
    BY <2>3
  <2>4. ASSUME NEW f \in Events, Takes(f), current' = {f.call}, f = Event(f.call, "ended")
        PROVE  \A c \in current' : Delivered(Event(c, "ended"))'
    <3>1. \A c \in current' : c = f.call
      BY <2>4
    <3>2. Delivered(f)'
      BY <1>3, <2>4
    <3>3. QED
      BY <2>4, <3>1, <3>2, Zenon
  <2>5. QED
    BY <2>1, <2>2, <2>3, <2>4, Zenon
<1>9. \A c \in Calls : Event(c, "ended") \in handled' => Delivered(Event(c, "ended"))'
  <2>1. SUFFICES ASSUME NEW c \in Calls, Event(c, "ended") \in handled'
                 PROVE  Delivered(Event(c, "ended"))'
    OBVIOUS
  <2>2. CASE Event(c, "ended") \in handled
    BY <1>0, <1>2, <2>2, Zenon
  <2>3. CASE Event(c, "ended") \notin handled
    <3>1. \A f \in Events : Takes(f) => Event(c, "ended") \notin handled'
      BY <1>5, <2>3, EventFields
    <3>2. PICK d \in Calls : Done(d)
      BY <2>1, <2>3, <3>1, BufferSteps
    <3>3. Event(c, "ended") = Event(d, "ended") /\ d \in current
      BY <1>6, <2>1, <2>3, <3>2
    <3>4. QED
      BY <1>0, <1>2, <3>3, Zenon
  <2>4. QED
    BY <2>2, <2>3
<1>10. ASSUME NEW e \in Events, crashes' = 0, Event(e.call, "ended") \notin handled', Delivered(e)'
       PROVE  e \in pending'[e.call]
  <2>1. CASE Takes(e)
    BY <1>3, <1>4, <2>1
  <2>2. CASE Delivered(e)
    <3>1. crashes \in Nat /\ pending \in [Calls -> SUBSET Events] /\ e.call \in Calls
      BY EventFields DEF TypeInv, CountersTyped, MemoryTyped
    <3>2. handled \subseteq handled'
      BY HistoryGrows
    <3>3. crashes = 0 => e \in pending[e.call]
      BY <1>1, <1>10, <2>2, <3>2
    <3>4. CASE \E f \in Events : Takes(f)
      BY <1>5, <1>10, <3>3, <3>4
    <3>5. ASSUME NEW c \in Calls, Done(c)
          PROVE  e \in pending'[e.call]
      <4>1. e.call # c
        BY <1>6, <1>10, <3>5
      <4>2. QED
        BY <1>6, <1>10, <3>1, <3>3, <3>5, <4>1
    <3>6. CASE UNCHANGED <<crashes, pending>>
      BY <1>10, <3>3, <3>6
    <3>7. ~(crashes' = crashes + 1)
      BY <1>10, <3>1
    <3>8. QED
      BY <3>4, <3>5, <3>6, <3>7, BufferSteps
  <2>3. QED
    BY <1>2, <1>10, <2>1, <2>2
<1>11. QED
  BY <1>4, <1>7, <1>8, <1>9, <1>10 DEF BufferInv

\* With no restart, the carrier's total is the run's.
LEMMA RunIsAll ==
  ASSUME TypeInv, crashes = 0 => sent = sentRun, NextShape
  PROVE  crashes' = 0 => sent' = sentRun'
<1>0. crashes \in Nat
  BY DEF TypeInv, CountersTyped
<1>1. CASE Crash
  <2>1. crashes' = crashes + 1
    BY <1>1, Zenon DEF Crash
  <2>2. QED
    BY <1>0, <2>1
<1>2. CASE ~Crash
  <2>1. crashes' = crashes
    BY <1>2, Zenon DEF NextShape, Publish, Takes, Handles, Done, Weekly, NewWeek, vars
  <2>2. \/ UNCHANGED <<sent, sentRun>>
        \/ \E s \in SMS : sent' = [sent EXCEPT ![s] = @ + 1] /\ sentRun' = [sentRun EXCEPT ![s] = @ + 1]
    <3>1. Handles => \/ UNCHANGED <<sent, sentRun>>
                     \/ \E s \in SMS : sent' = [sent EXCEPT ![s] = @ + 1] /\ sentRun' = [sentRun EXCEPT ![s] = @ + 1]
      BY Zenon DEF Handles, HandleShape, Drops, Skips, Counts, Sends, Marks, Transmit, effects, smsVars
    <3>2. QED
      BY <1>2, <3>1, Zenon DEF NextShape, Publish, Takes, Done, Weekly, NewWeek, vars, effects, smsVars
  <2>3. ASSUME crashes' = 0
        PROVE  sent' = sentRun'
    <3>1. sent = sentRun
      BY <2>1, <2>3
    <3>2. QED
      BY <2>2, <3>1
  <2>4. QED
    BY <2>3
<1>3. QED
  BY <1>1, <1>2

\* How a call's confirmation comes to be behind: its SMS goes out, or its
\* step is skipped.
LEMMA ConfirmedSteps ==
  ASSUME TypeInv, NextShape, NEW c \in Calls, Confirmed(c)', ~Confirmed(c), ~Crash
  PROVE  \/ Sends(<<c, "client">>)
         \/ Handles /\ Skips(c) /\ (<<c, "client">> \in keys \/ ~ClientDue(c)) /\ current = {c}
<1>1. Event(c, "ended") \notin handled /\ ~(current = {c} /\ pc \in {"clientMark", "agg", "done"})
  BY Zenon DEF Confirmed
<1>2. Event(c, "ended") \in handled' \/ (current' = {c} /\ pc' \in {"clientMark", "agg", "done"})
  BY Zenon DEF Confirmed
<1>3. ~UNCHANGED <<handled, current, pc>>
  BY <1>1, <1>2, Zenon
<1>4. \A e \in Events : ~Takes(e)
  <2>1. SUFFICES ASSUME NEW e \in Events, Takes(e)
                 PROVE  FALSE
    OBVIOUS
  <2>2. \/ UNCHANGED <<handled, current, pc>>
        \/ handled' = handled /\ pc' = "lookup"
        \/ handled' = handled \cup {e} /\ e.kind # "ended" /\ UNCHANGED <<current, pc>>
    BY <2>1, ReceiveCases, Zenon DEF Takes
  <2>3. Event(c, "ended").kind = "ended"
    BY EventFields
  <2>4. QED
    BY <1>1, <1>2, <2>2, <2>3
<1>5. \A d \in Calls : ~Done(d)
  <2>1. SUFFICES ASSUME NEW d \in Calls, Done(d)
                 PROVE  FALSE
    OBVIOUS
  <2>2. pc = "done" /\ current = {d} /\ current' = {} /\ handled' = handled \cup {Event(d, "ended")}
    BY <2>1, Zenon DEF Done, At
  <2>3. c = d
    <3>1. Event(c, "ended") = Event(d, "ended")
      BY <1>1, <1>2, <2>2
    <3>2. QED
      BY <3>1, EventFields
  <2>4. QED
    BY <1>1, <2>2, <2>3
<1>6. Handles
  BY <1>3, <1>4, <1>5, Zenon DEF NextShape, Publish, Weekly, NewWeek, vars, callback
<1>7. handled' = handled /\ current' = {c} /\ pc' \in {"clientMark", "agg", "done"}
  BY <1>1, <1>2, <1>6, Zenon DEF Handles
<1>8. ASSUME NEW d \in Calls, Drops(d) \/ Counts(d)
      PROVE  FALSE
  <2>1. Drops(d) => current' = {}
    BY Zenon DEF Drops
  <2>2. Counts(d) => pc = "agg" /\ current' = current
    BY Zenon DEF Counts, Moves
  <2>3. QED
    BY <1>1, <1>7, <1>8, <2>1, <2>2
<1>9. ASSUME NEW d \in Calls, Skips(d)
      PROVE  Skips(c) /\ (<<c, "client">> \in keys \/ ~ClientDue(c)) /\ current = {c}
  <2>1. current = {d} /\ current' = {d}
    BY <1>9, Zenon DEF Skips, Moves
  <2>2. d = c
    BY <1>7, <2>1
  <2>3. pc' # "owner" /\ pc' # "client"
    BY <1>7
  <2>4. <<c, "client">> \in keys \/ ~ClientDue(c)
    BY <1>9, <2>2, <2>3, Zenon DEF Skips, Moves
  <2>5. QED
    BY <1>9, <2>1, <2>2, <2>4, Zenon
<1>10. ASSUME NEW s \in SMS, Sends(s)
       PROVE  Sends(<<c, "client">>)
  <2>1. current' = {s[1]} /\ pc' = MarkStep(s)
    BY <1>10, Zenon DEF Sends, Moves
  <2>2. s[1] = c /\ s[2] = "client"
    BY <1>7, <2>1 DEF SMS, MarkStep
  <2>3. s = <<c, "client">>
    BY <2>2 DEF SMS
  <2>4. QED
    BY <1>10, <2>3
<1>11. ASSUME NEW s \in SMS, Marks(s)
       PROVE  FALSE
  <2>1. current = {s[1]} /\ current' = {s[1]} /\ pc' = After(s) /\ pc = MarkStep(s)
    BY <1>11, Zenon DEF Marks, Moves
  <2>2. pc = "clientMark"
    BY <1>7, <2>1 DEF SMS, MarkStep, After
  <2>3. QED
    BY <1>1, <1>7, <2>1, <2>2
<1>12. QED
  BY <1>6, <1>8, <1>9, <1>10, <1>11, Zenon DEF Handles, HandleShape

\* A confirmation that is behind was sent, for a caller who left a message.
LEMMA ConfirmStep ==
  ASSUME TypeInv, SentInv, SentInv', StreamInv, BufferInv, ConfirmInv, NextShape
  PROVE  ConfirmInv'
<1>0. crashes \in Nat /\ sent \in [SMS -> Nat] /\ sentRun \in [SMS -> Nat]
  BY DEF TypeInv, CountersTyped
<1>1. crashes' = 0 => sent' = sentRun'
  BY RunIsAll DEF ConfirmInv
<1>2. SUFFICES ASSUME NEW c \in Calls, c \notin overtaken', crashes' = 0, Confirmed(c)',
                      InStream(Event(c, "message"))'
               PROVE  sent'[<<c, "client">>] = 1
  BY <1>1 DEF ConfirmInv
<1>13. c \in Calls \ overtaken
  <2>1. \A e \in Events : Takes(e) => overtaken \subseteq overtaken'
    BY DEF Takes
  <2>2. overtaken \subseteq overtaken'
    BY <2>1, Zenon DEF NextShape, Publish, Handles, Done, Weekly, NewWeek, Crash, vars, bus, feed
  <2>3. QED
    BY <1>2, <2>2
<1>3. ~Crash
  BY <1>0, <1>2 DEF Crash
<1>4. crashes = 0
  <2>1. crashes' = crashes
    BY <1>3, Zenon DEF NextShape, Publish, Takes, Handles, Done, Weekly, NewWeek, vars
  <2>2. QED
    BY <1>2, <2>1
<1>5. sent = sentRun /\ sent' = sentRun'
  BY <1>1, <1>2, <1>4 DEF ConfirmInv
<1>6. <<c, "client">> \in SMS
  BY DEF SMS
<1>7. sentRun'[<<c, "client">>] \in {0, 1}
  BY <1>6, Zenon DEF SentInv
<1>8. sent'[<<c, "client">>] >= sent[<<c, "client">>]
  <2>1. \A s \in SMS : [sent EXCEPT ![s] = @ + 1][<<c, "client">>] >= sent[<<c, "client">>]
    BY <1>0, <1>6
  <2>2. sent' = sent \/ \E s \in SMS : sent' = [sent EXCEPT ![s] = @ + 1]
    BY SentSteps, Zenon
  <2>3. QED
    BY <1>0, <1>6, <2>1, <2>2
<1>9. CASE Confirmed(c)
  <2>1. Delivered(Event(c, "ended"))
    <3>1. Event(c, "ended") \in handled \/ c \in current
      BY <1>9 DEF Confirmed
    <3>2. QED
      BY <3>1, Zenon DEF BufferInv
  <2>2. InStream(Event(c, "message"))
    <3>1. Event(c, "ended") \in stream
      BY <2>1 DEF Delivered
    <3>2. ASSUME NEW e \in Events, Publish(e)
          PROVE  e # Event(c, "message")
      <4>1. Event(e.call, "ended") \notin stream
        BY <3>2, Zenon DEF Publish, InStream
      <4>2. e = Event(c, "message") => e.call = c
        BY EventFields
      <4>3. QED
        BY <3>1, <4>1, <4>2
    <3>3. stream' = stream \/ \E e \in Events : Publish(e) /\ stream' = stream \cup {e}
      BY Zenon DEF NextShape, Publish, Takes, Handles, Done, Weekly, NewWeek, Crash, vars, bus, feed
    <3>4. QED
      BY <1>2, <3>2, <3>3 DEF InStream
  <2>3. sent[<<c, "client">>] = 1
    BY <1>4, <1>9, <1>13, <2>2 DEF ConfirmInv
  <2>4. QED
    BY <1>5, <1>7, <1>8, <2>3
<1>10. CASE ~Confirmed(c) /\ Sends(<<c, "client">>)
  <2>1. /\ sentRun' = [sentRun EXCEPT ![<<c, "client">>] = @ + 1]
        /\ <<c, "client">>[1] = c /\ <<c, "client">>[2] = "client"
    BY <1>10, Zenon DEF Sends, Transmit
  <2>2. sentRun'[<<c, "client">>] >= 1
    BY <1>0, <1>6, <2>1
  <2>3. QED
    BY <1>5, <1>7, <2>2
<1>11. CASE ~Confirmed(c) /\ Handles /\ Skips(c) /\ current = {c}
            /\ (<<c, "client">> \in keys \/ ~ClientDue(c))
  <2>1. ClientDue(c)
    <3>1. Event(c, "ended") \notin handled
      BY <1>11 DEF Confirmed
    <3>2. Delivered(Event(c, "ended"))
      BY <1>11 DEF BufferInv
    <3>3. InStream(Event(c, "message"))
      BY <1>2, <1>11, Zenon DEF InStream, Handles, bus, feed
    <3>4. Delivered(Event(c, "message")) /\ Delivered(Event(c, "started"))
      BY <1>13, <3>2, <3>3, EndedIsLast
    <3>5. \A k \in {"started", "message", "ended"} : Event(c, k) \in Events /\ Event(c, k).call = c
      BY EventFields
    <3>6. Event(c, "message") \in pending[c] /\ Event(c, "started") \in pending[c]
      BY <1>4, <3>1, <3>4, <3>5 DEF BufferInv
    <3>7. QED
      BY <3>6 DEF ClientDue
  <2>2. sentRun[<<c, "client">>] = 1
    BY <1>6, <1>11, <2>1, Zenon DEF SentInv
  <2>3. QED
    BY <1>0, <1>5, <1>6, <1>7, <1>8, <2>2
<1>12. QED
  BY <1>2, <1>3, <1>9, <1>10, <1>11, ConfirmedSteps

\* The buffers and the stream agree while the process lives.
THEOREM ConfirmInvTheorem == Spec => [](SentInv /\ StreamInv /\ BufferInv /\ ConfirmInv)
<1>1. Init => StreamInv /\ BufferInv /\ ConfirmInv
  <2>1. SUFFICES ASSUME Init
                 PROVE  StreamInv /\ BufferInv /\ ConfirmInv
    OBVIOUS
  <2>2. /\ stream = {} /\ fresh = {} /\ unacked = {} /\ seen = {} /\ current = {} /\ handled = {}
        /\ pending = [c \in Calls |-> {}] /\ sent = sentRun
    BY <2>1, Zenon DEF Init
  <2>3. StreamInv
    BY <2>2 DEF StreamInv, Delivered
  <2>4. \A e : ~Delivered(e) /\ ~InStream(e)
    BY <2>2 DEF Delivered, InStream
  <2>5. seen = {e \in Events : e \in pending[e.call]}
    BY <2>2, EventFields
  <2>6. BufferInv
    BY <2>2, <2>4, <2>5 DEF BufferInv
  <2>7. ConfirmInv
    BY <2>2, <2>4, Zenon DEF ConfirmInv
  <2>8. QED
    BY <2>3, <2>6, <2>7
<1>2. ASSUME TypeInv, SentInv, StreamInv, BufferInv, ConfirmInv, [Next]_vars, SentInv'
      PROVE  StreamInv' /\ BufferInv' /\ ConfirmInv'
  BY <1>2, NextSteps, StreamStep, BufferStep, ConfirmStep
<1>3. QED
  BY <1>1, <1>2, TypeInvTheorem, SentInvTheorem, PTL DEF Spec

\* ClientConfirmed: a caller who left a message is texted exactly once by the
\* time the call is handled, as long as the process that buffered the call
\* lives and every event of it came before call.ended (notifier.go:127-151).
THEOREM ClientConfirmedTheorem == Spec => []ClientConfirmed
<1>1. ConfirmInv => ClientConfirmed
  BY Zenon DEF ConfirmInv, ClientConfirmed, Confirmed
<1>2. QED
  BY <1>1, ConfirmInvTheorem, PTL

=============================================================================
