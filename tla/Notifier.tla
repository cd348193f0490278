------------------------------ MODULE Notifier ------------------------------
(***************************************************************************)
(* Post-call notifications: the JetStream consumer                         *)
(* (go/internal/event/natsbus.go, bus.go) driving the notifier             *)
(* (go/internal/notify/notifier.go, weekly.go, dedup.go) as cmd/notifier   *)
(* wires them: one consume callback at a time, in-memory dedup of event    *)
(* sequence numbers, in-memory dedup of sent notifications, and a weekly   *)
(* report goroutine beside it.  A crash loses everything but the stream.   *)
(*                                                                         *)
(* One tenant with an owner phone and an e-mail.  The events of a call are *)
(* call.started (the caller's number), perhaps a var.assigned with the     *)
(* message the caller left, and call.ended; their seqs are distinct, so an *)
(* event stands for its (callId, seq) and for its eventId.  They are       *)
(* published in that order, and delivered in any (bus.go:18-20).           *)
(***************************************************************************)
EXTENDS Naturals, FiniteSets

CONSTANTS
  Calls,
  HandlerFails, \* a tenant lookup, an SMS or an e-mail may fail
  AcksLost,     \* an ack may miss the server, or come after its ack wait
  MaxCrashes,   \* bound: restarts of the notifier
  MaxWeeks      \* bound: weeks the report goroutine sees (0: it never ticks)

ASSUME NotifierAssumption ==
  /\ {HandlerFails, AcksLost} \subseteq BOOLEAN
  /\ {MaxCrashes, MaxWeeks} \subseteq Nat

Events == [call : Calls, kind : {"started", "message", "ended"}]
SMS    == Calls \X {"owner", "client"}
Steps  == {"idle", "lookup", "owner", "ownerMark", "client", "clientMark", "agg", "done"}

VARIABLES
  stream,    \* events published to the JetStream stream
  fresh,     \* published and never delivered
  unacked,   \* delivered and not acknowledged at the server
  seen,      \* seqDedup.seen
  pc,        \* the consume callback: "idle" or the step of HandleEvent
  current,   \* the call whose call.ended it handles
  pending,   \* [Calls -> SUBSET Events]: buffered events
  keys,      \* MemoryDedup.seen: effects done, per call
  weekly,    \* CallsAnswered of the tenant
  wpc,       \* the weekly goroutine: "idle", "send", "reset"
  wstats,    \* the counters it read
  weekSeen,  \* this week's report key is marked
  weeks,     \* weeks begun
  crashes,
  handled,   \* history: events some handler call returned nil for
  failed,    \* history: events some handler call returned an error for
  overtaken, \* history: calls with events still fresh when call.ended came
  sent,      \* history: SMS accepted by the carrier, per key
  sentRun,   \* the same since the last restart
  counted,   \* history: calls counted for the reports since the last restart
  reported   \* history: calls in the reports sent since the last restart

feed       == <<stream, fresh, overtaken>>
bus        == <<feed, unacked>>
callback   == <<pc, current, failed>>
weeklyVars == <<wpc, wstats, weekSeen>>
smsVars    == <<sent, sentRun>>
effects    == <<keys, smsVars, weekly, counted>>
vars == <<bus, seen, callback, pending, effects, weeklyVars, weeks, crashes, handled, reported>>

Fails        == IF HandlerFails THEN BOOLEAN ELSE {FALSE}
InStream(e)  == e \in stream
Event(c, k)  == [call |-> c, kind |-> k]
-----------------------------------------------------------------------------
(* The stream and the subscriber.                                          *)

\* The events of a call are published in Seq order (external).
Publish(e) ==
  /\ ~InStream(e) /\ ~InStream(Event(e.call, "ended"))
  /\ e.kind # "started" => InStream(Event(e.call, "started"))
  /\ stream' = stream \cup {e} /\ fresh' = fresh \cup {e}
  /\ UNCHANGED <<overtaken, unacked, seen, callback, pending, effects, weeklyVars, weeks,
                 crashes, handled, reported>>

\* msg.Ack(); when it is lost the server redelivers later.
Ack(e) == unacked' \in {unacked \ {e}} \cup IF AcksLost THEN {unacked \cup {e}} ELSE {}

\* isDuplicate(callID, seq): the pair is recorded by the same call (Receive).
isDuplicate(e) == e \in seen

\* Variant: call.ended is acknowledged before its handler runs.
ReceiveAckFirst(e) ==
  IF isDuplicate(e)
  THEN Ack(e) /\ UNCHANGED <<seen, callback, pending, handled>>
  ELSE /\ seen' = seen \cup {e}
       /\ pending' = [pending EXCEPT ![e.call] = @ \cup {e}]
       /\ Ack(e)
       /\ IF e.kind = "ended"
          THEN pc' = "lookup" /\ current' = {e.call} /\ UNCHANGED <<failed, handled>>
          ELSE handled' = handled \cup {e} /\ UNCHANGED callback

\* The consume callback up to the first effect: a duplicate is acknowledged
\* at once; HandleEvent buffers the event, and only call.ended goes on.
Receive(e) ==
  IF isDuplicate(e)
  THEN Ack(e) /\ UNCHANGED <<seen, callback, pending, handled>>
  ELSE /\ seen' = seen \cup {e}
       /\ pending' = [pending EXCEPT ![e.call] = @ \cup {e}]
       /\ IF e.kind = "ended"
          THEN /\ pc' = "lookup" /\ current' = {e.call}
               /\ unacked' = unacked \cup {e}
               /\ UNCHANGED <<failed, handled>>
          ELSE /\ Ack(e)
               /\ handled' = handled \cup {e}
               /\ UNCHANGED callback

\* The other events of e's call that are still to be delivered.
Behind(e) == {f \in fresh \ {e} : f.call = e.call}

\* A first delivery: the bus hands out what is published in any order.
Deliver(e) ==
  /\ pc = "idle" /\ e \in fresh
  /\ fresh' = fresh \ {e}
  /\ overtaken' = overtaken \cup IF e.kind = "ended" /\ Behind(e) # {} THEN {e.call} ELSE {}
  /\ Receive(e)
  /\ UNCHANGED <<stream, effects, weeklyVars, weeks, crashes, reported>>

\* After a Nak, an expired ack wait or a restart.
Redeliver(e) ==
  /\ pc = "idle" /\ e \in unacked
  /\ Receive(e)
  /\ UNCHANGED <<feed, effects, weeklyVars, weeks, crashes, reported>>
-----------------------------------------------------------------------------
(* HandleEvent for call.ended of the call c in hand.                       *)

At(c, step) == pc = step /\ current = {c}
To(step)    == pc' = step /\ UNCHANGED <<current, failed>>

\* A step returned an error: Nak; pending and the recorded seq stay.
Fail ==
  /\ pc' = "idle" /\ current' = {}
  /\ failed' = failed \cup {Event(c, "ended") : c \in current}
  /\ UNCHANGED effects

\* BuildSummary or the tenant lookup may fail before any effect.
Lookup(c, fails) ==
  /\ At(c, "lookup")
  /\ IF fails THEN Fail ELSE To("owner") /\ UNCHANGED effects

\* The carrier takes the SMS.
Transmit(key) ==
  /\ sent' = [sent EXCEPT ![key] = @ + 1]
  /\ sentRun' = [sentRun EXCEPT ![key] = @ + 1]
  /\ UNCHANGED <<keys, weekly, counted>>

\* Variant: the dedup key is not consulted.
SendAlways(key, due, fails, mark, skip) ==
  IF due THEN IF fails THEN Fail ELSE Transmit(key) /\ To(mark)
  ELSE To(skip) /\ UNCHANGED effects

\* An SMS is skipped when not due or when its key is marked; the mark is a
\* step of its own.
SendOnce(key, due, fails, mark, skip) ==
  IF due /\ key \notin keys
  THEN IF fails THEN Fail ELSE Transmit(key) /\ To(mark)
  ELSE To(skip) /\ UNCHANGED effects

Mark(key, step) ==
  /\ keys' = keys \cup {key}
  /\ To(step)
  /\ UNCHANGED <<smsVars, weekly, counted>>

OwnerSMS(c, fails) ==
  At(c, "owner") /\ SendOnce(<<c, "owner">>, TRUE, fails, "ownerMark", "client")

OwnerMark(c) == At(c, "ownerMark") /\ Mark(<<c, "owner">>, "client")

\* What the folded summary needs for the caller's confirmation.
ClientDue(c) == {Event(c, "started"), Event(c, "message")} \subseteq pending[c]

ClientSMS(c, fails) ==
  At(c, "client") /\ SendOnce(<<c, "client">>, ClientDue(c), fails, "clientMark", "agg")

ClientMark(c) == At(c, "clientMark") /\ Mark(<<c, "client">>, "agg")

\* recordWeekly: the call is counted once.
RecordWeekly(c) ==
  /\ At(c, "agg")
  /\ LET n == IF <<c, "agg">> \in keys THEN 0 ELSE 1
     IN  weekly' = weekly + n /\ counted' = counted + n
  /\ keys' = keys \cup {<<c, "agg">>}
  /\ To("done") /\ UNCHANGED smsVars

Handle ==
  /\ \E c \in current :
       \/ \E f \in Fails : Lookup(c, f) \/ OwnerSMS(c, f) \/ ClientSMS(c, f)
       \/ OwnerMark(c) \/ ClientMark(c) \/ RecordWeekly(c)
  /\ UNCHANGED <<bus, seen, pending, weeklyVars, weeks, crashes, handled, reported>>

\* Variant: every buffer is released.
DoneDropsAll(c) ==
  /\ At(c, "done")
  /\ pending' = [d \in Calls |-> {}]
  /\ seen' = {e \in seen : e.call # c}
  /\ Ack(Event(c, "ended"))
  /\ handled' = handled \cup {Event(c, "ended")}
  /\ pc' = "idle" /\ current' = {}
  /\ UNCHANGED <<feed, failed, effects, weeklyVars, weeks, crashes, reported>>

\* Success: release the buffer, forget the call's seqs, acknowledge.
Done(c) ==
  /\ At(c, "done")
  /\ pending' = [pending EXCEPT ![c] = {}]
  /\ seen' = {e \in seen : e.call # c}
  /\ Ack(Event(c, "ended"))
  /\ handled' = handled \cup {Event(c, "ended")}
  /\ pc' = "idle" /\ current' = {}
  /\ UNCHANGED <<feed, failed, effects, weeklyVars, weeks, crashes, reported>>
-----------------------------------------------------------------------------
(* The weekly report goroutine, and restarts.                              *)

\* A tick in a week not reported yet: read the counters.
WeeklyRead ==
  /\ wpc = "idle" /\ ~weekSeen
  /\ wpc' = "send" /\ wstats' = weekly
  /\ UNCHANGED <<weekSeen, weekly, reported>>

\* email.Send.
WeeklySend(fails) ==
  /\ wpc = "send"
  /\ wpc' = IF fails THEN "idle" ELSE "reset"
  /\ reported' = IF fails THEN reported ELSE reported + wstats
  /\ UNCHANGED <<wstats, weekSeen, weekly>>

\* Variant: the counters survive the report.
WeeklyKeep ==
  /\ wpc = "reset"
  /\ wpc' = "idle" /\ weekSeen' = TRUE
  /\ UNCHANGED <<wstats, weekly, reported>>

\* Mark the week and drop the tenant's counters.
WeeklyReset ==
  /\ wpc = "reset"
  /\ wpc' = "idle" /\ weekSeen' = TRUE /\ weekly' = 0
  /\ UNCHANGED <<wstats, reported>>

Weekly ==
  /\ WeeklyRead \/ (\E f \in Fails : WeeklySend(f)) \/ WeeklyReset
  /\ UNCHANGED <<bus, seen, callback, pending, keys, smsVars, counted, weeks, crashes, handled>>

NewWeek ==
  /\ weekSeen /\ weeks < MaxWeeks
  /\ weeks' = weeks + 1 /\ weekSeen' = FALSE
  /\ UNCHANGED <<bus, seen, callback, pending, effects, wpc, wstats, crashes, handled, reported>>

\* The process dies at any step and starts again with empty memory.
Crash ==
  /\ crashes < MaxCrashes
  /\ crashes' = crashes + 1
  /\ seen' = {} /\ pending' = [c \in Calls |-> {}] /\ keys' = {} /\ weekly' = 0
  /\ pc' = "idle" /\ current' = {}
  /\ wpc' = "idle" /\ wstats' = 0 /\ weekSeen' = (MaxWeeks = 0)
  /\ sentRun' = [s \in SMS |-> 0] /\ counted' = 0 /\ reported' = 0
  /\ UNCHANGED <<bus, weeks, handled, failed, sent>>
-----------------------------------------------------------------------------
Init ==
  /\ stream = {} /\ fresh = {} /\ unacked = {} /\ overtaken = {}
  /\ seen = {} /\ pc = "idle" /\ current = {}
  /\ pending = [c \in Calls |-> {}] /\ keys = {}
  /\ weekly = 0 /\ wpc = "idle" /\ wstats = 0 /\ weekSeen = (MaxWeeks = 0) /\ weeks = 1
  /\ crashes = 0 /\ handled = {} /\ failed = {}
  /\ sent = [s \in SMS |-> 0] /\ sentRun = [s \in SMS |-> 0]
  /\ counted = 0 /\ reported = 0

Next == \/ \E e \in Events : Publish(e) \/ Deliver(e) \/ Redeliver(e)
        \/ Handle \/ (\E c \in Calls : Done(c))
        \/ Weekly \/ NewWeek \/ Crash

Spec == Init /\ [][Next]_vars

\* A callback that runs goes on to its end (weak); the server hands out new
\* messages and unacknowledged ones again and again between callbacks, which
\* keep switching both off (strong).
Fairness ==
  /\ WF_vars(Handle) /\ WF_vars(\E c \in Calls : Done(c))
  /\ \A e \in Events : SF_vars(Deliver(e)) /\ SF_vars(Redeliver(e))

FairSpec == Spec /\ Fairness
-----------------------------------------------------------------------------
(* Properties.                                                             *)

Acked(e) == e \in stream \ fresh /\ e \notin unacked

\* natsbus.go:54: an event leaves the stream only after a handler accepted it,
\* through redeliveries, lost acks and restarts.
AckedMeansHandled == \A e \in Events : Acked(e) => e \in handled

\* The same for the events whose handler never failed.
AckedUnlessFailed == \A e \in Events : Acked(e) => e \in handled \cup failed

\* One process never sends the same SMS twice, however often call.ended comes
\* back after its seqs were forgotten (notifier.go:148).
OncePerRun == \A s \in SMS : sentRun[s] <= 1

\* sendClientSMS confirms "the recorded message to the caller"
\* (notifier.go:218-219): he is texted, once, by the time his call is handled,
\* while the process that buffered it lives.  The bus is unordered
\* (bus.go:18-20) and HandleEvent closes a call with what it has buffered: when
\* an event of the call is still to be delivered at the first call.ended, the
\* confirmation may be skipped for good (notifier.go:221-226), and the call is
\* excepted here.
ClientConfirmed ==
  \A c \in Calls \ overtaken :
    crashes = 0 /\ Event(c, "ended") \in handled /\ InStream(Event(c, "message"))
      => sent[<<c, "client">>] = 1

\* recordWeekly and the weekly reset: no call is in the reports twice, nor
\* both reported and still waiting to be (notifier.go:260, weekly.go:84).
ReportsNotInflated ==
  reported + weekly <= counted + IF wpc = "reset" THEN wstats ELSE 0

\* The owner hears of every finished call whose handler does not fail,
\* restarts and lost acks included (natsbus.go:54, notifier.go:121).
OwnerNotified ==
  \A c \in Calls : InStream(Event(c, "ended")) ~>
    (sent[<<c, "owner">>] >= 1 \/ Event(c, "ended") \in failed)
=============================================================================
