-------------------------------- MODULE Agent -------------------------------
(***************************************************************************)
(* The agent runtime of one call (python/agent-runtime): the conversation  *)
(* graph (graph.py) with its calendar and message tools (tools.py), the    *)
(* event emitter (events.py) and the bridge (bridge.py), which runs one    *)
(* turn at a time, publishes the turn's events and sends the reply.        *)
(*                                                                         *)
(* The graph works on a copy of the agent's state that replaces it when    *)
(* the turn succeeds; the tools, the LLM, the publisher and the gateway's  *)
(* socket may fail at any call.  What the caller says is the language it   *)
(* is clearly in and the set of things the dictionaries find in it.  The   *)
(* events make up a stream from which Fold rebuilds the state; the         *)
(* telephony gateway writes its call.started to the same stream.           *)
(***************************************************************************)
EXTENDS Integers, Sequences, FiniteSets, Fold

CONSTANTS
  Utterances,  \* what a caller may say: [speaks : {"en", "fr", "none"}, says : SUBSET Words]
  MaxTurns,    \* bound: turns
  MaxFailures  \* bound: calls of tools, LLM, publisher and socket that fail,
               \* and replies the outbound guardrail blocks

Words == {"emergency", "service", "in", "out", "urgent", "can wait",
          "message", "book", "yes", "no", "first", "second"}

ASSUME AgentAssumption ==
  /\ Utterances \subseteq [speaks : {"en", "fr", "none"}, says : SUBSET Words]
  /\ {MaxTurns, MaxFailures} \subseteq Nat

VARIABLES
  agent,    \* AgentState as of the last turn that succeeded
  run,      \* the turn under way: node of the graph, utterance, AgentState copy
  emitted,  \* EventEmitter.emitted
  flushed,  \* CallSession._flushed
  stream,   \* the envelopes that reached the stream
  bookings, \* FakeGoogleCalendar: [attempt of the key -> slot, 0: none]
  message,  \* FakeMessageStore: the turn whose words are kept, 0: none
  turns, failures,
  aborted,  \* history: some turn failed inside the graph
  told,     \* history: [attempt -> slot the gateway was given as booked, 0: none]
  retried,  \* history: attempts whose turn failed after the calendar was asked
  unheard   \* history: attempts whose "booked" was replaced or did not go out

bounds  == <<turns, failures>>
tools   == <<bookings, message>>
history == <<aborted, told, retried, unheard>>
vars    == <<agent, run, emitted, flushed, stream, tools, bounds, history>>

NoSlots == [service |-> "none", coverage |-> "none", urgency |-> "none"]
AgentState ==  \* reply: the slot it says is booked, 0: none.
  [turn |-> 0, locale |-> "en", node |-> "greeting", intent |-> "unknown", slots |-> NoSlots,
   proposed |-> 0, attempts |-> 0, reply |-> 0, ended |-> FALSE]
Idle    == [at |-> "idle", says |-> {}, from |-> "", st |-> AgentState]
Attempts == 1..MaxTurns
None    == [k \in Attempts |-> 0]

(* call.start has created the session. *)
Init ==
  /\ agent = AgentState /\ run = Idle /\ emitted = <<>> /\ flushed = 0 /\ stream = {}
  /\ bookings = None /\ message = 0
  /\ turns = 0 /\ failures = 0
  /\ aborted = FALSE /\ told = None /\ retried = {} /\ unheard = {}

-----------------------------------------------------------------------------
(* Events: the emitter numbers them from 1; a postal code's text is         *)
(* redacted.                                                                *)
Event(type, node)        == [type |-> type, node |-> node, name |-> "", value |-> ""]
Locale(type, node, l)    == [Event(type, node) EXCEPT !.value = l]
Var(node, x, v)          == [type |-> "var.assigned", node |-> node, name |-> x, value |-> v]
Tool(node)               == <<Event("tool.invoked", node), Event("tool.completed", node)>>

Envelope(e, seq) ==
  [seq |-> seq, id |-> 2 * seq, type |-> e.type, node |-> e.node,
   name |-> e.name, value |-> e.value]

emit(events) == emitted' = emitted \o [i \in 1..Len(events) |-> Envelope(events[i], Len(emitted) + i)]

Fails == failures < MaxFailures /\ failures' = failures + 1

(* The turn raises: the copy is lost, what was emitted stays. *)
Aborts == run' = Idle /\ aborted' = TRUE /\ UNCHANGED agent
GoesOn(at, st) == run' = [run EXCEPT !.at = at, !.st = st] /\ UNCHANGED <<agent, aborted>>
-----------------------------------------------------------------------------
(* The gateway's call.started, number 1 as well (external): older or newer  *)
(* than the runtime's first event.                                          *)
CallStarted ==
  /\ ~\E e \in stream : e.type = "call.started"
  /\ stream' = stream \cup {[Envelope(Event("call.started", ""), 1) EXCEPT
                               !.id = IF emitted = <<>> THEN @ - 1 ELSE @ + 1]}
  /\ UNCHANGED <<agent, run, emitted, flushed, tools, bounds, history>>

_route(node, says) ==
  CASE "emergency" \in says -> "transfer"
    [] node \in {"greeting", "intent", "qualify"} -> "dialogue"
    [] OTHER -> node

(* handle_turn up to the first node: language and inbound guardrails.  No   *)
(* edge leads on from a node that is done.                                  *)
_screen(u) ==
  /\ run.at = "idle" /\ turns < MaxTurns /\ turns' = turns + 1
  /\ LET first    == agent.turn = 0
         switched == u.speaks \notin {"none", agent.locale}
         locale   == IF u.speaks = "none" THEN agent.locale ELSE u.speaks
         next     == _route(agent.node, u.says)
         detected == IF first THEN <<Locale("language.detected", agent.node, locale)>>
                     ELSE IF switched THEN <<Locale("language.switched", agent.node, locale)>>
                     ELSE <<>>
     IN
     /\ emit(Append(detected, Event("stt.final", agent.node)))
     /\ \/ next = "done" /\ Aborts
        \/ /\ next # "done" /\ UNCHANGED <<agent, aborted>>
           /\ run' = [at |-> next, says |-> u.says, from |-> agent.node,
                      st |-> [agent EXCEPT !.turn = @ + 1, !.locale = locale, !.reply = 0]]
  /\ UNCHANGED <<flushed, stream, tools, failures, told, retried, unheard>>

_transfer ==
  /\ run.at = "transfer"
  /\ emit(<<Event("transfer.initiated", run.st.node)>>)
  /\ GoesOn("respond", [run.st EXCEPT !.node = "done", !.ended = TRUE])
  /\ UNCHANGED <<flushed, stream, tools, bounds, told, retried, unheard>>

-----------------------------------------------------------------------------
(* The dialogue policy: what the words add to the slots, the intent, and    *)
(* the node that asks for what is missing.                                  *)
_extract_slots(says, slots) ==
  [service |-> IF slots.service = "none" /\ "service" \in says THEN "some" ELSE slots.service,
   coverage |-> IF slots.coverage # "none" THEN slots.coverage
                ELSE CASE "in" \in says -> "in" [] "out" \in says -> "out" [] OTHER -> "none",
   urgency |-> IF slots.urgency # "none" THEN slots.urgency
               ELSE CASE "can wait" \in says -> "normal" [] "urgent" \in says -> "high"
                      [] OTHER -> "none"]

Assigned(node, old, new) ==
  LET set(x) == old[x] = "none" /\ new[x] # "none" IN
     (IF set("service") THEN <<Var(node, "service", new.service)>> ELSE <<>>)
  \o (IF set("coverage") THEN <<Var(node, "postal_code", "redacted"),
                               Var(node, "coverage", new.coverage)>> ELSE <<>>)
  \o (IF set("urgency") THEN <<Var(node, "urgency", new.urgency)>> ELSE <<>>)

_classify_intent(says, slots) ==
  CASE "message" \in says -> "message"
    [] "book" \in says \/ slots.service # "none" -> "schedule"
    [] OTHER -> "unknown"

missing_qualification(slots) == {x \in {"service", "coverage", "urgency"} : slots[x] = "none"}

(* The node after the turn; "propose" when the calendar is asked first. *)
NextQuestion(node, intent, slots) ==
  CASE intent = "unknown" -> node
    [] intent = "message" -> "message"
    [] missing_qualification(slots) \cap {"service", "coverage"} # {} -> "qualify"
    [] slots.coverage = "out" -> "message"
    [] slots.urgency = "none" -> "qualify"
    [] OTHER -> "propose"

(* calendar.propose: urgent calls get the earliest slot only (external). *)
propose(urgency) == IF urgency = "high" THEN 1 ELSE 2

_dialogue ==
  /\ run.at = "dialogue"
  /\ LET st     == run.st
         node   == IF st.node = "greeting" THEN "intent" ELSE st.node
         slots  == _extract_slots(run.says, st.slots)
         intent == IF st.intent = "unknown" THEN _classify_intent(run.says, slots) ELSE st.intent
         asked  == st.intent = "unknown" /\ intent # "unknown"
         at     == IF asked THEN "qualify" ELSE node
         next   == NextQuestion(at, intent, slots)
         said   == Assigned(node, st.slots, slots)
                     \o (IF asked THEN <<Var(node, "intent", intent)>> ELSE <<>>)
         new    == [st EXCEPT !.slots = slots, !.intent = intent]
     IN
     \/ /\ next # "propose"
        /\ emit(said) /\ GoesOn("respond", [new EXCEPT !.node = next]) /\ UNCHANGED failures
     \/ /\ next = "propose"
        /\ emit(said \o Tool(at))
        /\ GoesOn("respond", [new EXCEPT !.node = "schedule", !.proposed = propose(slots.urgency)])
        /\ UNCHANGED failures
     \/ next = "propose" /\ emit(Append(said, Tool(at)[1])) /\ Aborts /\ Fails
  /\ UNCHANGED <<flushed, stream, tools, turns, told, retried, unheard>>

-----------------------------------------------------------------------------
_pick_slot(says, proposed) ==
  CASE proposed > 1 /\ "second" \in says -> 2
    [] proposed > 0 /\ says \cap {"first", "yes"} # {} -> 1
    [] OTHER -> 0

(* calendar.confirm books once per key; what it returns, the slot booked    *)
(* under the key, does not reach the reply, which names the slot chosen.    *)
confirm(attempt, slot) ==
  bookings' = [bookings EXCEPT ![attempt] = IF @ = 0 THEN slot ELSE @]

_scheduleSameAttempt ==  \* Variant of _schedule.
  /\ run.at = "schedule"
  /\ LET chosen == _pick_slot(run.says, run.st.proposed) IN
     /\ chosen # 0 /\ confirm(1, chosen) /\ emit(Tool("schedule"))
     /\ GoesOn("respond", [run.st EXCEPT !.node = "confirm", !.attempts = @ + 1, !.reply = chosen])
  /\ UNCHANGED <<flushed, stream, message, bounds, told, retried, unheard>>

_schedule ==
  /\ run.at = "schedule"
  /\ LET st      == run.st
         chosen  == _pick_slot(run.says, st.proposed)
         attempt == st.attempts + 1
     IN
     \/ /\ chosen = 0
        /\ GoesOn("respond", st) /\ UNCHANGED <<emitted, bookings, failures, retried>>
     \/ /\ chosen # 0 /\ confirm(attempt, chosen)
        /\ emit(Tool("schedule"))
        /\ GoesOn("respond", [st EXCEPT !.node = "confirm", !.attempts = attempt, !.reply = chosen])
        /\ UNCHANGED <<failures, retried>>
     \/ /\ chosen # 0 /\ (confirm(attempt, chosen) \/ UNCHANGED bookings)
        /\ emit(<<Tool("schedule")[1]>>)
        /\ Aborts /\ Fails
        /\ retried' = retried \cup {attempt}
  /\ UNCHANGED <<flushed, stream, message, turns, told, unheard>>

(* message.take keeps the first message under a key; a call has one key. *)
take == message' = IF message = 0 THEN turns ELSE message

_message ==
  /\ run.at = "message"
  /\ \/ /\ take /\ emit(Tool("message")) /\ UNCHANGED failures
        /\ GoesOn("respond", [run.st EXCEPT !.node = "confirm"])
     \/ /\ take \/ UNCHANGED message
        /\ emit(<<Tool("message")[1]>>) /\ Aborts /\ Fails
  /\ UNCHANGED <<flushed, stream, bookings, turns, told, retried, unheard>>

_confirm ==
  /\ run.at = "confirm"
  /\ \/ /\ "no" \in run.says \/ "yes" \notin run.says
        /\ GoesOn("respond", [run.st EXCEPT !.node = "done", !.ended = TRUE])
     \/ /\ "no" \notin run.says /\ "yes" \in run.says
        /\ GoesOn("respond", [run.st EXCEPT !.node = "intent", !.intent = "unknown"])
  /\ UNCHANGED <<emitted, flushed, stream, tools, bounds, told, retried, unheard>>

(* The attempt whose booking a state's reply confirms.                      *)
Confirmed(st) == {k \in {st.attempts} : st.reply # 0}

(* The LLM words the reply (its wording is taken to say what the draft      *)
(* says), which the outbound guardrail may replace as a whole; then the     *)
(* copy becomes the state.  A turn the LLM fails is lost, and with it the   *)
(* attempt of a booking made in it.                                         *)
_respond ==
  /\ run.at = "respond"
  /\ \/ \E blocked \in BOOLEAN :
          LET st == run.st IN
          /\ IF blocked THEN Fails ELSE UNCHANGED failures
          /\ emit((IF blocked THEN <<Event("error.raised", st.node)>> ELSE <<>>)
               \o (IF st.node # run.from
                   THEN <<Event("node.exited", run.from), Event("node.entered", st.node)>> ELSE <<>>)
               \o <<Event("agent.turn.completed", st.node)>>)
          /\ agent' = IF blocked THEN [st EXCEPT !.reply = 0] ELSE st
          /\ unheard' = IF blocked THEN unheard \cup Confirmed(st) ELSE unheard
          /\ run' = [Idle EXCEPT !.at = "flush"] /\ UNCHANGED <<aborted, retried>>
     \/ /\ Aborts /\ Fails /\ UNCHANGED <<emitted, unheard>>
        /\ retried' = retried \cup Confirmed(run.st)
  /\ UNCHANGED <<flushed, stream, tools, turns, told>>

-----------------------------------------------------------------------------
(* The turn's events are published in order, and all over again with the    *)
(* next turn if one of them fails; the reply goes out after them.           *)
Emitted(i, j) == {emitted[k] : k \in i..j}

_flush_eventsForgets ==  \* Variant of _flush_events.
  /\ run.at = "flush"
  /\ flushed' = Len(emitted) /\ UNCHANGED <<agent, emitted, tools, turns, aborted, told, retried>>
  /\ \E n \in flushed..Len(emitted) :
       /\ stream' = stream \cup Emitted(flushed + 1, n)
       /\ \/ n = Len(emitted) /\ run' = [run EXCEPT !.at = "send"] /\ UNCHANGED <<failures, unheard>>
          \/ n < Len(emitted) /\ run' = Idle /\ Fails /\ unheard' = unheard \cup Confirmed(agent)

_flush_events ==
  /\ run.at = "flush"
  /\ \/ /\ stream' = stream \cup Emitted(flushed + 1, Len(emitted))
        /\ flushed' = Len(emitted) /\ run' = [run EXCEPT !.at = "send"]
        /\ UNCHANGED <<failures, unheard>>
     \/ /\ \E n \in flushed..Len(emitted) : stream' = stream \cup Emitted(flushed + 1, n)
        /\ run' = Idle /\ Fails /\ UNCHANGED flushed
        /\ unheard' = unheard \cup Confirmed(agent)
  /\ UNCHANGED <<agent, emitted, tools, turns, aborted, told, retried>>

(* The reply of the turn goes out, or the socket refuses it.                *)
on_turn ==
  /\ run.at = "send" /\ run' = Idle
  /\ \/ /\ told' = [k \in Attempts |-> IF k \in Confirmed(agent) THEN agent.reply ELSE told[k]]
        /\ UNCHANGED <<failures, unheard>>
     \/ Fails /\ unheard' = unheard \cup Confirmed(agent) /\ UNCHANGED told
  /\ UNCHANGED <<agent, emitted, flushed, stream, tools, turns, aborted, retried>>

Next ==
  \/ CallStarted \/ \E u \in Utterances : _screen(u)
  \/ _transfer \/ _dialogue \/ _schedule \/ _message \/ _confirm \/ _respond
  \/ _flush_events \/ on_turn

Spec == Init /\ [][Next]_vars

-----------------------------------------------------------------------------
(* The stream of one session explains the agent's state: once a turn's      *)
(* events are out, Fold finds the node, every slot, and each completed      *)
(* turn.  Where no turn failed half-way it finds nothing else, and the      *)
(* locale too - except that call.started of the gateway, numbered 1 as      *)
(* well, may have displaced language.detected (events.py:3, 43-46; fold.go  *)
(* 107-136).                                                                *)
FoldAgrees ==
  run.at \in {"idle", "send"} /\ flushed = Len(emitted) /\ agent.turn > 0 =>
    LET snap == Fold(stream)
        x    == [s \in DOMAIN NoSlots |-> IF s \in DOMAIN snap.vars THEN snap.vars[s] ELSE "none"]
    IN
    /\ snap.cursor = agent.node /\ snap.agentTurns = agent.turn
    /\ \A s \in DOMAIN NoSlots : agent.slots[s] # "none" => x[s] = agent.slots[s]
    /\ ~aborted => x = agent.slots /\ snap.callerTurns = agent.turn
    /\ ~aborted /\ (snap.locale = "" => ~\E e \in stream : e.type = "call.started")
         => snap.locale = agent.locale

(* What a session published is numbered from 1 without a gap, whatever      *)
(* failed and was published again (events.py:43-46, bridge.py:141-147).     *)
StreamHasNoGaps ==
  LET mine == {e \in stream : e.type # "call.started"}
      seqs == {e.seq : e \in mine}
  IN /\ seqs = 1..Cardinality(mine) /\ flushed <= Cardinality(mine)

(* The agent books what it tells the caller and nothing else: a slot that    *)
(* went out as booked is booked, in that slot unless the attempt's turn had  *)
(* failed before and was made again; between turns a booking was told, but   *)
(* for such an attempt and one whose "booked" the guardrail replaced or the  *)
(* publisher or socket lost, which nobody ever repeats; and a message the    *)
(* stream says was passed on is kept, or an earlier one of the call is       *)
(* (tools.py:3-6, graph.py:438-478, 546-556, bridge.py:136-138).             *)
ToldIsTrue ==
  /\ \A k \in Attempts :
       /\ told[k] # 0 => bookings[k] # 0 /\ (k \in retried \/ bookings[k] = told[k])
       /\ run.at = "idle" /\ bookings[k] # 0 => told[k] # 0 \/ k \in retried \cup unheard
  /\ (\E i \in 1..flushed : emitted[i].type = "tool.completed" /\ emitted[i].node = "message")
       => message # 0
=============================================================================
