----------------------------- MODULE AgentProofs ----------------------------
(***************************************************************************)
(* Theorems about Agent, for every set of utterances and number of turns   *)
(* and failures: the numbers of the events that reach the stream, and what *)
(* the agent says it booked or passed on.                                  *)
(***************************************************************************)
EXTENDS Agent, FiniteSetTheorems, FunctionTheorems, SequenceTheorems, TLAPS

-----------------------------------------------------------------------------
(* Types.                                                                  *)

Nodes  == {"greeting", "intent", "qualify", "schedule", "message", "confirm", "done"}
Places == {"idle", "transfer", "dialogue", "schedule", "message", "confirm",
           "respond", "flush", "send"}
Texts  == {"", "none", "some", "in", "out", "normal", "high", "unknown", "message", "schedule",
           "service", "coverage", "urgency", "postal_code", "redacted", "intent", "en", "fr"}
Types  == {"call.started", "language.detected", "language.switched", "stt.final",
           "transfer.initiated", "tool.invoked", "tool.completed", "var.assigned",
           "error.raised", "node.exited", "node.entered", "agent.turn.completed"}

SlotsType == [service : Texts, coverage : Texts, urgency : Texts]

AgentStateType ==
  [turn : Nat, locale : Texts, node : Nodes, intent : Texts, slots : SlotsType,
   proposed : Nat, attempts : Nat, reply : Nat, ended : BOOLEAN]

RunType == [at : Places, says : SUBSET Words, from : Nodes \cup {""}, st : AgentStateType]

EventType    == [type : Types, node : Nodes \cup {""}, name : Texts, value : Texts]
EnvelopeType ==
  [seq : Nat, id : Nat, type : Types, node : Nodes \cup {""}, name : Texts, value : Texts]

TypeInv ==
  /\ agent \in AgentStateType /\ run \in RunType
  /\ emitted \in Seq(EnvelopeType) /\ flushed \in Nat
  /\ bookings \in [Attempts -> Nat] /\ told \in [Attempts -> Nat]
  /\ retried \in SUBSET Attempts /\ unheard \in SUBSET Attempts
  /\ message \in Nat /\ turns \in Nat

-----------------------------------------------------------------------------
(* The inductive invariants.                                               *)

\* What only the gateway writes, and what says that a message was passed on.
Own(e)    == e.type # "call.started"
Passed(e) == e.type = "tool.completed" /\ e.node = "message"

\* The session numbers its events from 1; of those the stream has the first n,
\* at least the ones flushed.
Mine == {e \in stream : e.type # "call.started"}
StreamInv ==
  /\ \A i \in 1 .. Len(emitted) : emitted[i].seq = i /\ Own(emitted[i])
  /\ \E n \in flushed .. Len(emitted) : Mine = Emitted(1, n)

\* Inside the graph, before and after its last node.
InGraph == run.at \in {"transfer", "dialogue", "schedule", "message", "confirm"}
InTurn  == InGraph \/ run.at = "respond"

\* The attempt a turn is at: one more than the last, once it has booked.
AttemptsInv ==
  /\ agent.attempts <= turns /\ turns <= MaxTurns
  /\ InTurn => agent.attempts < turns /\ turns > 0
  /\ InGraph => run.st.attempts = agent.attempts /\ run.st.reply = 0
  /\ run.at = "respond" => run.st.attempts \in {agent.attempts, agent.attempts + 1}
  /\ run.at = "dialogue" => run.st.node \in {"greeting", "intent", "qualify"}

\* The state whose reply is still to reach the caller, and whether it has one to send.
Draft   == IF run.at = "respond" THEN run.st ELSE agent
Sending == run.at \in {"respond", "flush", "send"}

\* What the caller was told, or is about to be told, is booked, and nothing else is.
BookedInv ==
  /\ \A k \in Attempts :
       /\ told[k] # 0 => bookings[k] # 0 /\ (k \in retried \/ bookings[k] = told[k])
       /\ told[k] # 0 \/ k \in unheard => k <= agent.attempts
       /\ bookings[k] # 0 =>
            told[k] # 0 \/ k \in retried \cup unheard \/ (Sending /\ k \in Confirmed(Draft))
  /\ Sending => \A k \in Confirmed(Draft) :
       /\ k \in Attempts /\ bookings[k] # 0
       /\ k \in retried \/ bookings[k] = Draft.reply

\* A message that was passed on is kept, or an earlier one is.
MessageInv == \A i \in 1 .. Len(emitted) : Passed(emitted[i]) => message # 0

AgentInv == TypeInv /\ StreamInv /\ AttemptsInv /\ BookedInv /\ MessageInv

-----------------------------------------------------------------------------
(* Emitting events.                                                        *)

\* Events of the session, and those that pass no message on.
OwnEvents == {e \in EventType : Own(e)}
Plain     == {e \in EventType : Own(e) /\ ~Passed(e)}

\* The session's events are numbered, whatever they are.
Numbered == /\ emitted \in Seq(EnvelopeType)
            /\ \A i \in 1 .. Len(emitted) : emitted[i].seq = i /\ Own(emitted[i])

\* Events were added, or none.
Grows ==
  /\ Numbered' /\ Len(emitted') >= Len(emitted)
  /\ \A i \in 1 .. Len(emitted) : emitted'[i] = emitted[i]

\* The events a step emits follow those emitted, in their order.
LEMMA Emits ==
  ASSUME Numbered, NEW ev \in Seq(OwnEvents), emit(ev)
  PROVE  /\ Grows /\ Len(emitted') = Len(emitted) + Len(ev)
         /\ \A j \in 1 .. Len(ev) : /\ emitted'[Len(emitted) + j].type = ev[j].type
                                    /\ emitted'[Len(emitted) + j].node = ev[j].node
<1> DEFINE n == Len(emitted)
           m == Len(ev)
           more == [i \in 1 .. m |-> Envelope(ev[i], n + i)]
<1>1. emitted \in Seq(EnvelopeType) /\ n \in Nat /\ m \in Nat
  BY LenProperties DEF Numbered
<1>2. ASSUME NEW i \in 1 .. m
      PROVE  /\ ev[i] \in OwnEvents
             /\ Envelope(ev[i], n + i) \in EnvelopeType /\ Envelope(ev[i], n + i).seq = n + i
             /\ Envelope(ev[i], n + i).type = ev[i].type
             /\ Envelope(ev[i], n + i).node = ev[i].node
  <2>1. ev[i] \in OwnEvents
    BY ElementOfSeq
  <2>2. n + i \in Nat /\ 2 * (n + i) \in Nat
    BY <1>1
  <2>3. /\ ev[i].type \in Types /\ ev[i].node \in Nodes \cup {""}
        /\ ev[i].name \in Texts /\ ev[i].value \in Texts
    BY <2>1 DEF OwnEvents, EventType
  <2>4. QED
    BY <2>1, <2>2, <2>3 DEF Envelope, EnvelopeType
<1>3. more \in Seq(EnvelopeType) /\ Len(more) = m
      /\ \A i \in 1 .. m : more[i] = Envelope(ev[i], n + i)
  <2>1. \A i \in 1 .. m : Envelope(ev[i], n + i) \in EnvelopeType
    BY <1>2
  <2> HIDE DEF m, n
  <2>2. QED
    BY <1>1, <2>1
<1>4. emitted' = emitted \o more
  BY DEF emit
<1> HIDE DEF more
<1>5. /\ emitted' \in Seq(EnvelopeType) /\ Len(emitted') = n + m
      /\ \A i \in 1 .. (n + m) : emitted'[i] = IF i <= n THEN emitted[i] ELSE more[i - n]
  <2> HIDE DEF n, m
  <2>1. Len(emitted) = n /\ Len(more) = m
    BY <1>3 DEF n
  <2>2. /\ emitted \o more \in Seq(EnvelopeType) /\ Len(emitted \o more) = Len(emitted) + Len(more)
        /\ \A i \in 1 .. (Len(emitted) + Len(more)) :
             (emitted \o more)[i] = IF i <= Len(emitted) THEN emitted[i] ELSE more[i - Len(emitted)]
    BY <1>1, <1>3, ConcatProperties
  <2>3. QED
    BY <1>4, <2>1, <2>2
<1>6. \A i \in 1 .. n : emitted'[i] = emitted[i]
  BY <1>1, <1>5
<1>7. ASSUME NEW j \in 1 .. m
      PROVE  emitted'[n + j] = Envelope(ev[j], n + j)
  <2>1. n + j \in 1 .. (n + m) /\ ~(n + j <= n) /\ (n + j) - n = j
    BY <1>1
  <2>2. emitted'[n + j] = more[j]
    BY <1>5, <2>1
  <2>3. QED
    BY <1>3, <2>2
<1>8. ASSUME NEW i \in 1 .. (n + m)
      PROVE  emitted'[i].seq = i /\ Own(emitted'[i])
  <2>1. CASE i <= n
    <3>1. i \in 1 .. n
      BY <1>1, <2>1
    <3>2. QED
      BY <1>6, <3>1 DEF Numbered
  <2>2. CASE i > n
    <3>1. i - n \in 1 .. m /\ n + (i - n) = i
      BY <1>1, <2>2
    <3>2. emitted'[i] = Envelope(ev[i - n], i)
      BY <1>7, <3>1
    <3>3. /\ Envelope(ev[i - n], i).seq = i /\ Envelope(ev[i - n], i).type = ev[i - n].type
          /\ ev[i - n] \in OwnEvents
      BY <1>2, <3>1
    <3>4. QED
      BY <3>2, <3>3 DEF OwnEvents, Own
  <2>3. QED
    BY <1>1, <2>1, <2>2
<1>9. Grows
  BY <1>1, <1>5, <1>6, <1>8 DEF Grows, Numbered
<1>10. QED
  BY <1>2, <1>5, <1>7, <1>9

\* Plain events pass no message on.
LEMMA EmitsPlain ==
  ASSUME Numbered, NEW ev \in Seq(Plain), emit(ev)
  PROVE  /\ Grows
         /\ \A i \in 1 .. Len(emitted') :
              Passed(emitted'[i]) => \E j \in 1 .. Len(emitted) : Passed(emitted[j])
<1>1. ev \in Seq(OwnEvents)
  <2>1. Len(ev) \in Nat /\ \A i \in 1 .. Len(ev) : ev[i] \in OwnEvents
    BY ElementOfSeq, LenProperties DEF Plain, OwnEvents
  <2>2. ev = [i \in 1 .. Len(ev) |-> ev[i]]
    BY LenProperties
  <2>3. QED
    BY <2>1, <2>2
<1>2. /\ Grows /\ Len(emitted') = Len(emitted) + Len(ev)
      /\ \A j \in 1 .. Len(ev) : /\ emitted'[Len(emitted) + j].type = ev[j].type
                                 /\ emitted'[Len(emitted) + j].node = ev[j].node
  BY <1>1, Emits
<1>3. Len(emitted) \in Nat /\ Len(ev) \in Nat
  BY LenProperties DEF Numbered
<1>4. ASSUME NEW i \in 1 .. Len(emitted'), Passed(emitted'[i])
      PROVE  \E j \in 1 .. Len(emitted) : Passed(emitted[j])
  <2>1. CASE i <= Len(emitted)
    <3>1. i \in 1 .. Len(emitted)
      BY <1>2, <1>3, <2>1
    <3>2. QED
      BY <1>2, <1>4, <3>1 DEF Grows
  <2>2. CASE i > Len(emitted)
    <3> DEFINE j == i - Len(emitted)
    <3>1. j \in 1 .. Len(ev) /\ i = Len(emitted) + j
      BY <1>2, <1>3, <2>2
    <3>2. ev[j] \in Plain
      BY <3>1, ElementOfSeq
    <3>3. emitted'[i].type = ev[j].type /\ emitted'[i].node = ev[j].node
      BY <1>2, <3>1
    <3>4. QED
      BY <1>4, <3>2, <3>3 DEF Plain, Passed
  <2>3. QED
    BY <1>2, <1>3, <2>1, <2>2
<1>5. QED
  BY <1>2, <1>4

\* The stream knows nothing of events yet to be flushed.
LEMMA StreamGrows ==
  ASSUME Numbered, StreamInv, Grows, UNCHANGED <<stream, flushed>>
  PROVE  StreamInv'
<1>1. PICK n \in flushed .. Len(emitted) : Mine = Emitted(1, n)
  BY DEF StreamInv
<1>2. Len(emitted) \in Nat /\ Len(emitted') \in Nat /\ Len(emitted') >= Len(emitted)
      /\ \A i \in 1 .. Len(emitted) : emitted'[i] = emitted[i]
  BY LenProperties DEF Numbered, Grows
<1>3. n \in flushed' .. Len(emitted')
  BY <1>1, <1>2
<1>4. Mine' = Mine
  BY DEF Mine
<1>5. \A k \in 1 .. n : emitted'[k] = emitted[k]
  BY <1>1, <1>2
<1>6. Emitted(1, n)' = Emitted(1, n)
  BY <1>5 DEF Emitted
<1>7. Mine' = Emitted(1, n)'
  BY <1>1, <1>4, <1>6
<1>8. QED
  BY <1>3, <1>7 DEF StreamInv, Grows, Numbered

\* Events that pass nothing on leave nothing to be kept.
LEMMA SaysPlain ==
  ASSUME Numbered, MessageInv, NEW ev \in Seq(Plain), emit(ev), message # 0 => message' # 0
  PROVE  Grows /\ MessageInv'
<1>1. /\ Grows
      /\ \A i \in 1 .. Len(emitted') :
           Passed(emitted'[i]) => \E j \in 1 .. Len(emitted) : Passed(emitted[j])
  BY EmitsPlain
<1>2. MessageInv'
  BY <1>1 DEF MessageInv, Passed
<1>3. QED
  BY <1>1, <1>2

\* A step that emits nothing.
LEMMA SaysNothing ==
  ASSUME Numbered, MessageInv, UNCHANGED <<emitted, message>>
  PROVE  Grows /\ MessageInv'
<1>1. Len(emitted) \in Nat
  BY LenProperties DEF Numbered
<1>2. Grows
  BY <1>1 DEF Grows, Numbered, Own
<1>3. MessageInv'
  BY DEF MessageInv, Passed
<1>4. QED
  BY <1>2, <1>3

-----------------------------------------------------------------------------
(* The events of the graph.                                                *)

\* The plain events, one by one.
LEMMA PlainEvents ==
  ASSUME NEW node \in Nodes \cup {""}, NEW v \in Texts
  PROVE  /\ \A t \in {"stt.final", "transfer.initiated", "tool.invoked", "error.raised",
                       "node.exited", "node.entered", "agent.turn.completed"} :
              Event(t, node) \in Plain
         /\ \A t \in {"language.detected", "language.switched"} : Locale(t, node, v) \in Plain
         /\ \A x \in Texts : Var(node, x, v) \in Plain
         /\ node # "message" => Event("tool.completed", node) \in Plain
<1>1. ASSUME NEW t \in Types, t # "call.started", ~(t = "tool.completed" /\ node = "message")
      PROVE  Event(t, node) \in Plain /\ Locale(t, node, v) \in Plain
  <2>1. Event(t, node) \in EventType
    BY DEF Event, EventType, Texts
  <2>2. Event(t, node).type = t /\ Event(t, node).node = node
    BY DEF Event
  <2>3. Locale(t, node, v) \in EventType
    BY <2>1 DEF Locale, EventType
  <2>4. Locale(t, node, v).type = t /\ Locale(t, node, v).node = node
    BY <2>1, <2>2 DEF Locale, EventType
  <2>5. QED
    BY <1>1, <2>1, <2>2, <2>3, <2>4 DEF Plain, Own, Passed
<1>2. ASSUME NEW x \in Texts
      PROVE  Var(node, x, v) \in EventType /\ Var(node, x, v).type = "var.assigned"
  BY DEF Var, EventType, Types
<1>3. \A x \in Texts : Var(node, x, v) \in Plain
  BY <1>2 DEF Plain, Own, Passed
<1>4. \A t \in {"language.detected", "language.switched"} : Locale(t, node, v) \in Plain
  BY <1>1 DEF Types
<1>5. \A t \in {"stt.final", "transfer.initiated", "tool.invoked", "error.raised",
                "node.exited", "node.entered", "agent.turn.completed"} : Event(t, node) \in Plain
  BY <1>1 DEF Types
<1>6. node # "message" => Event("tool.completed", node) \in Plain
  BY <1>1 DEF Types
<1>7. QED
  BY <1>3, <1>4, <1>5, <1>6

\* Sequences of plain events.
LEMMA PlainSequences ==
  /\ <<>> \in Seq(Plain)
  /\ \A e \in Plain : <<e>> \in Seq(Plain)
  /\ \A e \in Plain, f \in Plain : <<e, f>> \in Seq(Plain)
  /\ \A s \in Seq(Plain), e \in Plain : Append(s, e) \in Seq(Plain)
  /\ \A s \in Seq(Plain), t \in Seq(Plain) : s \o t \in Seq(Plain)
<1> DEFINE P == Plain
<1> HIDE DEF P
<1>1. QED
  <2>1. /\ <<>> \in Seq(P)
        /\ \A e \in P : <<e>> \in Seq(P)
        /\ \A e \in P, f \in P : <<e, f>> \in Seq(P)
    OBVIOUS
  <2>2. \A s \in Seq(P), e \in P : Append(s, e) \in Seq(P)
    BY AppendProperties
  <2>3. \A s \in Seq(P), t \in Seq(P) : s \o t \in Seq(P)
    BY ConcatProperties
  <2>4. QED
    BY <2>1, <2>2, <2>3 DEF P

\* The variables the dialogue assigns.
LEMMA AssignedPlain ==
  ASSUME NEW node \in Nodes \cup {""}, NEW old \in SlotsType, NEW new \in SlotsType
  PROVE  Assigned(node, old, new) \in Seq(Plain)
<1>1. \A x \in Texts, v \in Texts : Var(node, x, v) \in Plain
  BY PlainEvents
<1>2. new.service \in Texts /\ new.coverage \in Texts /\ new.urgency \in Texts
  BY DEF SlotsType
<1> DEFINE a == Var(node, "service", new.service)
           b == Var(node, "postal_code", "redacted")
           c == Var(node, "coverage", new.coverage)
           d == Var(node, "urgency", new.urgency)
           set(x) == old[x] = "none" /\ new[x] # "none"
<1>3. a \in Plain /\ b \in Plain /\ c \in Plain /\ d \in Plain
  <2>1. "service" \in Texts /\ "postal_code" \in Texts /\ "coverage" \in Texts
        /\ "urgency" \in Texts /\ "redacted" \in Texts
    BY DEF Texts
  <2>2. QED
    BY <1>1, <1>2, <2>1
<1>4. Assigned(node, old, new) = (IF set("service") THEN <<a>> ELSE <<>>)
                                   \o (IF set("coverage") THEN <<b, c>> ELSE <<>>)
                                   \o (IF set("urgency") THEN <<d>> ELSE <<>>)
  BY DEF Assigned
<1> HIDE DEF a, b, c, d, set
<1>5. (IF set("service") THEN <<a>> ELSE <<>>) \in Seq(Plain)
  BY <1>3, PlainSequences, Zenon
<1>6. (IF set("coverage") THEN <<b, c>> ELSE <<>>) \in Seq(Plain)
  BY <1>3, PlainSequences, Zenon
<1>7. (IF set("urgency") THEN <<d>> ELSE <<>>) \in Seq(Plain)
  BY <1>3, PlainSequences, Zenon
<1> DEFINE x == IF set("service") THEN <<a>> ELSE <<>>
           y == IF set("coverage") THEN <<b, c>> ELSE <<>>
           z == IF set("urgency") THEN <<d>> ELSE <<>>
<1>8. Assigned(node, old, new) = x \o y \o z
  BY <1>4
<1> HIDE DEF x, y, z
<1>9. x \in Seq(Plain) /\ y \in Seq(Plain) /\ z \in Seq(Plain)
  BY <1>5, <1>6, <1>7 DEF x, y, z
<1>10. x \o y \in Seq(Plain)
  BY <1>9, PlainSequences, Zenon
<1>11. QED
  BY <1>8, <1>9, <1>10, PlainSequences, Zenon

-----------------------------------------------------------------------------
(* The shapes of a step.                                                   *)

\* The tables of the calendar and of what was told, retried and not heard.
TablesTyped ==
  /\ bookings \in [Attempts -> Nat] /\ told \in [Attempts -> Nat]
  /\ retried \in SUBSET Attempts /\ unheard \in SUBSET Attempts

\* The sequence emitted so far is numbered.
LEMMA EmittedNumbered ==
  ASSUME AgentInv
  PROVE  Numbered
BY DEF AgentInv, TypeInv, StreamInv, Numbered

\* A step that leaves the stream alone has only the agent's own books to keep.
LEMMA Composes ==
  ASSUME AgentInv, Grows, MessageInv', UNCHANGED <<flushed, stream>>,
         run' \in RunType, agent' \in AgentStateType, message' \in Nat, turns' \in Nat,
         TablesTyped', AttemptsInv', BookedInv'
  PROVE  AgentInv'
<1>1. TypeInv'
  BY DEF AgentInv, TypeInv, Grows, Numbered, TablesTyped
<1>2. StreamInv'
  <2>1. StreamInv
    BY DEF AgentInv
  <2>2. QED
    BY <2>1, StreamGrows, EmittedNumbered
<1>3. QED
  BY <1>1, <1>2 DEF AgentInv

\* The fields of the agent's state.
LEMMA StateFields ==
  ASSUME NEW st \in AgentStateType
  PROVE  /\ st.turn \in Nat /\ st.locale \in Texts /\ st.node \in Nodes /\ st.intent \in Texts
         /\ st.slots \in SlotsType /\ st.proposed \in Nat /\ st.attempts \in Nat /\ st.reply \in Nat
BY DEF AgentStateType

\* The turn goes on to its next node.
LEMMA GoesOnFields ==
  ASSUME run \in RunType, NEW at \in Places, NEW st \in AgentStateType, GoesOn(at, st)
  PROVE  run' \in RunType /\ run'.at = at /\ run'.st = st /\ agent' = agent
<1>1. run' = [run EXCEPT !.at = at, !.st = st] /\ agent' = agent
  BY DEF GoesOn
<1>2. QED
  BY <1>1 DEF RunType

\* Before its first turn the agent has a state.
LEMMA IdleTyped ==
  /\ AgentState \in AgentStateType /\ AgentState.attempts = 0 /\ AgentState.reply = 0
  /\ Idle \in RunType /\ Idle.at = "idle"
<1>1. NoSlots \in SlotsType
  BY DEF NoSlots, SlotsType, Texts
<1>2. AgentState \in AgentStateType /\ AgentState.attempts = 0 /\ AgentState.reply = 0
  <2> HIDE DEF NoSlots
  <2>1. "en" \in Texts /\ "greeting" \in Nodes /\ "unknown" \in Texts
    BY DEF Texts, Nodes
  <2>2. QED
    BY <1>1, <2>1 DEF AgentState, AgentStateType
<1>3. Idle \in RunType /\ Idle.at = "idle"
  <2>1. "idle" \in Places
    BY DEF Places
  <2>2. QED
    BY <1>2, <2>1 DEF Idle, RunType
<1>4. QED
  BY <1>2, <1>3

\* The turn raises.
LEMMA AbortsFields ==
  ASSUME Aborts
  PROVE  run' \in RunType /\ run'.at = "idle" /\ agent' = agent
BY IdleTyped DEF Aborts

\* What an invariant gives its steps.
LEMMA Given ==
  ASSUME AgentInv
  PROVE  /\ run \in RunType /\ run.st \in AgentStateType /\ run.says \in SUBSET Words
         /\ run.from \in Nodes \cup {""}
         /\ agent \in AgentStateType /\ message \in Nat /\ turns \in Nat
         /\ TablesTyped /\ AttemptsInv /\ BookedInv /\ MessageInv /\ Numbered
<1>1. TypeInv /\ AttemptsInv /\ BookedInv /\ MessageInv /\ Numbered
  BY EmittedNumbered DEF AgentInv
<1>2. run \in RunType
  BY <1>1 DEF TypeInv
<1>3. run.st \in AgentStateType /\ run.says \in SUBSET Words /\ run.from \in Nodes \cup {""}
  BY <1>2 DEF RunType
<1>4. QED
  BY <1>1, <1>2, <1>3 DEF TypeInv, TablesTyped

\* A copy of the state in which nothing was booked.
Carries(st) == st.attempts = run.st.attempts /\ st.reply = run.st.reply

\* What is to be said confirms the attempts the invariant speaks of, and no more.
LEMMA Confirming ==
  ASSUME NEW st \in AgentStateType
  PROVE  /\ st.reply = 0 => Confirmed(st) = {}
         /\ st.reply # 0 => Confirmed(st) = {st.attempts}
BY DEF Confirmed

\* Nothing is being sent, or a reply that confirms no booking, before and after.
LEMMA NothingToConfirm ==
  ASSUME BookedInv, UNCHANGED <<bookings, told, retried, unheard>>, agent' = agent,
         ~Sending \/ Draft.reply = 0, ~Sending' \/ Draft'.reply = 0
  PROVE  BookedInv'
<1>1. ~(Sending /\ \E k : k \in Confirmed(Draft)) /\ ~(Sending' /\ \E k : k \in Confirmed(Draft)')
  BY DEF Confirmed
<1>2. Attempts' = Attempts
  BY DEF Attempts
<1>3. QED
  BY <1>1, <1>2 DEF BookedInv

\* A node of the graph that books nothing.
LEMMA NodeKeeps ==
  ASSUME AgentInv, InGraph, NEW st \in AgentStateType, Carries(st),
         GoesOn("respond", st), Grows, MessageInv', message' \in Nat,
         UNCHANGED <<flushed, stream, bookings, told, retried, unheard, turns>>
  PROVE  AgentInv'
<1>1. /\ TablesTyped /\ AttemptsInv /\ BookedInv /\ run \in RunType /\ agent \in AgentStateType
      /\ turns \in Nat
  BY Given
<1>2. run' \in RunType /\ run'.at = "respond" /\ run'.st = st /\ agent' = agent
  BY <1>1, GoesOnFields DEF Places
<1>3. /\ st.attempts = agent.attempts /\ st.reply = 0 /\ agent.attempts < turns /\ turns > 0
      /\ ~Sending
  BY <1>1 DEF AttemptsInv, InGraph, InTurn, Carries, Sending
<1>4. AttemptsInv'
  BY <1>1, <1>2, <1>3 DEF AttemptsInv, InGraph, InTurn
<1>5. Draft'.reply = 0
  BY <1>2, <1>3 DEF Draft
<1>6. BookedInv'
  BY <1>1, <1>2, <1>3, <1>5, NothingToConfirm
<1>7. TablesTyped'
  BY <1>1 DEF TablesTyped
<1>8. QED
  BY <1>1, <1>2, <1>4, <1>6, <1>7, Composes

\* A node that fails, having booked nothing.
LEMMA NodeFails ==
  ASSUME AgentInv, InGraph, Aborts, Grows, MessageInv', message' \in Nat,
         UNCHANGED <<flushed, stream, bookings, told, retried, unheard, turns>>
  PROVE  AgentInv'
<1>1. /\ TablesTyped /\ AttemptsInv /\ BookedInv /\ run \in RunType /\ agent \in AgentStateType
      /\ turns \in Nat
  BY Given
<1>2. run' \in RunType /\ run'.at = "idle" /\ agent' = agent
  BY AbortsFields
<1>3. AttemptsInv'
  BY <1>1, <1>2 DEF AttemptsInv, InGraph, InTurn
<1>4. ~Sending /\ ~Sending'
  BY <1>2 DEF Sending, InGraph
<1>5. BookedInv'
  BY <1>1, <1>2, <1>4, NothingToConfirm
<1>6. TablesTyped'
  BY <1>1 DEF TablesTyped
<1>7. QED
  BY <1>1, <1>2, <1>3, <1>5, <1>6, Composes

-----------------------------------------------------------------------------
(* The nodes of the graph.                                                 *)

\* What a node writes into its copy of the agent's state.
LEMMA NewState ==
  ASSUME NEW st \in AgentStateType, Carries(st), NEW node \in Nodes
  PROVE  /\ [st EXCEPT !.node = node] \in AgentStateType /\ Carries([st EXCEPT !.node = node])
         /\ [st EXCEPT !.node = node, !.ended = TRUE] \in AgentStateType
         /\ Carries([st EXCEPT !.node = node, !.ended = TRUE])
<1> HIDE DEF Nodes, Texts, SlotsType
<1>1. QED
  BY DEF AgentStateType, Carries

\* _transfer: the call goes to a human.
LEMMA TransferKeeps ==
  ASSUME AgentInv, _transfer
  PROVE  AgentInv'
<1>1. run.st \in AgentStateType /\ message \in Nat /\ Numbered /\ MessageInv
  BY Given
<1> DEFINE st == [run.st EXCEPT !.node = "done", !.ended = TRUE]
           e  == Event("transfer.initiated", run.st.node)
<1>2. /\ run.at = "transfer" /\ emit(<<e>>) /\ GoesOn("respond", st)
      /\ UNCHANGED <<flushed, stream, bookings, message, turns, told, retried, unheard>>
  BY DEF _transfer, tools, bounds
<1>3. st \in AgentStateType /\ Carries(st)
  <2>1. "done" \in Nodes
    BY DEF Nodes
  <2>2. QED
    BY <1>1, <2>1, NewState DEF Carries
<1>4. <<e>> \in Seq(Plain)
  <2>1. run.st.node \in Nodes \cup {""} /\ "" \in Texts
    BY <1>1, StateFields DEF Texts
  <2>2. e \in Plain
    BY <2>1, PlainEvents
  <2>3. QED
    BY <2>2, PlainSequences, Zenon
<1> HIDE DEF st, e
<1>5. Grows /\ MessageInv'
  BY <1>1, <1>2, <1>4, SaysPlain
<1>6. InGraph /\ message' \in Nat
  BY <1>1, <1>2 DEF InGraph
<1>7. QED
  BY <1>2, <1>3, <1>5, <1>6, NodeKeeps

\* _confirm: wraps up or starts over.
LEMMA ConfirmKeeps ==
  ASSUME AgentInv, _confirm
  PROVE  AgentInv'
<1>1. run.st \in AgentStateType /\ message \in Nat /\ Numbered /\ MessageInv
  BY Given
<1> DEFINE a == [run.st EXCEPT !.node = "done", !.ended = TRUE]
           b == [run.st EXCEPT !.node = "intent", !.intent = "unknown"]
<1>2. /\ run.at = "confirm" /\ (GoesOn("respond", a) \/ GoesOn("respond", b))
      /\ UNCHANGED <<emitted, flushed, stream, bookings, message, turns, told, retried, unheard>>
  BY DEF _confirm, tools, bounds
<1>3. a \in AgentStateType /\ Carries(a) /\ b \in AgentStateType /\ Carries(b)
  <2>1. "done" \in Nodes /\ "intent" \in Nodes /\ "unknown" \in Texts
    BY DEF Nodes, Texts
  <2>2. a \in AgentStateType /\ Carries(a)
    BY <1>1, <2>1, NewState DEF Carries
  <2>3. b \in AgentStateType /\ Carries(b)
    BY <1>1, <2>1 DEF AgentStateType, Carries
  <2>4. QED
    BY <2>2, <2>3
<1> HIDE DEF a, b
<1>4. Grows /\ MessageInv'
  BY <1>1, <1>2, SaysNothing
<1>5. InGraph /\ message' \in Nat
  BY <1>1, <1>2 DEF InGraph
<1>6. QED
  BY <1>2, <1>3, <1>4, <1>5, NodeKeeps

\* A tool that passes nothing on (calendar).
LEMMA ToolPlain ==
  ASSUME NEW node \in Nodes, node # "message"
  PROVE  /\ Tool(node)[1] \in Plain /\ Tool(node) \in Seq(Plain)
<1> DEFINE a == Event("tool.invoked", node)  b == Event("tool.completed", node)
<1>1. a \in Plain /\ b \in Plain
  <2>1. "" \in Texts /\ node \in Nodes \cup {""}
    BY DEF Texts
  <2>2. QED
    BY <2>1, PlainEvents
<1>2. Tool(node) = <<a, b>>
  BY DEF Tool
<1> HIDE DEF a, b
<1>3. Tool(node)[1] = a
  BY <1>2
<1>4. QED
  BY <1>1, <1>2, <1>3, PlainSequences, Zenon

\* message.take, and the events around it.
LEMMA MessageEvents ==
  /\ Tool("message") \in Seq(OwnEvents)
  /\ Tool("message")[1] \in Plain
<1> DEFINE a == Event("tool.invoked", "message")  b == Event("tool.completed", "message")
<1>1. a \in Plain
  <2>1. "" \in Texts /\ "message" \in Nodes \cup {""}
    BY DEF Texts, Nodes
  <2>2. QED
    BY <2>1, PlainEvents
<1>2. a \in OwnEvents
  BY <1>1 DEF Plain, OwnEvents
<1>3. b \in OwnEvents
  BY DEF Event, OwnEvents, EventType, Own, Types, Nodes, Texts
<1>4. Tool("message") = <<a, b>>
  BY DEF Tool
<1> HIDE DEF a, b
<1>5. Tool("message")[1] = a
  BY <1>4
<1>6. <<a, b>> \in Seq(OwnEvents)
  BY <1>2, <1>3
<1>7. QED
  BY <1>1, <1>4, <1>5, <1>6

\* _message: once the tool has answered, a message is kept.
LEMMA MessageKeeps ==
  ASSUME AgentInv, _message
  PROVE  AgentInv'
<1>1. /\ run.st \in AgentStateType /\ message \in Nat /\ turns \in Nat /\ Numbered /\ MessageInv
      /\ AttemptsInv
  BY Given
<1>2. run.at = "message" /\ UNCHANGED <<flushed, stream, bookings, turns, told, retried, unheard>>
  BY DEF _message
<1>3. InGraph /\ turns > 0
  BY <1>1, <1>2 DEF InGraph, InTurn, AttemptsInv
<1>4. take => message' \in Nat /\ message' # 0
  BY <1>1, <1>3 DEF take
<1> DEFINE st == [run.st EXCEPT !.node = "confirm"]
<1>5. CASE take /\ emit(Tool("message")) /\ GoesOn("respond", st)
  <2>1. Grows
    BY <1>1, <1>5, MessageEvents, Emits
  <2>2. MessageInv'
    BY <1>4, <1>5 DEF MessageInv
  <2>3. st \in AgentStateType /\ Carries(st)
    <3>1. "confirm" \in Nodes
      BY DEF Nodes
    <3>2. QED
      BY <1>1, <3>1, NewState DEF Carries
  <2> HIDE DEF st
  <2>4. QED
    BY <1>2, <1>3, <1>4, <1>5, <2>1, <2>2, <2>3, NodeKeeps
<1>6. CASE (take \/ UNCHANGED message) /\ emit(<<Tool("message")[1]>>) /\ Aborts
  <2>1. <<Tool("message")[1]>> \in Seq(Plain)
    BY MessageEvents, PlainSequences, Zenon
  <2>2. message' \in Nat /\ (message # 0 => message' # 0)
    BY <1>1, <1>4, <1>6
  <2>3. Grows /\ MessageInv'
    BY <1>1, <1>6, <2>1, <2>2, SaysPlain
  <2>4. QED
    BY <1>2, <1>3, <1>6, <2>2, <2>3, NodeFails
<1>7. QED
  BY <1>5, <1>6 DEF _message

\* What the policy's helpers return.
LEMMA PolicyTyped ==
  ASSUME NEW says, NEW slots \in SlotsType, NEW node \in Nodes, NEW intent
  PROVE  /\ _extract_slots(says, slots) \in SlotsType
         /\ _classify_intent(says, slots) \in Texts
         /\ NextQuestion(node, intent, slots) \in Nodes \cup {"propose"}
<1>1. slots.service \in Texts /\ slots.coverage \in Texts /\ slots.urgency \in Texts
  BY DEF SlotsType
<1>2. /\ "some" \in Texts /\ "in" \in Texts /\ "out" \in Texts /\ "none" \in Texts
      /\ "normal" \in Texts /\ "high" \in Texts /\ "message" \in Texts
      /\ "schedule" \in Texts /\ "unknown" \in Texts
  BY DEF Texts
<1>3. _extract_slots(says, slots) \in SlotsType
  BY <1>1, <1>2 DEF _extract_slots, SlotsType
<1>4. _classify_intent(says, slots) \in Texts
  BY <1>2 DEF _classify_intent
<1>5. NextQuestion(node, intent, slots) \in Nodes \cup {"propose"}
  <2>1. "message" \in Nodes /\ "qualify" \in Nodes
    BY DEF Nodes
  <2>2. QED
    BY <2>1 DEF NextQuestion
<1>6. QED
  BY <1>3, <1>4, <1>5

\* _dialogue: fills slots, asks the next question or the calendar.
LEMMA DialogueKeeps ==
  ASSUME AgentInv, _dialogue
  PROVE  AgentInv'
<1> DEFINE st     == run.st
           node   == IF st.node = "greeting" THEN "intent" ELSE st.node
           slots  == _extract_slots(run.says, st.slots)
           intent == IF st.intent = "unknown" THEN _classify_intent(run.says, slots) ELSE st.intent
           asked  == st.intent = "unknown" /\ intent # "unknown"
           at     == IF asked THEN "qualify" ELSE node
           next   == NextQuestion(at, intent, slots)
           said   == Assigned(node, st.slots, slots)
                       \o (IF asked THEN <<Var(node, "intent", intent)>> ELSE <<>>)
           new    == [st EXCEPT !.slots = slots, !.intent = intent]
           asks   == [new EXCEPT !.node = next]
           offers == [new EXCEPT !.node = "schedule", !.proposed = propose(slots.urgency)]
<1>1. /\ run.at = "dialogue"
      /\ \/ next # "propose" /\ emit(said) /\ GoesOn("respond", asks)
         \/ next = "propose" /\ emit(said \o Tool(at)) /\ GoesOn("respond", offers)
         \/ next = "propose" /\ emit(Append(said, Tool(at)[1])) /\ Aborts
      /\ UNCHANGED <<flushed, stream, bookings, message, turns, told, retried, unheard>>
  BY Zenon DEF _dialogue, tools
<1>2. /\ run.st \in AgentStateType /\ message \in Nat /\ Numbered /\ MessageInv /\ AttemptsInv
  BY Given
<1>3. st.node \in {"greeting", "intent", "qualify"}
  BY <1>1, <1>2 DEF AttemptsInv
<1>4. node \in {"intent", "qualify"} /\ at \in {"intent", "qualify"}
  BY <1>3
<1>5. node \in Nodes /\ at \in Nodes /\ at # "message"
  BY <1>4 DEF Nodes
<1>6. st.slots \in SlotsType /\ st.intent \in Texts
  BY <1>2, StateFields
<1> HIDE DEF st, node, at
<1>7. slots \in SlotsType
  BY <1>5, <1>6, PolicyTyped
<1> HIDE DEF slots
<1>8. intent \in Texts
  BY <1>5, <1>6, <1>7, PolicyTyped
<1> HIDE DEF intent
<1>9. next \in Nodes \cup {"propose"}
  BY <1>5, <1>7, PolicyTyped
<1> HIDE DEF next
<1>10. said \in Seq(Plain)
  <2>1. Assigned(node, st.slots, slots) \in Seq(Plain)
    BY <1>5, <1>6, <1>7, AssignedPlain
  <2> DEFINE e == Var(node, "intent", intent)
  <2>2. e \in Plain
    <3>1. "intent" \in Texts /\ node \in Nodes \cup {""}
      BY <1>5 DEF Texts
    <3>2. QED
      BY <1>8, <3>1, PlainEvents
  <2> HIDE DEF e, asked
  <2>3. (IF asked THEN <<e>> ELSE <<>>) \in Seq(Plain)
    BY <2>2, PlainSequences, Zenon
  <2>4. Assigned(node, st.slots, slots) \o (IF asked THEN <<e>> ELSE <<>>) \in Seq(Plain)
    BY <2>1, <2>3, PlainSequences, Zenon
  <2>5. QED
    BY <2>4 DEF e
<1> HIDE DEF said
<1>11. new \in AgentStateType /\ Carries(new)
  BY <1>2, <1>7, <1>8 DEF st, AgentStateType, Carries
<1> HIDE DEF new
<1>12. InGraph /\ message' \in Nat /\ message' = message
  BY <1>1, <1>2 DEF InGraph
<1>13. CASE next # "propose" /\ emit(said) /\ GoesOn("respond", asks)
  <2>1. asks \in AgentStateType /\ Carries(asks)
    BY <1>9, <1>11, <1>13, NewState
  <2> HIDE DEF asks
  <2>2. Grows /\ MessageInv'
    BY <1>2, <1>10, <1>12, <1>13, SaysPlain
  <2>3. QED
    BY <1>1, <1>12, <1>13, <2>1, <2>2, NodeKeeps
<1>14. CASE next = "propose" /\ emit(said \o Tool(at)) /\ GoesOn("respond", offers)
  <2>1. offers \in AgentStateType /\ Carries(offers)
    <3>1. propose(slots.urgency) \in Nat /\ "schedule" \in Nodes
      BY DEF propose, Nodes
    <3>2. QED
      BY <1>11, <3>1 DEF AgentStateType, Carries
  <2> HIDE DEF offers
  <2>2. said \o Tool(at) \in Seq(Plain)
    BY <1>5, <1>10, ToolPlain, PlainSequences, Zenon
  <2>3. Grows /\ MessageInv'
    BY <1>2, <1>12, <1>14, <2>2, SaysPlain
  <2>4. QED
    BY <1>1, <1>12, <1>14, <2>1, <2>3, NodeKeeps
<1>15. CASE next = "propose" /\ emit(Append(said, Tool(at)[1])) /\ Aborts
  <2>1. Append(said, Tool(at)[1]) \in Seq(Plain)
    BY <1>5, <1>10, ToolPlain, PlainSequences, Zenon
  <2>2. Grows /\ MessageInv'
    BY <1>2, <1>12, <1>15, <2>1, SaysPlain
  <2>3. QED
    BY <1>1, <1>12, <1>15, <2>2, NodeFails
<1>16. QED
  BY <1>1, <1>13, <1>14, <1>15

\* calendar.confirm: a slot is booked under the key, and stays.
LEMMA Confirms ==
  ASSUME bookings \in [Attempts -> Nat], NEW a \in Attempts, NEW slot \in Nat \ {0}, confirm(a, slot)
  PROVE  /\ bookings' \in [Attempts -> Nat]
         /\ bookings'[a] = IF bookings[a] = 0 THEN slot ELSE bookings[a]
         /\ \A k \in Attempts : k # a => bookings'[k] = bookings[k]
<1> HIDE DEF Attempts
<1>1. bookings[a] \in Nat
  OBVIOUS
<1>2. QED
  BY <1>1 DEF confirm

\* _schedule: books the slot the caller picked and drafts the reply, or fails.
LEMMA ScheduleKeeps ==
  ASSUME AgentInv, _schedule
  PROVE  AgentInv'
<1> DEFINE chosen  == _pick_slot(run.says, run.st.proposed)
           attempt == run.st.attempts + 1
           booked  == [run.st EXCEPT !.node = "confirm", !.attempts = attempt, !.reply = chosen]
<1>1. /\ run.at = "schedule" /\ UNCHANGED <<flushed, stream, message, turns, told, unheard>>
      /\ \/ GoesOn("respond", run.st) /\ UNCHANGED <<emitted, bookings, retried>>
         \/ /\ chosen # 0 /\ confirm(attempt, chosen) /\ emit(Tool("schedule"))
            /\ GoesOn("respond", booked) /\ UNCHANGED retried
         \/ /\ chosen # 0 /\ (confirm(attempt, chosen) \/ UNCHANGED bookings)
            /\ emit(<<Tool("schedule")[1]>>) /\ Aborts
            /\ retried' = retried \cup {attempt}
  BY Zenon DEF _schedule
<1>2. /\ run \in RunType /\ run.st \in AgentStateType /\ agent \in AgentStateType /\ message \in Nat
      /\ turns \in Nat /\ TablesTyped /\ AttemptsInv /\ BookedInv /\ MessageInv /\ Numbered
  BY Given
<1>3. agent.attempts \in Nat
  BY <1>2, StateFields
<1>4. /\ InGraph /\ run.st.attempts = agent.attempts /\ run.st.reply = 0 /\ ~Sending
      /\ agent.attempts < turns /\ turns <= MaxTurns /\ turns > 0
  BY <1>1, <1>2 DEF AttemptsInv, InGraph, InTurn, Sending
<1>5. attempt = agent.attempts + 1 /\ attempt \in Nat /\ attempt <= turns
  BY <1>2, <1>3, <1>4
<1>6. attempt \in Attempts
  BY <1>2, <1>3, <1>4, <1>5, AgentAssumption DEF Attempts
<1>7. chosen \in Nat
  BY DEF _pick_slot
<1>8. Tool("schedule")[1] \in Plain /\ Tool("schedule") \in Seq(Plain)
  <2>1. "schedule" \in Nodes
    BY DEF Nodes
  <2>2. QED
    BY <2>1, ToolPlain
<1>9. booked \in AgentStateType /\ booked.attempts = attempt /\ booked.reply = chosen
  <2>1. "confirm" \in Nodes
    BY DEF Nodes
  <2> HIDE DEF chosen
  <2>2. QED
    BY <1>2, <1>5, <1>7, <2>1 DEF AgentStateType
<1> HIDE DEF chosen, attempt, booked
<1>10. ASSUME NEW k \in Attempts
       PROVE  /\ told[k] # 0 => bookings[k] # 0 /\ (k \in retried \/ bookings[k] = told[k])
              /\ told[k] # 0 \/ k \in unheard => k <= agent.attempts
              /\ bookings[k] # 0 => told[k] # 0 \/ k \in retried \cup unheard
  BY <1>2, <1>4 DEF BookedInv
<1>11. told[attempt] = 0 /\ attempt \notin unheard
  <2>1. ~(attempt <= agent.attempts)
    BY <1>3, <1>5
  <2>2. QED
    BY <1>6, <1>10, <2>1
<1>12. Attempts' = Attempts
  BY DEF Attempts
<1>13. CASE GoesOn("respond", run.st) /\ UNCHANGED <<emitted, bookings, retried>>
  <2>1. Grows /\ MessageInv'
    BY <1>1, <1>2, <1>13, SaysNothing
  <2>2. QED
    BY <1>1, <1>2, <1>4, <1>13, <2>1, NodeKeeps DEF Carries
<1>14. CASE /\ chosen # 0 /\ confirm(attempt, chosen) /\ emit(Tool("schedule"))
            /\ GoesOn("respond", booked) /\ UNCHANGED retried
  <2>1. /\ run' \in RunType /\ run'.at = "respond" /\ run'.st = booked /\ agent' = agent
    BY <1>2, <1>9, <1>14, GoesOnFields DEF Places
  <2>2. Grows /\ MessageInv'
    BY <1>1, <1>2, <1>8, <1>14, SaysPlain
  <2>3. /\ bookings' \in [Attempts -> Nat]
        /\ bookings'[attempt] = IF bookings[attempt] = 0 THEN chosen ELSE bookings[attempt]
        /\ \A k \in Attempts : k # attempt => bookings'[k] = bookings[k]
    BY <1>2, <1>6, <1>7, <1>14, Confirms DEF TablesTyped
  <2>4. TablesTyped'
    BY <1>1, <1>2, <1>14, <2>3 DEF TablesTyped
  <2>5. AttemptsInv'
    BY <1>1, <1>2, <1>3, <1>4, <1>5, <1>9, <2>1 DEF AttemptsInv, InGraph, InTurn, Confirmed
  <2>6. Sending' /\ Draft' = booked /\ Confirmed(booked) = {attempt}
    BY <1>9, <1>14, <2>1 DEF Sending, Draft, Confirmed
  <2>7. Confirmed(Draft)' = {attempt} /\ Draft'.reply = chosen
    BY <1>9, <2>6 DEF Confirmed
  <2>8. bookings[attempt] # 0 => attempt \in retried
    BY <1>6, <1>10, <1>11
  <2>9. BookedInv'
    <3>1. ASSUME NEW k \in Attempts
          PROVE  /\ told[k] # 0 => bookings'[k] # 0 /\ (k \in retried \/ bookings'[k] = told[k])
                 /\ bookings'[k] # 0 => told[k] # 0 \/ k \in retried \cup unheard \/ k = attempt
      BY <1>10, <1>11, <2>3
    <3>2. bookings'[attempt] # 0 /\ (attempt \in retried \/ bookings'[attempt] = chosen)
      BY <1>14, <2>3, <2>8
    <3>3. QED
      BY <1>1, <1>6, <1>10, <1>12, <1>14, <2>1, <2>6, <2>7, <3>1, <3>2 DEF BookedInv
  <2>10. QED
    BY <1>1, <1>2, <2>1, <2>2, <2>4, <2>5, <2>9, Composes
<1>15. CASE /\ chosen # 0 /\ (confirm(attempt, chosen) \/ UNCHANGED bookings)
            /\ emit(<<Tool("schedule")[1]>>) /\ Aborts
            /\ retried' = retried \cup {attempt}
  <2>1. run' \in RunType /\ run'.at = "idle" /\ agent' = agent
    BY <1>15, AbortsFields
  <2>2. <<Tool("schedule")[1]>> \in Seq(Plain)
    BY <1>8, PlainSequences, Zenon
  <2>3. Grows /\ MessageInv'
    BY <1>1, <1>2, <1>15, <2>2, SaysPlain
  <2>4. /\ bookings' \in [Attempts -> Nat]
        /\ bookings[attempt] # 0 => bookings'[attempt] = bookings[attempt]
        /\ \A k \in Attempts : k # attempt => bookings'[k] = bookings[k]
    <3>1. CASE confirm(attempt, chosen)
      BY <1>2, <1>6, <1>7, <1>15, <3>1, Confirms DEF TablesTyped
    <3>2. CASE UNCHANGED bookings
      BY <1>2, <3>2 DEF TablesTyped
    <3>3. QED
      BY <1>15, <3>1, <3>2
  <2>5. TablesTyped'
    BY <1>1, <1>2, <1>6, <1>15, <2>4 DEF TablesTyped
  <2>6. AttemptsInv'
    BY <1>1, <1>2, <1>4, <2>1 DEF AttemptsInv, InGraph, InTurn
  <2>7. ~Sending'
    BY <2>1 DEF Sending
  <2>8. BookedInv'
    <3>1. ASSUME NEW k \in Attempts
          PROVE  /\ told[k] # 0 => bookings'[k] # 0 /\ (k \in retried' \/ bookings'[k] = told[k])
                 /\ bookings'[k] # 0 => told[k] # 0 \/ k \in retried' \cup unheard
      BY <1>10, <1>11, <1>15, <2>4
    <3>2. QED
      BY <1>1, <1>10, <1>12, <2>1, <2>7, <3>1 DEF BookedInv
  <2>9. QED
    BY <1>1, <1>2, <2>1, <2>3, <2>5, <2>6, <2>8, Composes
<1>16. QED
  BY <1>1, <1>13, <1>14, <1>15

\* A reply that is not sent leaves the booking it confirms among those not heard of.
LEMMA NotHeard ==
  ASSUME AgentInv, Sending, ~Sending', UNCHANGED <<bookings, told, retried>>, agent' = agent,
         Draft.attempts <= agent.attempts, unheard' = unheard \cup Confirmed(Draft)
  PROVE  BookedInv' /\ unheard' \in SUBSET Attempts
<1>1. BookedInv /\ TablesTyped
  BY Given
<1>2. \A k \in Confirmed(Draft) : k \in Attempts /\ k <= agent.attempts
  BY <1>1 DEF BookedInv, Confirmed
<1>3. Attempts' = Attempts
  BY DEF Attempts
<1>4. ASSUME NEW k \in Attempts
      PROVE  /\ told[k] # 0 => bookings[k] # 0 /\ (k \in retried \/ bookings[k] = told[k])
             /\ told[k] # 0 \/ k \in unheard' => k <= agent.attempts
             /\ bookings[k] # 0 => told[k] # 0 \/ k \in retried \cup unheard'
  BY <1>1, <1>2 DEF BookedInv
<1>5. QED
  BY <1>1, <1>2, <1>3, <1>4 DEF BookedInv, TablesTyped

\* _respond: the copy becomes the state, or the turn and its booking are lost.
LEMMA RespondKeeps ==
  ASSUME AgentInv, _respond
  PROVE  AgentInv'
<1> DEFINE blockedEv(b) == IF b THEN <<Event("error.raised", run.st.node)>> ELSE <<>>
           moved == IF run.st.node # run.from
                    THEN <<Event("node.exited", run.from), Event("node.entered", run.st.node)>>
                    ELSE <<>>
           done == <<Event("agent.turn.completed", run.st.node)>>
           quiet == [run.st EXCEPT !.reply = 0]
           says(b) == /\ agent' = IF b THEN quiet ELSE run.st
                      /\ unheard' = IF b THEN unheard \cup Confirmed(run.st) ELSE unheard
<1>1. /\ run.at = "respond" /\ UNCHANGED <<flushed, stream, bookings, message, turns, told>>
      /\ \/ /\ \E b \in BOOLEAN : emit(blockedEv(b) \o moved \o done) /\ says(b)
            /\ run' = [Idle EXCEPT !.at = "flush"] /\ UNCHANGED retried
         \/ /\ Aborts /\ UNCHANGED <<emitted, unheard>>
            /\ retried' = retried \cup Confirmed(run.st)
  BY Zenon DEF _respond, tools
<1>2. /\ run \in RunType /\ run.st \in AgentStateType /\ agent \in AgentStateType /\ message \in Nat
      /\ run.from \in Nodes \cup {""}
      /\ turns \in Nat /\ TablesTyped /\ AttemptsInv /\ BookedInv /\ MessageInv /\ Numbered
  BY Given
<1>3. agent.attempts \in Nat /\ run.st.attempts \in Nat /\ run.st.node \in Nodes
  BY <1>2, StateFields
<1>4. /\ run.st.attempts \in {agent.attempts, agent.attempts + 1} /\ Draft = run.st /\ Sending
      /\ agent.attempts < turns /\ turns <= MaxTurns
  BY <1>1, <1>2 DEF AttemptsInv, InTurn, Draft, Sending
<1>5. ASSUME NEW k \in Attempts
      PROVE  /\ told[k] # 0 => bookings[k] # 0 /\ (k \in retried \/ bookings[k] = told[k])
             /\ told[k] # 0 \/ k \in unheard => k <= agent.attempts
             /\ bookings[k] # 0 => told[k] # 0 \/ k \in retried \cup unheard \cup Confirmed(run.st)
  BY <1>2, <1>4 DEF BookedInv
<1>6. \A k \in Confirmed(run.st) : /\ k \in Attempts /\ k = run.st.attempts /\ bookings[k] # 0
                                   /\ k \in retried \/ bookings[k] = run.st.reply
  BY <1>2, <1>4 DEF BookedInv, Confirmed
<1>7. Attempts' = Attempts
  BY DEF Attempts
<1>8. CASE /\ \E b \in BOOLEAN : emit(blockedEv(b) \o moved \o done) /\ says(b)
           /\ run' = [Idle EXCEPT !.at = "flush"] /\ UNCHANGED retried
  <2>1. PICK b \in BOOLEAN : emit(blockedEv(b) \o moved \o done) /\ says(b)
    BY <1>8
  <2>2. blockedEv(b) \o moved \o done \in Seq(Plain)
    <3> DEFINE e1 == Event("error.raised", run.st.node)
               e2 == Event("node.exited", run.from)
               e3 == Event("node.entered", run.st.node)
               e4 == Event("agent.turn.completed", run.st.node)
    <3>1. e1 \in Plain /\ e2 \in Plain /\ e3 \in Plain /\ e4 \in Plain
      <4>1. "" \in Texts /\ run.st.node \in Nodes \cup {""}
        BY <1>3 DEF Texts
      <4>2. QED
        BY <1>2, <4>1, PlainEvents
    <3> HIDE DEF e1, e2, e3, e4
    <3>2. (IF b THEN <<e1>> ELSE <<>>) \in Seq(Plain)
      BY <3>1, PlainSequences, Zenon
    <3>3. (IF run.st.node # run.from THEN <<e2, e3>> ELSE <<>>) \in Seq(Plain)
      BY <3>1, PlainSequences, Zenon
    <3>4. <<e4>> \in Seq(Plain)
      BY <3>1, PlainSequences, Zenon
    <3>5. blockedEv(b) \in Seq(Plain) /\ moved \in Seq(Plain) /\ done \in Seq(Plain)
      BY <3>2, <3>3, <3>4 DEF e1, e2, e3, e4
    <3> HIDE DEF blockedEv, moved, done
    <3>6. QED
      BY <3>5, PlainSequences, Zenon
  <2> HIDE DEF blockedEv, moved, done
  <2>3. Grows /\ MessageInv'
    BY <1>1, <1>2, <2>1, <2>2, SaysPlain
  <2>4. run' \in RunType /\ run'.at = "flush"
    <3>1. "flush" \in Places
      BY DEF Places
    <3>2. QED
      BY <1>8, <3>1, IdleTyped DEF RunType
  <2>5. quiet \in AgentStateType /\ quiet.attempts = run.st.attempts /\ quiet.reply = 0
    BY <1>2 DEF AgentStateType
  <2> HIDE DEF quiet
  <2>6. /\ agent' \in AgentStateType /\ agent'.attempts = run.st.attempts
        /\ Sending' /\ Draft' = agent'
    BY <1>2, <2>1, <2>4, <2>5 DEF Sending, Draft
  <2>7. TablesTyped'
    BY <1>1, <1>2, <1>6, <1>7, <1>8, <2>1 DEF TablesTyped
  <2>8. AttemptsInv'
    <3>1. agent.attempts + 1 <= turns
      <4>1. agent.attempts \in Nat /\ turns \in Nat /\ agent.attempts < turns
        BY <1>2, <1>3, <1>4
      <4>2. QED
        BY <4>1
    <3>2. run.st.attempts <= turns
      <4>1. /\ agent.attempts \in Nat /\ turns \in Nat /\ run.st.attempts \in Nat
            /\ run.st.attempts \in {agent.attempts, agent.attempts + 1}
        BY <1>2, <1>3, <1>4
      <4>2. QED
        BY <3>1, <4>1
    <3>3. agent'.attempts <= turns' /\ turns' <= MaxTurns
      BY <1>1, <1>4, <2>6, <3>2
    <3>4. QED
      BY <2>4, <3>3 DEF AttemptsInv, InGraph, InTurn
  <2>9. \A k \in Attempts : k <= agent.attempts => k <= run.st.attempts
    <3>1. \A k \in Attempts : k \in Nat
      BY DEF Attempts
    <3>2. QED
      BY <1>3, <1>4, <3>1
  <2>10. BookedInv'
    <3>1. CASE b
      <4>1. Confirmed(Draft)' = {}
        BY <2>1, <2>5, <2>6, <3>1 DEF Confirmed
      <4>2. unheard' = unheard \cup Confirmed(run.st)
        BY <2>1, <3>1
      <4>3. ASSUME NEW k \in Attempts
            PROVE  /\ told[k] # 0 \/ k \in unheard' => k <= run.st.attempts
                   /\ bookings[k] # 0 => told[k] # 0 \/ k \in retried \cup unheard'
        <5>1. k \in Confirmed(run.st) => k <= run.st.attempts
          BY <1>3, <1>6
        <5>2. QED
          BY <1>5, <2>9, <4>2, <5>1
      <4>4. QED
        BY <1>1, <1>5, <1>7, <1>8, <2>6, <4>1, <4>3 DEF BookedInv
    <3>2. CASE ~b
      <4>1. agent' = run.st /\ unheard' = unheard
        BY <2>1, <3>2
      <4>2. Confirmed(Draft)' = Confirmed(run.st) /\ Draft' = run.st
        BY <2>6, <4>1 DEF Confirmed
      <4>3. ASSUME NEW k \in Attempts
            PROVE  told[k] # 0 \/ k \in unheard => k <= run.st.attempts
        BY <1>5, <2>9
      <4>4. QED
        BY <1>1, <1>5, <1>6, <1>7, <1>8, <2>6, <4>1, <4>2, <4>3 DEF BookedInv
    <3>3. QED
      BY <3>1, <3>2
  <2>11. QED
    BY <1>1, <1>2, <2>3, <2>4, <2>6, <2>7, <2>8, <2>10, Composes
<1>9. CASE /\ Aborts /\ UNCHANGED <<emitted, unheard>>
           /\ retried' = retried \cup Confirmed(run.st)
  <2>1. run' \in RunType /\ run'.at = "idle" /\ agent' = agent
    BY <1>9, AbortsFields
  <2>2. Grows /\ MessageInv'
    BY <1>1, <1>2, <1>9, SaysNothing
  <2>3. TablesTyped'
    BY <1>1, <1>2, <1>6, <1>7, <1>9 DEF TablesTyped
  <2>4. AttemptsInv'
    BY <1>1, <1>2, <1>4, <2>1 DEF AttemptsInv, InGraph, InTurn
  <2>5. ~Sending'
    BY <2>1 DEF Sending
  <2>6. BookedInv'
    <3>1. ASSUME NEW k \in Attempts
          PROVE  /\ told[k] # 0 => bookings[k] # 0 /\ (k \in retried' \/ bookings[k] = told[k])
                 /\ bookings[k] # 0 => told[k] # 0 \/ k \in retried' \cup unheard
      BY <1>5, <1>9
    <3>2. QED
      BY <1>1, <1>5, <1>7, <1>9, <2>1, <2>5, <3>1 DEF BookedInv
  <2>7. QED
    BY <1>1, <1>2, <2>1, <2>2, <2>3, <2>4, <2>6, Composes
<1>10. QED
  BY <1>1, <1>8, <1>9

\* _screen: a turn begins on a copy of the state, or is refused.
LEMMA ScreenKeeps ==
  ASSUME AgentInv, NEW u \in Utterances, _screen(u)
  PROVE  AgentInv'
<1> DEFINE first    == agent.turn = 0
           switched == u.speaks \notin {"none", agent.locale}
           locale   == IF u.speaks = "none" THEN agent.locale ELSE u.speaks
           next     == _route(agent.node, u.says)
           detected == IF first THEN <<Locale("language.detected", agent.node, locale)>>
                       ELSE IF switched THEN <<Locale("language.switched", agent.node, locale)>>
                       ELSE <<>>
           heard    == Event("stt.final", agent.node)
           st       == [agent EXCEPT !.turn = @ + 1, !.locale = locale, !.reply = 0]
<1>1. /\ run.at = "idle" /\ turns < MaxTurns /\ turns' = turns + 1
      /\ emit(Append(detected, heard))
      /\ \/ next = "done" /\ Aborts
         \/ /\ next # "done" /\ agent' = agent
            /\ run' = [at |-> next, says |-> u.says, from |-> agent.node, st |-> st]
      /\ UNCHANGED <<flushed, stream, bookings, message, told, retried, unheard>>
  BY Zenon DEF _screen, tools
<1>2. /\ agent \in AgentStateType /\ message \in Nat
      /\ turns \in Nat /\ TablesTyped /\ AttemptsInv /\ BookedInv /\ MessageInv /\ Numbered
  BY Given
<1>3. agent.turn \in Nat /\ agent.attempts \in Nat /\ agent.node \in Nodes /\ agent.locale \in Texts
  BY <1>2, StateFields
<1>4. u.says \in SUBSET Words /\ u.speaks \in Texts
  <2>1. u \in [speaks : {"en", "fr", "none"}, says : SUBSET Words]
    BY AgentAssumption
  <2>2. u.says \in SUBSET Words /\ u.speaks \in {"en", "fr", "none"}
    BY <2>1
  <2>3. QED
    BY <2>2 DEF Texts
<1>5. locale \in Texts
  BY <1>3, <1>4
<1>6. /\ st \in AgentStateType /\ st.attempts = agent.attempts /\ st.node = agent.node
      /\ st.reply = 0
  <2> HIDE DEF locale
  <2>1. agent.turn + 1 \in Nat
    BY <1>3
  <2>2. st = [agent EXCEPT !.turn = agent.turn + 1, !.locale = locale, !.reply = 0]
    OBVIOUS
  <2> HIDE DEF st
  <2>3. QED
    BY <1>2, <1>5, <2>1, <2>2 DEF AgentStateType
<1>7. /\ next \in {"transfer", "dialogue", "schedule", "message", "confirm", "done"}
      /\ next = "dialogue" => agent.node \in {"greeting", "intent", "qualify"}
  BY <1>3 DEF _route, Nodes
<1> HIDE DEF next, st, locale, first, switched
<1>8. Append(detected, heard) \in Seq(Plain)
  <2> DEFINE a == Locale("language.detected", agent.node, locale)
             b == Locale("language.switched", agent.node, locale)
  <2>1. a \in Plain /\ b \in Plain /\ heard \in Plain
    <3>1. agent.node \in Nodes \cup {""}
      BY <1>3
    <3>2. QED
      BY <1>5, <3>1, PlainEvents
  <2> HIDE DEF a, b
  <2>2. (IF first THEN <<a>> ELSE IF switched THEN <<b>> ELSE <<>>) \in Seq(Plain)
    BY <2>1, PlainSequences, Zenon
  <2>3. detected \in Seq(Plain)
    BY <2>2 DEF a, b
  <2> HIDE DEF detected, heard
  <2>4. QED
    BY <2>1, <2>3, PlainSequences, Zenon
<1> HIDE DEF detected, heard
<1>9. Grows /\ MessageInv'
  BY <1>1, <1>2, <1>8, SaysPlain
<1>10. TablesTyped' /\ turns' \in Nat /\ message' \in Nat
  BY <1>1, <1>2 DEF TablesTyped
<1>11. run' \in RunType /\ agent' = agent
  <2>1. CASE next = "done" /\ Aborts
    BY <2>1, AbortsFields
  <2>2. CASE /\ next # "done" /\ agent' = agent
             /\ run' = [at |-> next, says |-> u.says, from |-> agent.node, st |-> st]
    <3>1. next \in Places
      BY <1>7, <2>2 DEF Places
    <3>2. agent.node \in Nodes \cup {""}
      BY <1>3
    <3>3. QED
      BY <1>4, <1>6, <2>2, <3>1, <3>2 DEF RunType
  <2>3. QED
    BY <1>1, <2>1, <2>2
<1>12. \/ run'.at = "idle"
       \/ /\ run'.at \in {"transfer", "dialogue", "schedule", "message", "confirm"}
          /\ run'.at = "dialogue" => agent.node \in {"greeting", "intent", "qualify"}
          /\ run'.st = st
  BY <1>1, <1>7, AbortsFields
<1>13. AttemptsInv'
  <2>1. agent.attempts <= turns /\ turns' = turns + 1 /\ turns < MaxTurns /\ MaxTurns \in Nat
    BY <1>1, <1>2, AgentAssumption DEF AttemptsInv
  <2>2. agent'.attempts < turns' /\ turns' <= MaxTurns /\ turns' > 0 /\ agent'.attempts <= turns'
    BY <1>2, <1>3, <1>11, <2>1
  <2>3. run'.at # "respond"
    BY <1>12
  <2>4. (InGraph => run.st.attempts = agent.attempts /\ run.st.reply = 0)'
    BY <1>6, <1>11, <1>12 DEF InGraph
  <2>5. run'.at = "dialogue" => run'.st.node \in {"greeting", "intent", "qualify"}
    BY <1>6, <1>12
  <2>6. QED
    BY <2>2, <2>3, <2>4, <2>5 DEF AttemptsInv
<1>14. ~Sending /\ ~Sending'
  BY <1>1, <1>12 DEF Sending
<1>15. BookedInv'
  BY <1>1, <1>2, <1>11, <1>14, NothingToConfirm
<1>16. QED
  BY <1>1, <1>2, <1>9, <1>10, <1>11, <1>13, <1>15, Composes

\* on_turn: the reply has gone out, or the socket refused it.
LEMMA OnTurnKeeps ==
  ASSUME AgentInv, on_turn
  PROVE  AgentInv'
<1> DEFINE said == [k \in Attempts |-> IF k \in Confirmed(agent) THEN agent.reply ELSE told[k]]
<1>1. /\ run.at = "send" /\ run' = Idle /\ agent' = agent
      /\ UNCHANGED <<emitted, flushed, stream, bookings, message, turns, retried>>
      /\ \/ told' = said /\ UNCHANGED unheard
         \/ unheard' = unheard \cup Confirmed(agent) /\ UNCHANGED told
  BY Zenon DEF on_turn, tools
<1>2. /\ agent \in AgentStateType /\ message \in Nat
      /\ turns \in Nat /\ TablesTyped /\ AttemptsInv /\ BookedInv /\ MessageInv /\ Numbered
  BY Given
<1>3. run' \in RunType /\ run'.at = "idle" /\ Sending /\ ~Sending' /\ Draft = agent
  BY <1>1, IdleTyped DEF Sending, Draft
<1>4. Grows /\ MessageInv'
  BY <1>1, <1>2, SaysNothing
<1>5. AttemptsInv'
  BY <1>1, <1>2, <1>3 DEF AttemptsInv, InGraph, InTurn
<1>6. agent.attempts \in Nat /\ agent.reply \in Nat
  BY <1>2, StateFields
<1>7. BookedInv' /\ TablesTyped'
  <2>1. CASE told' = said /\ UNCHANGED unheard
    <3>1. said \in [Attempts -> Nat]
      <4> HIDE DEF Attempts
      <4>1. QED
        BY <1>2, <1>6 DEF TablesTyped
    <3>2. Attempts' = Attempts
      BY DEF Attempts
    <3>3. ASSUME NEW k \in Attempts
          PROVE  /\ told'[k] # 0 => bookings[k] # 0 /\ (k \in retried \/ bookings[k] = told'[k])
                 /\ told'[k] # 0 \/ k \in unheard => k <= agent.attempts
                 /\ bookings[k] # 0 => told'[k] # 0 \/ k \in retried \cup unheard
      <4>1. CASE k \in Confirmed(agent)
        <5>1. told'[k] = agent.reply /\ agent.reply # 0 /\ k = agent.attempts
          BY <2>1, <4>1 DEF Confirmed
        <5>2. bookings[k] # 0 /\ (k \in retried \/ bookings[k] = agent.reply)
          BY <1>2, <1>3, <4>1 DEF BookedInv
        <5>3. QED
          BY <1>6, <5>1, <5>2
      <4>2. CASE k \notin Confirmed(agent)
        <5>1. told'[k] = told[k]
          BY <2>1, <4>2
        <5>2. QED
          BY <1>2, <1>3, <4>2, <5>1 DEF BookedInv
      <4>3. QED
        BY <4>1, <4>2
    <3>4. BookedInv'
      BY <1>1, <1>3, <2>1, <3>2, <3>3 DEF BookedInv
    <3>5. QED
      BY <1>1, <1>2, <2>1, <3>1, <3>2, <3>4 DEF TablesTyped
  <2>2. CASE unheard' = unheard \cup Confirmed(agent) /\ UNCHANGED told
    <3>1. BookedInv' /\ unheard' \in SUBSET Attempts
      BY <1>1, <1>3, <1>6, <2>2, NotHeard
    <3>2. QED
      BY <1>1, <1>2, <2>2, <3>1 DEF TablesTyped, Attempts
  <2>3. QED
    BY <1>1, <2>1, <2>2
<1>8. QED
  BY <1>1, <1>2, <1>3, <1>4, <1>5, <1>7, Composes

-----------------------------------------------------------------------------
(* The stream.                                                             *)

\* The gateway's call.started is not of the session.
LEMMA CallStartedKeeps ==
  ASSUME AgentInv, CallStarted
  PROVE  AgentInv'
<1> DEFINE e == [Envelope(Event("call.started", ""), 1) EXCEPT
                   !.id = IF emitted = <<>> THEN @ - 1 ELSE @ + 1]
<1>1. /\ stream' = stream \cup {e}
      /\ UNCHANGED <<agent, run, emitted, flushed, bookings, message, turns, told, retried, unheard>>
  BY Zenon DEF CallStarted, tools, bounds, history
<1>2. e.type = "call.started"
  BY DEF Envelope, Event
<1> HIDE DEF e
<1>3. Mine' = Mine
  BY <1>1, <1>2 DEF Mine
<1>4. StreamInv'
  <2>1. /\ \A i \in 1 .. Len(emitted) : emitted[i].seq = i /\ Own(emitted[i])
        /\ \E n \in flushed .. Len(emitted) : Mine = Emitted(1, n)
    BY DEF AgentInv, StreamInv
  <2>2. \A n : Emitted(1, n)' = Emitted(1, n)
    BY <1>1 DEF Emitted
  <2>3. QED
    BY <1>1, <1>3, <2>1, <2>2 DEF StreamInv, Own
<1>5. TypeInv' /\ AttemptsInv' /\ BookedInv' /\ MessageInv'
  BY <1>1 DEF AgentInv, TypeInv, AttemptsInv, InTurn, InGraph, BookedInv, Sending, Draft,
              Confirmed, MessageInv, Passed
<1>6. QED
  BY <1>4, <1>5 DEF AgentInv

\* Events published from where the last complete flush ended close every gap.
LEMMA PublishesOn ==
  ASSUME AgentInv, NEW m \in flushed .. Len(emitted), UNCHANGED emitted,
         stream' = stream \cup Emitted(flushed + 1, m)
  PROVE  \E n \in m .. Len(emitted) : Mine' = Emitted(1, n)
<1>1. /\ emitted \in Seq(EnvelopeType) /\ flushed \in Nat
      /\ \A i \in 1 .. Len(emitted) : Own(emitted[i])
  BY DEF AgentInv, TypeInv, StreamInv
<1>2. PICK n \in flushed .. Len(emitted) : Mine = Emitted(1, n)
  BY DEF AgentInv, StreamInv
<1>3. /\ Len(emitted) \in Nat /\ n \in Nat /\ m \in Nat /\ flushed \in Nat
      /\ flushed <= n /\ flushed <= m
  BY <1>1, LenProperties
<1>4. \A k \in (flushed + 1) .. m : Own(emitted[k])
  BY <1>1, <1>3
<1>5. Mine' = Mine \cup Emitted(flushed + 1, m)
  <2>1. \A e \in Emitted(flushed + 1, m) : e.type # "call.started"
    BY <1>4 DEF Emitted, Own
  <2> DEFINE more == Emitted(flushed + 1, m)
  <2> HIDE DEF more
  <2>2. stream' = stream \cup more /\ \A e \in more : e.type # "call.started"
    BY <2>1 DEF more
  <2>3. Mine' = Mine \cup more
    BY <2>2 DEF Mine
  <2>4. QED
    BY <2>3 DEF more
<1> DEFINE top == IF n < m THEN m ELSE n
<1>6. top \in m .. Len(emitted) /\ (1 .. n) \cup ((flushed + 1) .. m) = 1 .. top
  <2>1. top \in m .. Len(emitted) /\ top \in n .. Len(emitted) /\ (top = m \/ top = n)
    BY <1>3
  <2> HIDE DEF top
  <2>2. \A k : k \in (1 .. n) \cup ((flushed + 1) .. m) <=> k \in 1 .. top
    BY <1>3, <2>1
  <2>3. QED
    BY <2>1, <2>2
<1> HIDE DEF top
<1>7. Emitted(1, n) \cup Emitted(flushed + 1, m) = Emitted(1, top)
  BY <1>6 DEF Emitted
<1>8. QED
  BY <1>2, <1>5, <1>6, <1>7

\* _flush_events: all is out, or some of it and the next flush begins again.
LEMMA FlushKeeps ==
  ASSUME AgentInv, _flush_events
  PROVE  AgentInv'
<1>1. /\ run.at = "flush" /\ UNCHANGED <<agent, emitted, bookings, message, turns, told, retried>>
      /\ \/ /\ stream' = stream \cup Emitted(flushed + 1, Len(emitted))
            /\ flushed' = Len(emitted) /\ run' = [run EXCEPT !.at = "send"] /\ UNCHANGED unheard
         \/ /\ \E n \in flushed .. Len(emitted) : stream' = stream \cup Emitted(flushed + 1, n)
            /\ run' = Idle /\ flushed' = flushed /\ unheard' = unheard \cup Confirmed(agent)
  BY Zenon DEF _flush_events, tools
<1>2. TypeInv /\ run \in RunType /\ flushed \in Nat /\ Len(emitted) \in Nat /\ flushed <= Len(emitted)
  <2>1. TypeInv /\ run \in RunType /\ flushed \in Nat
    BY DEF AgentInv, TypeInv
  <2>2. Len(emitted) \in Nat
    BY <2>1, LenProperties DEF TypeInv
  <2>3. PICK n \in flushed .. Len(emitted) : Mine = Emitted(1, n)
    BY DEF AgentInv, StreamInv
  <2>4. QED
    BY <2>1, <2>2, <2>3
<1>3. run' \in RunType /\ run'.at \in {"send", "idle"}
  <2>1. "send" \in Places
    BY DEF Places
  <2>2. [run EXCEPT !.at = "send"] \in RunType /\ [run EXCEPT !.at = "send"].at = "send"
    BY <1>2, <2>1 DEF RunType
  <2>3. QED
    BY <1>1, <2>2, IdleTyped
<1>4. flushed' \in Nat /\ \E n \in flushed' .. Len(emitted) : Mine' = Emitted(1, n)
  <2>1. CASE /\ stream' = stream \cup Emitted(flushed + 1, Len(emitted))
             /\ flushed' = Len(emitted)
    <3>1. Len(emitted) \in flushed .. Len(emitted)
      BY <1>2
    <3>2. QED
      BY <1>1, <1>2, <2>1, <3>1, PublishesOn
  <2>2. CASE /\ \E n \in flushed .. Len(emitted) : stream' = stream \cup Emitted(flushed + 1, n)
             /\ flushed' = flushed
    <3>1. PICK m \in flushed .. Len(emitted) : stream' = stream \cup Emitted(flushed + 1, m)
      BY <2>2
    <3>2. PICK n \in m .. Len(emitted) : Mine' = Emitted(1, n)
      BY <1>1, <3>1, PublishesOn
    <3>3. n \in flushed' .. Len(emitted)
      BY <1>2, <2>2, <3>1, <3>2
    <3>4. QED
      BY <1>2, <2>2, <3>2, <3>3
  <2>3. QED
    BY <1>1, <2>1, <2>2
<1>5. StreamInv'
  <2>1. \A n : Emitted(1, n)' = Emitted(1, n)
    BY <1>1 DEF Emitted
  <2>2. QED
    BY <1>1, <1>4, <2>1 DEF AgentInv, StreamInv, Own
<1>6. AttemptsInv' /\ MessageInv'
  BY <1>1, <1>3 DEF AgentInv, AttemptsInv, InTurn, InGraph, MessageInv, Passed
<1>7. Sending /\ Draft = agent
  BY <1>1 DEF Sending, Draft
<1>8. BookedInv' /\ unheard' \in SUBSET Attempts
  <2>1. CASE run' = [run EXCEPT !.at = "send"] /\ UNCHANGED unheard
    <3>1. Sending' /\ Draft' = Draft /\ Confirmed(Draft)' = Confirmed(Draft)
      BY <1>1, <1>2, <1>7, <2>1 DEF Sending, Draft, Confirmed, RunType
    <3>2. Attempts' = Attempts
      BY DEF Attempts
    <3>3. BookedInv /\ TablesTyped
      BY Given
    <3>4. QED
      BY <1>1, <1>7, <2>1, <3>1, <3>2, <3>3 DEF BookedInv, TablesTyped
  <2>2. CASE run' = Idle /\ unheard' = unheard \cup Confirmed(agent)
    <3>1. ~Sending'
      BY <2>2, IdleTyped DEF Sending
    <3>2. agent.attempts <= agent.attempts
      <4>1. agent.attempts \in Nat
        BY Given, StateFields
      <4>2. QED
        BY <4>1
    <3>3. QED
      BY <1>1, <1>7, <2>2, <3>1, <3>2, NotHeard
  <2>3. QED
    BY <1>1, <2>1, <2>2
<1>9. TypeInv'
  BY <1>1, <1>2, <1>3, <1>4, <1>8 DEF TypeInv, Attempts
<1>10. QED
  BY <1>5, <1>6, <1>8, <1>9 DEF AgentInv

-----------------------------------------------------------------------------
(* The theorems.                                                           *)

\* call.start: nothing has been said, emitted or booked.
LEMMA Initially ==
  ASSUME Init
  PROVE  AgentInv
<1>1. /\ agent = AgentState /\ run = Idle /\ emitted = <<>> /\ flushed = 0 /\ stream = {}
      /\ bookings = None /\ message = 0 /\ turns = 0 /\ told = None /\ retried = {}
      /\ unheard = {}
  BY DEF Init
<1>2. Len(emitted) = 0 /\ emitted \in Seq(EnvelopeType)
  BY <1>1, EmptySeq
<1>3. None \in [Attempts -> Nat] /\ \A k \in Attempts : None[k] = 0
  BY DEF None
<1>4. TypeInv
  BY <1>1, <1>2, <1>3, IdleTyped DEF TypeInv
<1>5. StreamInv
  <2>1. Mine = {} /\ Emitted(1, 0) = {} /\ 0 \in flushed .. Len(emitted)
    BY <1>1, <1>2 DEF Mine, Emitted
  <2>2. QED
    BY <1>2, <2>1 DEF StreamInv
<1>6. AttemptsInv
  BY <1>1, IdleTyped, AgentAssumption DEF AttemptsInv, InTurn, InGraph
<1>7. BookedInv /\ MessageInv
  BY <1>1, <1>2, <1>3, IdleTyped DEF BookedInv, Sending, MessageInv
<1>8. QED
  BY <1>4, <1>5, <1>6, <1>7 DEF AgentInv

\* In every reachable state the stream holds the session's first events, a booking
\* is one the caller was or is to be told of, one of a failed turn or one whose reply
\* was lost, and a message that was passed on is kept (graph.py, events.py, bridge.py).
THEOREM AgentInvariant == Spec => []AgentInv
<1>1. ASSUME AgentInv, [Next]_vars
      PROVE  AgentInv'
  <2>1. CASE CallStarted
    BY <1>1, <2>1, CallStartedKeeps
  <2>2. CASE \E u \in Utterances : _screen(u)
    BY <1>1, <2>2, ScreenKeeps
  <2>3. CASE _transfer
    BY <1>1, <2>3, TransferKeeps
  <2>4. CASE _dialogue
    BY <1>1, <2>4, DialogueKeeps
  <2>5. CASE _schedule
    BY <1>1, <2>5, ScheduleKeeps
  <2>6. CASE _message
    BY <1>1, <2>6, MessageKeeps
  <2>7. CASE _confirm
    BY <1>1, <2>7, ConfirmKeeps
  <2>8. CASE _respond
    BY <1>1, <2>8, RespondKeeps
  <2>9. CASE _flush_events
    BY <1>1, <2>9, FlushKeeps
  <2>10. CASE on_turn
    BY <1>1, <2>10, OnTurnKeeps
  <2>11. CASE UNCHANGED vars
    <3>1. UNCHANGED <<agent, run, emitted, flushed, stream, bookings, message, turns, told, retried, unheard>>
      BY <2>11 DEF vars, tools, bounds, history
    <3>2. \A n : Emitted(1, n)' = Emitted(1, n)
      BY <3>1 DEF Emitted
    <3>3. StreamInv'
      BY <1>1, <3>1, <3>2 DEF AgentInv, StreamInv, Mine, Own
    <3>4. TypeInv' /\ AttemptsInv' /\ BookedInv' /\ MessageInv'
      BY <1>1, <3>1 DEF AgentInv, TypeInv, AttemptsInv, InTurn, InGraph, BookedInv, Sending, Draft,
                  Confirmed, MessageInv, Passed
    <3>5. QED
      BY <3>3, <3>4 DEF AgentInv
  <2>12. QED
    BY <1>1, <2>1, <2>2, <2>3, <2>4, <2>5, <2>6, <2>7, <2>8, <2>9, <2>10, <2>11, Zenon DEF Next
<1>2. QED
  BY <1>1, Initially, PTL DEF Spec

\* The first n events are n, one for each number.
LEMMA OneEventPerNumber ==
  ASSUME TypeInv, StreamInv, NEW n \in 0 .. Len(emitted)
  PROVE  {e.seq : e \in Emitted(1, n)} = 1 .. n /\ Cardinality(Emitted(1, n)) = n
<1>1. Len(emitted) \in Nat /\ n \in Nat
  BY LenProperties DEF TypeInv
<1>2. \A k \in 1 .. n : emitted[k].seq = k
  BY <1>1 DEF StreamInv
<1>3. {e.seq : e \in Emitted(1, n)} = 1 .. n
  BY <1>2 DEF Emitted
<1> DEFINE S == 1 .. n
           T == Emitted(1, n)
           f == [k \in S |-> emitted[k]]
<1>4. f \in [S -> T] /\ \A k \in S : f[k].seq = k
  BY <1>2 DEF Emitted
<1>5. \A t \in T : \E k \in S : f[k] = t
  BY DEF Emitted
<1> HIDE DEF f, S, T
<1>6. \A a, b \in S : f[a] = f[b] => a = b
  BY <1>4
<1>7. f \in Bijection(S, T)
  BY <1>4, <1>5, <1>6, Fun_IsBij
<1>8. ExistsBijection(1 .. n, T)
  BY <1>7, Fun_ExistsBij DEF S
<1>9. Cardinality(T) = n
  BY <1>1, <1>8, FS_CountingElements
<1>10. QED
  BY <1>3, <1>9 DEF T

\* What a session published is numbered from 1 without a gap, whatever failed and
\* was published again (EventEmitter.emit, CallSession._flush_events).
THEOREM StreamHasNoGapsTheorem == Spec => []StreamHasNoGaps
<1>1. ASSUME AgentInv
      PROVE  StreamHasNoGaps
  <2>1. PICK n \in flushed .. Len(emitted) : Mine = Emitted(1, n)
    BY <1>1 DEF AgentInv, StreamInv
  <2>2. TypeInv /\ StreamInv /\ flushed \in Nat /\ Len(emitted) \in Nat
    BY <1>1, LenProperties DEF AgentInv, TypeInv
  <2>3. n \in 0 .. Len(emitted) /\ flushed <= n
    BY <2>1, <2>2
  <2>4. {e.seq : e \in Mine} = 1 .. n /\ Cardinality(Mine) = n
    BY <2>1, <2>2, <2>3, OneEventPerNumber
  <2>5. {e.seq : e \in Mine} = 1 .. Cardinality(Mine) /\ flushed <= Cardinality(Mine)
    BY <2>3, <2>4
  <2>6. QED
    BY <2>5 DEF StreamHasNoGaps, Mine
<1>2. QED
  BY <1>1, AgentInvariant, PTL

\* What the caller was told is booked is booked; between turns a booking was told, but
\* for one of a failed turn and one whose reply was replaced or lost; a message the
\* stream says was passed on is kept (_schedule, _message, _respond, on_turn).
THEOREM ToldIsTrueTheorem == Spec => []ToldIsTrue
<1>1. ASSUME AgentInv
      PROVE  ToldIsTrue
  <2>1. \A k \in Attempts :
          /\ told[k] # 0 => bookings[k] # 0 /\ (k \in retried \/ bookings[k] = told[k])
          /\ run.at = "idle" /\ bookings[k] # 0 => told[k] # 0 \/ k \in retried \cup unheard
    BY <1>1 DEF AgentInv, BookedInv, Sending
  <2>2. ASSUME NEW i \in 1 .. flushed,
               emitted[i].type = "tool.completed" /\ emitted[i].node = "message"
        PROVE  message # 0
    <3>1. PICK n \in flushed .. Len(emitted) : Mine = Emitted(1, n)
      BY <1>1 DEF AgentInv, StreamInv
    <3>2. flushed \in Nat /\ Len(emitted) \in Nat
      BY <1>1, LenProperties DEF AgentInv, TypeInv
    <3>3. i \in 1 .. Len(emitted)
      BY <3>1, <3>2
    <3>4. QED
      BY <1>1, <2>2, <3>3 DEF AgentInv, MessageInv, Passed
  <2>3. QED
    BY <2>1, <2>2 DEF ToldIsTrue
<1>2. QED
  BY <1>1, AgentInvariant, PTL
=============================================================================
