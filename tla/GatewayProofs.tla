---------------------------- MODULE GatewayProofs ----------------------------
(***************************************************************************)
(* Proofs about the telephony gateway, for every set of calls, of tenants  *)
(* and of webhook retries:                                                 *)
(*   - the registry holds at most one session per call, and only sessions  *)
(*     that were added and have not removed themselves (TypeOK);           *)
(*   - a drain that reports success leaves no answered call behind, but    *)
(*     for one whose Answer timed out (DrainedMeansQuiet);                 *)
(*   - a session leaves its call ringing only when both attempts came too  *)
(*     late or the carrier refused the transfer (RingingOnlyLate).         *)
(*                                                                         *)
(* TypeOK is inductive.  The other two follow from what a session's phase  *)
(* says of its call at the carrier (QuietInv, RingInv).                    *)
(***************************************************************************)
EXTENDS Gateway, TLAPS

-----------------------------------------------------------------------------
(* The inductive invariants.                                               *)

Cancelling == server \in {"cancelling", "timedout"}

\* What keeps a call that is up from being forgotten: a session that holds
\* it, an Answer that timed out, or the deadline of the drain.
Kept(c) == \/ \E s \in Of(c) : phase[s] = "held" /\ s \notin cancelled
           \/ Of(c) \cap expired # {}
           \/ Cancelling

\* Every call that is up is kept; a context is cancelled for a caller who hung
\* up, or as a straggler.
CallsInv == /\ \A c \in Calls : hangup[c] = "handler" => call[c] = "ended"
            /\ \A s \in cancelled : call[s[1]] = "ended" \/ Cancelling
            /\ \A c \in Calls : call[c] = "answered" => Kept(c)

QuietInv == CallsInv /\ DrainedMeansQuiet

\* A webhook not served has no session, and one posted has a call.
PostInv ==
  \A s \in Sessions : /\ initiated[s] # "done" => phase[s] = "none"
                      /\ initiated[s] # "none" => call[s[1]] # "idle"

\* A held call is not ringing; a session that is over left its call ringing
\* for a reason.
RingInv ==
  \A s \in Sessions :
    /\ phase[s] = "held" => call[s[1]] # "ringing"
    /\ OwnerPhone /\ phase[s] \in {"remove", "gone"} /\ call[s[1]] = "ringing"
         => Done(s) \/ s[1] \in refused

-----------------------------------------------------------------------------
(* Types and the registry.                                                 *)

\* A session belongs to a call.
LEMMA SessionCall ==
  ASSUME NEW s \in Sessions
  PROVE  s[1] \in Calls /\ s \in Of(s[1]) /\ \A t \in Of(s[1]) : t \in Sessions /\ t[1] = s[1]
BY GatewayAssumption DEF Of

\* The sessions of a call, and no other, have it as their call.
LEMMA OfCall ==
  \A c : \A s \in Sessions : s \in Of(c) <=> s[1] = c
BY DEF Of

Typed == /\ call \in [Calls -> Carrier] /\ initiated \in [Sessions -> Posts]
         /\ hangup \in [Calls -> Posts]
         /\ phase \in [Sessions -> Phases]
         /\ {registry, cancelled, expired, displaced} \subseteq SUBSET Sessions
         /\ server \in Servers /\ timeUp \in BOOLEAN
         /\ refused \in SUBSET Calls

RegistryGood == \A s \in registry : /\ phase[s] \notin {"none", "gone"}
                                    /\ \A t \in registry \cap Of(s[1]) : t = s

\* TypeOK in two parts.
LEMMA TypeParts == TypeOK <=> Typed /\ RegistryGood
BY Zenon DEF TypeOK, Typed, RegistryGood

\* What the step of a session changes: its phase, perhaps its call at the
\* carrier, its deadline, and at its end its registry entry.
Lives(s, to) ==
  /\ phase[s] \in Running /\ phase' = [phase EXCEPT ![s] = to]
  /\ \/ call' = call
     \/ /\ call[s[1]] \in {"ringing", "answered"}
        /\ \E v \in {"answered", "transferred"} : call' = [call EXCEPT ![s[1]] = v]
  /\ expired' = expired \/ expired' = expired \cup {s}
  /\ refused' = refused \/ refused' = refused \cup {s[1]}
  /\ \/ to \in Running /\ UNCHANGED <<registry, displaced>>
     \/ to = "gone" /\ remove(s)

\* Each step of a session's goroutine (onAnswered, answer, hold, transfer,
\* remove) is a move from one point of its life to the next.
LEMMA SessionLives ==
  ASSUME NEW s \in Sessions, Session(s)
  PROVE  \E to \in Running \cup {"gone"} : Lives(s, to)
<1>1. /\ "held" \in Running /\ "transfer" \in Running /\ "remove" \in Running /\ "answer" \in Running
      /\ "ringing" \in {"ringing", "answered"}
      /\ "answered" \in {"answered", "transferred"} /\ "transferred" \in {"answered", "transferred"}
  BY DEF Running
<1>2. \A to \in Running : (\E t \in Running \cup {"gone"} : t = to)
  OBVIOUS
<1>3. AnswerOk(s) => Lives(s, "held")
  BY <1>1, Zenon DEF AnswerOk, Go, Lives
<1>4. AnswerFails(s) => Lives(s, IF OwnerPhone THEN "transfer" ELSE "remove")
  <2>1. SUFFICES ASSUME AnswerFails(s)
                 PROVE  Lives(s, IF OwnerPhone THEN "transfer" ELSE "remove")
    OBVIOUS
  <2>2. (IF OwnerPhone THEN "transfer" ELSE "remove") \in Running
    BY <1>1
  <2>3. expired' = expired \/ expired' = expired \cup {s}
    BY <2>1 DEF AnswerFails, Errs
  <2>4. call' = call \/ (call[s[1]] = "ringing" /\ call' = [call EXCEPT ![s[1]] = "answered"])
    BY <2>1, Zenon DEF AnswerFails
  <2>5. UNCHANGED <<refused, registry, displaced>>
    BY <2>1, Zenon DEF AnswerFails, Errs
  <2>6. phase[s] \in Running /\ phase' = [phase EXCEPT ![s] = IF OwnerPhone THEN "transfer" ELSE "remove"]
    BY <1>1, <2>1, Zenon DEF AnswerFails, Go
  <2>7. QED
    BY <1>1, <2>2, <2>3, <2>4, <2>5, <2>6, Zenon DEF Lives
<1>5. TransferOk(s) => Lives(s, "remove")
  BY <1>1, Zenon DEF TransferOk, Go, Lives
<1>6. TransferFails(s) => Lives(s, "remove")
  <2>1. SUFFICES ASSUME TransferFails(s)
                 PROVE  Lives(s, "remove")
    OBVIOUS
  <2>2. expired' = expired \/ expired' = expired \cup {s}
    BY <2>1 DEF TransferFails, Errs
  <2>3. refused' = refused \/ refused' = refused \cup {s[1]}
    BY <2>1 DEF TransferFails
  <2>4. QED
    BY <1>1, <2>1, <2>2, <2>3, Zenon DEF TransferFails, Errs, Go, Lives
<1>7. Released(s) => Lives(s, "remove")
  BY <1>1, Zenon DEF Released, Go, Lives
<1>8. Remove(s) => Lives(s, "gone")
  BY <1>1, Zenon DEF Remove, Go, Lives
<1>9. (IF OwnerPhone THEN "transfer" ELSE "remove") \in Running
  BY <1>1
<1>10. \A x \in Running : x \in Running \cup {"gone"}
  OBVIOUS
<1>11. "gone" \in Running \cup {"gone"}
  OBVIOUS
<1>12. QED
  BY <1>1, <1>3, <1>4, <1>5, <1>6, <1>7, <1>8, <1>9, <1>10, <1>11, Zenon DEF Session

\* Every step is one of these.
NextShape ==
  \/ \E c \in Calls : (Ring(c) \/ CallerHangsUp(c)) /\ UNCHANGED <<registry, phase, contexts, main, displaced, refused>>
  \/ \E s \in Sessions : Retry(s) /\ UNCHANGED <<registry, phase, contexts, main, displaced, refused>>
  \/ \E s \in Sessions : (HangupUnknown(s) \/ startCall(s)) /\ UNCHANGED <<expired, main, refused>>
  \/ \E c \in Calls : HandleHangup(c) /\ UNCHANGED <<expired, main, refused>>
  \/ \E s \in Sessions : Session(s)
  \/ Shutdown
  \/ UNCHANGED vars

\* The steps of the gateway, by who takes them.
LEMMA NextSteps == [Next]_vars => NextShape
BY Zenon DEF Next, Telnyx, handleWebhook, NextShape

\* What shutting down changes: the state of run(), and the contexts of the
\* stragglers.
ShutShape ==
  /\ UNCHANGED <<call, initiated, hangup, registry, phase, expired, displaced, refused>>
  /\ \/ cancelled' = cancelled /\ timeUp' = timeUp
        /\ \/ server = "serving" /\ server' \in {"failed", "shutdown"}
           \/ server = "shutdown" /\ server' = "draining"
           \/ server = "draining" /\ wg = {} /\ server' = "drained"
           \/ server = "cancelling" /\ server' = "timedout"
     \/ cancelled' = cancelled /\ timeUp' = TRUE /\ server' = server
        /\ server \in {"shutdown", "draining"}
     \/ cancelled' = cancelled \cup registry /\ timeUp' = timeUp
        /\ server = "draining" /\ server' = "cancelling"

\* Each step of run() that shuts down changes its own state, the deadline or
\* the contexts of the stragglers.
LEMMA ShutSteps == Shutdown => ShutShape
<1>1. "failed" \in {"failed", "shutdown"} /\ "shutdown" \in {"failed", "shutdown"}
  OBVIOUS
<1>2. QED
  BY <1>1, Zenon
  DEF Shutdown, ShutShape, hooks, ListenFails, Signal, TimeUp, ShutdownReturns, Drained, CancelStragglers, StragglersGone

\* The shapes.
LEMMA TypedStep ==
  ASSUME Typed, NextShape
  PROVE  Typed'
<1>1. ASSUME NEW c \in Calls, Ring(c) \/ CallerHangsUp(c),
             UNCHANGED <<registry, phase, contexts, main, displaced, refused>>
      PROVE  Typed'
  <2>1. /\ \E v \in {"ringing", "ended"} : call' = [call EXCEPT ![c] = v]
        /\ initiated' = initiated \/ initiated' = [initiated EXCEPT ![<<c, 1>>] = "handler"]
        /\ hangup' = hangup \/ hangup' = [hangup EXCEPT ![c] = IF server = "serving" THEN "handler" ELSE "done"]
    BY <1>1 DEF Ring, CallerHangsUp
  <2>2. UNCHANGED <<registry, cancelled, expired, displaced, phase, refused, server, timeUp>>
    BY <1>1, Zenon DEF contexts, main
  <2>3. call' \in [Calls -> Carrier] /\ initiated' \in [Sessions -> Posts] /\ hangup' \in [Calls -> Posts]
    BY <2>1 DEF Typed, Carrier, Posts
  <2>4. QED
    BY <2>2, <2>3, Zenon DEF Typed
<1>2. ASSUME NEW s \in Sessions, Retry(s), UNCHANGED <<registry, phase, contexts, main, displaced, refused>>
      PROVE  Typed'
  <2>1. initiated' = [initiated EXCEPT ![s] = "handler"] /\ UNCHANGED <<call, hangup>>
    BY <1>2, Zenon DEF Retry
  <2>2. UNCHANGED <<registry, cancelled, expired, displaced, phase, refused, server, timeUp>>
    BY <1>2, Zenon DEF contexts, main
  <2>3. initiated' \in [Sessions -> Posts]
    BY <2>1 DEF Typed, Posts
  <2>4. QED
    BY <2>1, <2>2, <2>3, Zenon DEF Typed
<1>3. ASSUME NEW s \in Sessions, HangupUnknown(s) \/ startCall(s), UNCHANGED <<expired, main, refused>>
      PROVE  Typed'
  <2>1. /\ initiated' = [initiated EXCEPT ![s] = "done"] /\ UNCHANGED <<hangup, cancelled>>
        /\ call' = call \/ call' = [call EXCEPT ![s[1]] = "ended"]
        /\ phase' = phase \/ phase' = [phase EXCEPT ![s] = "answer"]
        /\ UNCHANGED <<registry, displaced>> \/ add(s)
    BY <1>3, Zenon DEF HangupUnknown, startCall
  <2>2. UNCHANGED <<expired, server, timeUp, refused>>
    BY <1>3, Zenon DEF main
  <2>3. call' \in [Calls -> Carrier] /\ initiated' \in [Sessions -> Posts] /\ phase' \in [Sessions -> Phases]
    BY <2>1, SessionCall DEF Typed, Carrier, Posts, Phases, Running
  <2>4. {registry', displaced'} \subseteq SUBSET Sessions
    BY <2>1 DEF add, Typed
  <2>5. {registry', cancelled', expired', displaced'} \subseteq SUBSET Sessions
    BY <2>1, <2>2, <2>4 DEF Typed
  <2>6. QED
    BY <2>1, <2>2, <2>3, <2>5, Zenon DEF Typed
<1>4. ASSUME NEW c \in Calls, HandleHangup(c), UNCHANGED <<expired, main, refused>>
      PROVE  Typed'
  <2>1. /\ hangup' = [hangup EXCEPT ![c] = "done"] /\ end(c)
        /\ UNCHANGED <<call, initiated, registry, phase, displaced, expired, server, timeUp, refused>>
    BY <1>4, Zenon DEF HandleHangup, main
  <2>2. hangup' \in [Calls -> Posts]
    BY <2>1 DEF Typed, Posts
  <2>3. {registry', cancelled', expired', displaced'} \subseteq SUBSET Sessions
    BY <2>1 DEF Typed, end
  <2>4. QED
    BY <2>1, <2>2, <2>3, Zenon DEF Typed
<1>5. ASSUME NEW s \in Sessions, Session(s)
      PROVE  Typed'
  <2>1. PICK to \in Running \cup {"gone"} : Lives(s, to)
    BY <1>5, SessionLives
  <2>2. UNCHANGED <<initiated, hangup, cancelled, server, timeUp>>
    BY <1>5, Zenon DEF Session, hooks, main
  <2>3. call' \in [Calls -> Carrier] /\ phase' \in [Sessions -> Phases]
    BY <2>1, SessionCall DEF Lives, Typed, Carrier, Phases, Running
  <2>4. {registry', displaced'} \subseteq SUBSET Sessions
    BY <2>1 DEF Lives, remove, Typed
  <2>5. {registry', cancelled', expired', displaced'} \subseteq SUBSET Sessions
    BY <2>1, <2>2, <2>4 DEF Typed, Lives
  <2>6. refused' \in SUBSET Calls
    BY <2>1, SessionCall DEF Lives, Typed
  <2>7. QED
    BY <2>2, <2>3, <2>5, <2>6, Zenon DEF Typed
<1>6. CASE Shutdown
  <2>1. ShutShape
    BY <1>6, ShutSteps
  <2>2. UNCHANGED <<call, initiated, hangup, registry, phase, expired, displaced, refused>>
    BY <2>1, Zenon DEF ShutShape
  <2>3. server' \in Servers
    BY <2>1 DEF ShutShape, Typed, Servers
  <2>4. timeUp' = timeUp \/ timeUp' = TRUE
    BY <2>1, Zenon DEF ShutShape
  <2>5. timeUp' \in BOOLEAN
    BY <2>4 DEF Typed
  <2>6. {registry', cancelled', expired', displaced'} \subseteq SUBSET Sessions
    BY <2>1, <2>2 DEF Typed, ShutShape
  <2>7. QED
    BY <2>2, <2>3, <2>5, <2>6, Zenon DEF Typed
<1>7. CASE UNCHANGED vars
  BY <1>7, Zenon DEF vars, hooks, contexts, main, Typed
<1>8. QED
  BY <1>1, <1>2, <1>3, <1>4, <1>5, <1>6, <1>7, Zenon DEF NextShape

\* An entry belongs to a session between startCall and its own remove, and
\* no call has two.
LEMMA RegistryStep ==
  ASSUME Typed, RegistryGood, NextShape
  PROVE  RegistryGood'
<1>1. CASE UNCHANGED <<registry, phase>>
  BY <1>1, Zenon DEF RegistryGood
<1>2. ASSUME NEW s \in Sessions, startCall(s)
      PROVE  RegistryGood'
  <2>1. phase' = [phase EXCEPT ![s] = "answer"] /\ registry' = (registry \ Of(s[1])) \cup {s}
    BY <1>2, Zenon DEF startCall, add
  <2>2. registry \subseteq Sessions /\ phase \in [Sessions -> Phases]
    BY DEF Typed
  <2>3. ASSUME NEW t \in registry'
        PROVE  phase'[t] \notin {"none", "gone"} /\ \A u \in registry' \cap Of(t[1]) : u = t
    <3>1. CASE t = s
      <4>1. phase'[t] = "answer"
        BY <2>1, <2>2, <3>1
      <4>2. \A u \in registry' \cap Of(t[1]) : u = t
        BY <2>1, <3>1
      <4>3. QED
        BY <4>1, <4>2
    <3>2. CASE t # s
      <4>1. t \in registry /\ t \notin Of(s[1]) /\ t \in Sessions /\ phase'[t] = phase[t]
        BY <2>1, <2>2, <2>3, <3>2
      <4>2. t[1] # s[1]
        BY <4>1, OfCall
      <4>3. \A u \in registry' \cap Of(t[1]) : u \in registry \cap Of(t[1])
        BY <2>1, <4>2, OfCall
      <4>4. QED
        BY <4>1, <4>3 DEF RegistryGood
    <3>3. QED
      BY <3>1, <3>2
  <2>4. QED
    BY <2>3, Zenon DEF RegistryGood
<1>3. ASSUME NEW s \in Sessions, Session(s)
      PROVE  RegistryGood'
  <2>1. PICK to \in Running \cup {"gone"} : Lives(s, to)
    BY <1>3, SessionLives
  <2>2. registry \subseteq Sessions /\ phase \in [Sessions -> Phases]
    BY DEF Typed
  <2>3. phase' = [phase EXCEPT ![s] = to]
    BY <2>1, Zenon DEF Lives
  <2>4. CASE to \in Running /\ registry' = registry
    <3>1. \A t \in registry : phase'[t] \notin {"none", "gone"}
      BY <2>2, <2>3, <2>4 DEF RegistryGood, Running
    <3>2. QED
      BY <2>4, <3>1 DEF RegistryGood
  <2>5. CASE remove(s)
    <3>1. registry' = registry \ Of(s[1])
      BY <2>5, Zenon DEF remove
    <3>2. s \notin registry'
      BY <3>1 DEF Of
    <3>3. \A t \in registry' : phase'[t] = phase[t]
      BY <2>2, <2>3, <3>1, <3>2
    <3>4. QED
      BY <3>1, <3>3 DEF RegistryGood
  <2>6. QED
    BY <2>1, <2>4, <2>5, Zenon DEF Lives
<1>4. QED
  BY <1>1, <1>2, <1>3, ShutSteps, Zenon
  DEF NextShape, HangupUnknown, HandleHangup, ShutShape, vars

\* TypeOK: the registry lists at most one session of a call, and only a
\* session that was added and has not removed itself (gateway.go:140).
THEOREM TypeOKTheorem == Spec => []TypeOK
<1>1. Init => Typed /\ RegistryGood
  <2>1. SUFFICES ASSUME Init
                 PROVE  Typed /\ RegistryGood
    OBVIOUS
  <2>2. Typed
    BY <2>1 DEF Init, Typed, Carrier, Posts, Phases, Running, Servers
  <2>3. RegistryGood
    BY <2>1 DEF Init, RegistryGood
  <2>4. QED
    BY <2>2, <2>3
<1>2. Typed /\ RegistryGood /\ [Next]_vars => (Typed /\ RegistryGood)'
  BY NextSteps, TypedStep, RegistryStep
<1>3. Init => TypeOK
  BY <1>1, TypeParts
<1>4. ASSUME TypeOK, [Next]_vars
      PROVE  TypeOK'
  <2>1. Typed /\ RegistryGood
    BY <1>4, TypeParts
  <2>2. Typed' /\ RegistryGood'
    BY <1>2, <1>4, <2>1
  <2>3. QED
    BY <2>2, Zenon DEF TypeOK, Typed, RegistryGood
<1>5. QED
  BY <1>3, <1>4, PTL DEF Spec

-----------------------------------------------------------------------------
(* Webhooks, sessions and calls.                                           *)

\* How a call moves at the carrier: never back to idle, never out of its end,
\* and it rings only when it is posted.
LEMMA CallMoves ==
  ASSUME Typed, NextShape, NEW c \in Calls
  PROVE  /\ call[c] # "idle" => call'[c] # "idle"
         /\ call[c] = "ended" => call'[c] = "ended"
         /\ call'[c] = "ringing" => call[c] = "ringing" \/ (Ring(c) /\ UNCHANGED <<registry, phase, contexts, main, displaced, refused>>)
<1>0. call \in [Calls -> Carrier]
  BY DEF Typed
<1>1. ASSUME NEW d \in Calls, Ring(d), UNCHANGED <<registry, phase, contexts, main, displaced, refused>>
      PROVE  /\ call[c] # "idle" => call'[c] # "idle"
             /\ call[c] = "ended" => call'[c] = "ended"
             /\ call'[c] = "ringing" => call[c] = "ringing" \/ c = d
  BY <1>0, <1>1 DEF Ring
<1>2. ASSUME NEW d \in Calls, call' = [call EXCEPT ![d] = "ended"]
      PROVE  /\ call[c] # "idle" => call'[c] # "idle"
             /\ call[c] = "ended" => call'[c] = "ended"
             /\ call'[c] = "ringing" => call[c] = "ringing"
  BY <1>0, <1>2
<1>3. ASSUME NEW d \in Calls, call[d] \in {"ringing", "answered"},
             NEW v \in {"answered", "transferred"}, call' = [call EXCEPT ![d] = v]
      PROVE  /\ call[c] # "idle" => call'[c] # "idle"
             /\ call[c] = "ended" => call'[c] = "ended"
             /\ call'[c] = "ringing" => call[c] = "ringing"
  BY <1>0, <1>3
<1>4. \/ call' = call
      \/ \E d \in Calls : Ring(d) /\ UNCHANGED <<registry, phase, contexts, main, displaced, refused>>
      \/ \E d \in Calls : call' = [call EXCEPT ![d] = "ended"]
      \/ \E d \in Calls : \E v \in {"answered", "transferred"} :
           call[d] \in {"ringing", "answered"} /\ call' = [call EXCEPT ![d] = v]
  <2>1. \A s \in Sessions : Session(s) =>
          \/ call' = call
          \/ \E d \in Calls : \E v \in {"answered", "transferred"} :
               call[d] \in {"ringing", "answered"} /\ call' = [call EXCEPT ![d] = v]
    BY SessionLives, SessionCall, ZenonT(60) DEF Lives
  <2>2. QED
    BY <2>1, ShutSteps, SessionCall, Zenon
    DEF NextShape, CallerHangsUp, Retry, HangupUnknown, startCall, HandleHangup, ShutShape, vars
<1>5. QED
  BY <1>1, <1>2, <1>3, <1>4

\* What a step does to the posts and the phases.
LEMMA PostSteps ==
  ASSUME NextShape
  PROVE  \/ UNCHANGED <<initiated, phase>>
         \/ \E c \in Calls : Ring(c) /\ phase' = phase
         \/ \E s \in Sessions : /\ Retry(s) /\ phase' = phase /\ call' = call
         \/ \E s \in Sessions : /\ initiated' = [initiated EXCEPT ![s] = "done"]
                                /\ initiated[s] = "handler"
                                /\ phase' = phase \/ phase' = [phase EXCEPT ![s] = "answer"]
         \/ \E s \in Sessions : \E to \in Running \cup {"gone"} : Lives(s, to) /\ initiated' = initiated
<1>1. \A s \in Sessions : Session(s) =>
        \E to \in Running \cup {"gone"} : Lives(s, to) /\ initiated' = initiated
  BY SessionLives, Zenon DEF Session, hooks
<1>2. QED
  BY <1>1, ShutSteps, Zenon
  DEF NextShape, CallerHangsUp, Retry, HangupUnknown, startCall, HandleHangup, ShutShape, vars, hooks

\* A session starts from a webhook, and a webhook from a call.
LEMMA PostStep ==
  ASSUME Typed, PostInv, NextShape
  PROVE  PostInv'
<1>0. /\ call \in [Calls -> Carrier] /\ initiated \in [Sessions -> Posts]
      /\ phase \in [Sessions -> Phases]
  BY DEF Typed
<1>1. SUFFICES ASSUME NEW t \in Sessions
               PROVE  /\ initiated'[t] # "done" => phase'[t] = "none"
                      /\ initiated'[t] # "none" => call'[t[1]] # "idle"
  BY Zenon DEF PostInv
<1>2. /\ initiated[t] # "done" => phase[t] = "none"
      /\ initiated[t] # "none" => call[t[1]] # "idle"
      /\ t[1] \in Calls
  BY SessionCall, Zenon DEF PostInv
<1>3. call[t[1]] # "idle" => call'[t[1]] # "idle"
  BY <1>2, CallMoves
<1>4. CASE UNCHANGED <<initiated, phase>>
  BY <1>2, <1>3, <1>4
<1>5. ASSUME NEW c \in Calls, Ring(c), phase' = phase
      PROVE  /\ initiated'[t] # "done" => phase'[t] = "none"
             /\ initiated'[t] # "none" => call'[t[1]] # "idle"
  <2>1. /\ call[c] = "idle" /\ call' = [call EXCEPT ![c] = "ringing"]
        /\ initiated' = [initiated EXCEPT ![<<c, 1>>] = "handler"]
    BY <1>5, Zenon DEF Ring
  <2>2. CASE t = <<c, 1>>
    <3>1. t[1] = c
      BY <2>2
    <3>2. initiated[t] = "none" /\ call'[t[1]] = "ringing"
      BY <1>0, <1>2, <2>1, <3>1
    <3>3. QED
      BY <1>2, <1>5, <3>2
  <2>3. CASE t # <<c, 1>>
    <3>1. initiated'[t] = initiated[t]
      BY <1>0, <2>1, <2>3
    <3>2. QED
      BY <1>2, <1>3, <1>5, <3>1
  <2>4. QED
    BY <2>2, <2>3
<1>6. ASSUME NEW s \in Sessions, Retry(s), phase' = phase, call' = call
      PROVE  /\ initiated'[t] # "done" => phase'[t] = "none"
             /\ initiated'[t] # "none" => call'[t[1]] # "idle"
  <2>1. PICK u \in Of(s[1]) : initiated[u] # "none"
    BY <1>6, Zenon DEF Retry
  <2>2. u \in Sessions /\ u[1] = s[1]
    BY <2>1 DEF Of
  <2>3. call[s[1]] # "idle"
    BY <2>1, <2>2, Zenon DEF PostInv
  <2>4. initiated' = [initiated EXCEPT ![s] = "handler"] /\ initiated[s] = "none"
    BY <1>6, Zenon DEF Retry
  <2>5. QED
    BY <1>0, <1>2, <1>6, <2>3, <2>4
<1>7. ASSUME NEW s \in Sessions, initiated[s] = "handler", initiated' = [initiated EXCEPT ![s] = "done"],
             phase' = phase \/ phase' = [phase EXCEPT ![s] = "answer"]
      PROVE  /\ initiated'[t] # "done" => phase'[t] = "none"
             /\ initiated'[t] # "none" => call'[t[1]] # "idle"
  <2>1. CASE t = s
    <3>1. initiated'[t] = "done" /\ initiated[t] # "none"
      BY <1>0, <1>7, <2>1
    <3>2. QED
      BY <1>2, <1>3, <3>1
  <2>2. CASE t # s
    <3>1. initiated'[t] = initiated[t] /\ phase'[t] = phase[t]
      BY <1>0, <1>7, <2>2
    <3>2. QED
      BY <1>2, <1>3, <3>1
  <2>3. QED
    BY <2>1, <2>2
<1>8. ASSUME NEW s \in Sessions, NEW to, Lives(s, to), initiated' = initiated
      PROVE  /\ initiated'[t] # "done" => phase'[t] = "none"
             /\ initiated'[t] # "none" => call'[t[1]] # "idle"
  <2>1. phase[s] # "none" /\ phase' = [phase EXCEPT ![s] = to]
    BY <1>8 DEF Lives, Running
  <2>2. CASE t = s
    BY <1>2, <1>3, <1>8, <2>1, <2>2
  <2>3. CASE t # s
    <3>1. phase'[t] = phase[t]
      BY <1>0, <2>1, <2>3
    <3>2. QED
      BY <1>2, <1>3, <1>8, <3>1
  <2>4. QED
    BY <2>2, <2>3
<1>9. QED
  BY <1>4, <1>5, <1>6, <1>7, <1>8, PostSteps

-----------------------------------------------------------------------------
(* The drain (main.go:264, gateway.go:168).                                *)

\* When run() has returned, nothing moves.
LEMMA StoppedRests ==
  ASSUME Stopped, [Next]_vars
  PROVE  UNCHANGED vars
<1>1. ~ShutShape
  BY DEF ShutShape, Stopped
<1>2. QED
  BY <1>1, ShutSteps, Zenon DEF Next, Telnyx, handleWebhook, Session

\* What the step of a session does to the calls that are up: a session that
\* holds its call and is not cancelled keeps it, and a call comes up held, or
\* by an Answer given up.
LEMMA SessionHolds ==
  ASSUME Typed, NEW s \in Sessions, Session(s)
  PROVE  /\ UNCHANGED <<hangup, cancelled, server>> /\ expired \subseteq expired'
         /\ \A t \in Sessions : phase[t] = "held" /\ t \notin cancelled => phase'[t] = "held"
         /\ \A c \in Calls : call'[c] = "answered" =>
              \/ call[c] = "answered"
              \/ c = s[1] /\ phase'[s] = "held" /\ s \notin cancelled
              \/ c = s[1] /\ call[c] = "ringing" /\ s \in cancelled \cup expired'
<1>0. call \in [Calls -> Carrier] /\ phase \in [Sessions -> Phases] /\ s[1] \in Calls
  BY SessionCall DEF Typed
<1>1. UNCHANGED <<hangup, cancelled, server>>
  BY Zenon DEF Session, hooks, main
<1>2. expired \subseteq expired'
  <2>1. PICK to \in Running \cup {"gone"} : Lives(s, to)
    BY SessionLives
  <2>2. QED
    BY <2>1 DEF Lives
<1>3. ASSUME NEW t \in Sessions, phase[t] = "held", t \notin cancelled
      PROVE  phase'[t] = "held"
  <2>1. CASE t # s
    <3>1. PICK to \in Running \cup {"gone"} : Lives(s, to)
      BY SessionLives
    <3>2. phase' = [phase EXCEPT ![s] = to]
      BY <3>1, Zenon DEF Lives
    <3>3. QED
      BY <1>0, <1>3, <2>1, <3>2
  <2>2. CASE t = s
    <3>1. ~Released(s)
      BY <1>3, <2>2, Zenon DEF Released
    <3>2. phase[s] \in {"answer", "transfer", "remove"}
      BY <3>1 DEF Session, AnswerOk, AnswerFails, TransferOk, TransferFails, Remove, Go
    <3>3. QED
      BY <1>3, <2>2, <3>2
  <2>3. QED
    BY <2>1, <2>2
<1>4. ASSUME NEW c \in Calls, call'[c] = "answered"
      PROVE  \/ call[c] = "answered"
             \/ c = s[1] /\ phase'[s] = "held" /\ s \notin cancelled
             \/ c = s[1] /\ call[c] = "ringing" /\ s \in cancelled \cup expired'
  <2>1. CASE AnswerOk(s)
    <3>1. call' = [call EXCEPT ![s[1]] = "answered"] /\ phase' = [phase EXCEPT ![s] = "held"] /\ s \notin cancelled
      <4>1. ~Done(s) /\ call' = [call EXCEPT ![s[1]] = "answered"] /\ phase' = [phase EXCEPT ![s] = "held"]
        BY <2>1, Zenon DEF AnswerOk, Go
      <4>2. QED
        BY <4>1 DEF Done
    <3>2. QED
      BY <1>0, <1>4, <3>1
  <2>2. CASE AnswerFails(s)
    <3>1. call' = call \/ (s \in cancelled \cup expired' /\ call[s[1]] = "ringing"
                           /\ call' = [call EXCEPT ![s[1]] = "answered"])
      BY <2>2, Zenon DEF AnswerFails
    <3>2. QED
      BY <1>0, <1>4, <3>1
  <2>3. CASE TransferOk(s)
    <3>1. call' = [call EXCEPT ![s[1]] = "transferred"]
      BY <2>3, Zenon DEF TransferOk
    <3>2. QED
      BY <1>0, <1>4, <3>1
  <2>4. CASE TransferFails(s) \/ Released(s) \/ Remove(s)
    <3>1. call' = call
      BY <2>4, Zenon DEF TransferFails, Released, Remove
    <3>2. QED
      BY <1>4, <3>1
  <2>5. QED
    BY <2>1, <2>2, <2>3, <2>4, Zenon DEF Session
<1>5. QED
  BY <1>1, <1>2, <1>3, <1>4

\* A step that cancels nobody of call c and lets its sessions hold keeps it.
LEMMA KeptStays ==
  ASSUME NEW c, Kept(c), expired \subseteq expired', Cancelling => Cancelling',
         \A s \in Of(c) : s \in cancelled' => s \in cancelled,
         \A s \in Of(c) : phase[s] = "held" /\ s \notin cancelled => phase'[s] = "held"
  PROVE  Kept(c)'
<1>1. CASE \E s \in Of(c) : phase[s] = "held" /\ s \notin cancelled
  <2>1. PICK s \in Of(c) : phase[s] = "held" /\ s \notin cancelled
    BY <1>1
  <2>2. phase'[s] = "held" /\ s \notin cancelled'
    BY <2>1
  <2>3. QED
    BY <2>2, Zenon DEF Kept
<1>2. CASE Of(c) \cap expired # {}
  <2>1. Of(c) \cap expired' # {}
    BY <1>2
  <2>2. QED
    BY <2>1, Zenon DEF Kept
<1>3. CASE Cancelling
  BY <1>3, Zenon DEF Kept
<1>4. QED
  BY <1>1, <1>2, <1>3, Zenon DEF Kept

\* Every step keeps the calls that are up, or ends them.
LEMMA CallsStep ==
  ASSUME Typed, PostInv, CallsInv, NextShape
  PROVE  CallsInv'
<1>0. /\ call \in [Calls -> Carrier] /\ initiated \in [Sessions -> Posts] /\ hangup \in [Calls -> Posts]
      /\ phase \in [Sessions -> Phases] /\ cancelled \subseteq Sessions /\ registry \subseteq Sessions
  BY DEF Typed
<1>a. \A c : \A s \in Of(c) : s \in Sessions
  BY DEF Of
<1>1. \A s \in Sessions : s[1] \in Calls
  BY SessionCall
<1>2. /\ \A c \in Calls : hangup[c] = "handler" => call[c] = "ended"
      /\ \A s \in cancelled : call[s[1]] = "ended" \/ Cancelling
      /\ \A c \in Calls : call[c] = "answered" => Kept(c)
  BY Zenon DEF CallsInv
<1>3. \A c \in Calls : call[c] = "ended" => call'[c] = "ended"
  BY CallMoves
<1>4. ASSUME hangup' = hangup, cancelled' = cancelled, server' = server, phase' = phase, expired' = expired,
             \A c \in Calls : call'[c] = "answered" => call[c] = "answered"
      PROVE  CallsInv'
  <2>1. Cancelling' <=> Cancelling
    BY <1>4, Zenon DEF Cancelling
  <2>2. \A c \in Calls : Kept(c) => Kept(c)'
    BY <1>4, <2>1, Zenon DEF Kept
  <2>3. \A s \in cancelled' : call'[s[1]] = "ended" \/ Cancelling'
    BY <1>0, <1>1, <1>2, <1>3, <1>4, <2>1
  <2>4. \A c \in Calls : hangup'[c] = "handler" => call'[c] = "ended"
    BY <1>2, <1>3, <1>4
  <2>5. \A c \in Calls : call'[c] = "answered" => Kept(c)'
    BY <1>2, <1>4, <2>2
  <2>6. QED
    BY <2>3, <2>4, <2>5, Zenon DEF CallsInv
<1>5. ASSUME NEW c \in Calls, Ring(c), UNCHANGED <<registry, phase, contexts, main, displaced, refused>>
      PROVE  CallsInv'
  <2>1. /\ call' = [call EXCEPT ![c] = "ringing"]
        /\ UNCHANGED <<hangup, cancelled, server, phase, expired>>
    BY <1>5, Zenon DEF Ring, contexts, main
  <2>2. \A d \in Calls : call'[d] = "answered" => call[d] = "answered"
    BY <1>0, <2>1
  <2>3. QED
    BY <1>4, <2>1, <2>2
<1>6. ASSUME NEW c \in Calls, CallerHangsUp(c), UNCHANGED <<registry, phase, contexts, main, displaced, refused>>
      PROVE  CallsInv'
  <2>1. /\ call' = [call EXCEPT ![c] = "ended"]
        /\ hangup' = [hangup EXCEPT ![c] = IF server = "serving" THEN "handler" ELSE "done"]
        /\ UNCHANGED <<cancelled, server, phase, expired>>
    BY <1>6, Zenon DEF CallerHangsUp, contexts, main
  <2>2. Cancelling' <=> Cancelling
    BY <2>1, Zenon DEF Cancelling
  <2>3. \A d \in Calls : Kept(d) => Kept(d)'
    BY <2>1, <2>2, Zenon DEF Kept
  <2>4. \A d \in Calls : call'[d] = "answered" => call[d] = "answered"
    BY <1>0, <2>1
  <2>5. \A d \in Calls : hangup'[d] = "handler" => call'[d] = "ended"
    BY <1>0, <1>2, <2>1
  <2>6. \A s \in cancelled' : call'[s[1]] = "ended" \/ Cancelling'
    BY <1>0, <1>1, <1>2, <1>3, <2>1, <2>2
  <2>7. QED
    BY <1>2, <2>3, <2>4, <2>5, <2>6, Zenon DEF CallsInv
<1>7. ASSUME NEW s \in Sessions, Retry(s), UNCHANGED <<registry, phase, contexts, main, displaced, refused>>
      PROVE  CallsInv'
  BY <1>4, <1>7, Zenon DEF Retry, contexts, main
<1>8. ASSUME NEW s \in Sessions, HangupUnknown(s), UNCHANGED <<expired, main, refused>>
      PROVE  CallsInv'
  <2>1. /\ call' = call \/ call' = [call EXCEPT ![s[1]] = "ended"]
        /\ UNCHANGED <<hangup, cancelled, server, phase, expired>>
    BY <1>8, Zenon DEF HangupUnknown, main
  <2>2. \A d \in Calls : call'[d] = "answered" => call[d] = "answered"
    BY <1>0, <2>1
  <2>3. QED
    BY <1>4, <2>1, <2>2
<1>9. ASSUME NEW s \in Sessions, startCall(s), UNCHANGED <<expired, main, refused>>
      PROVE  CallsInv'
  <2>1. /\ phase' = [phase EXCEPT ![s] = "answer"] /\ initiated[s] = "handler"
        /\ UNCHANGED <<call, hangup, cancelled, server, expired>>
    BY <1>9, Zenon DEF startCall, main
  <2>2. phase[s] = "none"
    BY <2>1 DEF PostInv
  <2>3. \A t \in Sessions : phase[t] = "held" => phase'[t] = "held"
    BY <1>0, <2>1, <2>2
  <2>4. Cancelling' <=> Cancelling
    BY <2>1, Zenon DEF Cancelling
  <2>5. \A c \in Calls : Kept(c) => Kept(c)'
    BY <1>a, <2>1, <2>3, <2>4, Zenon DEF Kept
  <2>6. QED
    BY <1>2, <2>1, <2>4, <2>5, Zenon DEF CallsInv
<1>10. ASSUME NEW c \in Calls, HandleHangup(c), UNCHANGED <<expired, main, refused>>
       PROVE  CallsInv'
  <2>1. /\ hangup[c] = "handler" /\ hangup' = [hangup EXCEPT ![c] = "done"]
        /\ cancelled' = cancelled \cup (registry \cap Of(c))
        /\ UNCHANGED <<call, phase, server, expired>>
    BY <1>10, Zenon DEF HandleHangup, end, main
  <2>2. call[c] = "ended"
    BY <1>2, <2>1
  <2>3. Cancelling' <=> Cancelling
    BY <2>1, Zenon DEF Cancelling
  <2>4. \A s \in cancelled' : call'[s[1]] = "ended" \/ Cancelling'
    BY <1>0, <1>2, <2>1, <2>2, <2>3, OfCall
  <2>5. \A d \in Calls : hangup'[d] = "handler" => call'[d] = "ended"
    BY <1>0, <1>2, <2>1
  <2>6. ASSUME NEW d \in Calls, call'[d] = "answered"
        PROVE  Kept(d)'
    <3>1. call[d] = "answered" /\ d # c /\ Kept(d)
      BY <1>2, <2>1, <2>2, <2>6
    <3>2. \A s \in Of(d) : s \in cancelled' => s \in cancelled
      BY <1>a, <2>1, <3>1, OfCall
    <3>3. QED
      BY <2>1, <2>3, <3>1, <3>2, KeptStays
  <2>7. QED
    BY <2>4, <2>5, <2>6, Zenon DEF CallsInv
<1>11. ASSUME NEW s \in Sessions, Session(s)
       PROVE  CallsInv'
  <2>1. /\ UNCHANGED <<hangup, cancelled, server>> /\ expired \subseteq expired'
        /\ \A t \in Sessions : phase[t] = "held" /\ t \notin cancelled => phase'[t] = "held"
    BY <1>11, SessionHolds
  <2>2. Cancelling' <=> Cancelling
    BY <2>1, Zenon DEF Cancelling
  <2>3. ASSUME NEW c \in Calls, call'[c] = "answered"
        PROVE  Kept(c)'
    <3>1. CASE call[c] = "answered"
      <4>1. Kept(c)
        BY <1>2, <3>1
      <4>2. QED
        BY <1>a, <2>1, <2>2, <4>1, KeptStays
    <3>2. CASE c = s[1] /\ phase'[s] = "held" /\ s \notin cancelled
      <4>1. s \in Of(c) /\ s \notin cancelled'
        BY <2>1, <3>2, OfCall
      <4>2. QED
        BY <3>2, <4>1, Zenon DEF Kept
    <3>3. CASE c = s[1] /\ call[c] = "ringing" /\ s \in cancelled \cup expired'
      <4>1. CASE s \in expired'
        <5>1. Of(c) \cap expired' # {}
          BY <3>3, <4>1, OfCall
        <5>2. QED
          BY <5>1, Zenon DEF Kept
      <4>2. CASE s \in cancelled
        <5>1. Cancelling
          BY <1>2, <3>3, <4>2
        <5>2. QED
          BY <2>2, <5>1, Zenon DEF Kept
      <4>3. QED
        BY <3>3, <4>1, <4>2
    <3>4. QED
      BY <1>11, <2>3, <3>1, <3>2, <3>3, SessionHolds
  <2>4. \A t \in cancelled' : call'[t[1]] = "ended" \/ Cancelling'
    BY <1>0, <1>1, <1>2, <1>3, <2>1, <2>2
  <2>5. \A c \in Calls : hangup'[c] = "handler" => call'[c] = "ended"
    BY <1>2, <1>3, <2>1
  <2>6. QED
    BY <2>3, <2>4, <2>5, Zenon DEF CallsInv
<1>12. CASE Shutdown
  <2>1. ShutShape
    BY <1>12, ShutSteps
  <2>2. UNCHANGED <<call, hangup, phase, expired>>
    BY <2>1, Zenon DEF ShutShape
  <2>3. CASE cancelled' = cancelled
    <3>1. Cancelling => Cancelling'
      BY <2>1 DEF ShutShape, Cancelling
    <3>2. \A c \in Calls : Kept(c) => Kept(c)'
      BY <2>2, <2>3, <3>1, Zenon DEF Kept
    <3>3. QED
      BY <1>2, <2>2, <2>3, <3>1, <3>2, Zenon DEF CallsInv
  <2>4. CASE server' = "cancelling"
    <3>1. Cancelling'
      BY <2>4 DEF Cancelling
    <3>2. QED
      BY <1>2, <2>2, <3>1, Zenon DEF CallsInv, Kept
  <2>5. QED
    BY <2>1, <2>3, <2>4, Zenon DEF ShutShape
<1>13. CASE UNCHANGED vars
  <2>1. UNCHANGED <<call, hangup, phase, expired, cancelled, server>>
    BY <1>13, Zenon DEF vars, hooks, contexts, main
  <2>2. QED
    BY <1>4, <2>1
<1>14. QED
  BY <1>5, <1>6, <1>7, <1>8, <1>9, <1>10, <1>11, <1>12, <1>13, Zenon DEF NextShape

\* A webhook not served has no session, and one posted has a call.
THEOREM PostInvTheorem == Spec => []PostInv
<1>1. Init => PostInv
  BY DEF Init, PostInv
<1>2. ASSUME TypeOK, PostInv, [Next]_vars
      PROVE  PostInv'
  BY <1>2, TypeParts, NextSteps, PostStep
<1>3. QED
  BY <1>1, <1>2, TypeOKTheorem, PTL DEF Spec

\* DrainedMeansQuiet: a drain that reports success leaves no call up, but for
\* one whose Answer timed out, for every interleaving of webhooks, sessions
\* and the shutdown (gateway.go:168, main.go:264).
THEOREM DrainedMeansQuietTheorem == Spec => []DrainedMeansQuiet
<1>1. Init => QuietInv
  <2>1. SUFFICES ASSUME Init
                 PROVE  QuietInv
    OBVIOUS
  <2>2. /\ \A c \in Calls : hangup[c] = "none" /\ call[c] = "idle"
        /\ cancelled = {} /\ server = "serving"
    BY <2>1 DEF Init
  <2>3. CallsInv
    BY <2>2 DEF CallsInv
  <2>4. QED
    BY <2>2, <2>3 DEF QuietInv, DrainedMeansQuiet
<1>2. ASSUME TypeOK, PostInv, QuietInv, [Next]_vars
      PROVE  QuietInv'
  <2>1. Typed /\ NextShape
    BY <1>2, TypeParts, NextSteps
  <2>2. CallsInv'
    BY <1>2, <2>1, CallsStep DEF QuietInv
  <2>3. CASE server = "drained"
    <3>1. UNCHANGED vars
      BY <1>2, <2>3, StoppedRests DEF Stopped
    <3>2. QED
      BY <1>2, <2>2, <3>1, Zenon DEF QuietInv, DrainedMeansQuiet, vars, contexts, main
  <2>4. CASE server # "drained" /\ server' = "drained"
    <3>1. ShutShape
      <4>1. \A s \in Sessions : Session(s) => server' = server
        BY Zenon DEF Session, main
      <4>2. QED
        BY <2>1, <2>4, <4>1, ShutSteps, Zenon DEF NextShape, vars, main
    <3>2. server = "draining" /\ wg = {} /\ UNCHANGED <<call, expired>>
      BY <2>4, <3>1 DEF ShutShape
    <3>3. ASSUME NEW c \in Calls, call[c] = "answered"
          PROVE  Of(c) \cap expired # {}
      <4>1. Kept(c)
        BY <1>2, <3>3, Zenon DEF QuietInv, CallsInv
      <4>2. ~Cancelling
        BY <3>2 DEF Cancelling
      <4>3. \A s \in Of(c) : phase[s] # "held"
        BY <3>2 DEF wg, Running, Of
      <4>4. QED
        BY <4>1, <4>2, <4>3, Zenon DEF Kept
    <3>4. DrainedMeansQuiet'
      BY <3>2, <3>3, Zenon DEF DrainedMeansQuiet
    <3>5. QED
      BY <2>2, <3>4, Zenon DEF QuietInv
  <2>5. CASE server' # "drained"
    BY <2>2, <2>5, Zenon DEF QuietInv, DrainedMeansQuiet
  <2>6. QED
    BY <2>3, <2>4, <2>5
<1>3. QuietInv => DrainedMeansQuiet
  BY DEF QuietInv
<1>4. QED
  BY <1>1, <1>2, <1>3, TypeOKTheorem, PostInvTheorem, PTL DEF Spec

-----------------------------------------------------------------------------
(* The failover (gateway.go:94).                                           *)

\* What the step of a session leaves of its call.
LEMMA SessionLeaves ==
  ASSUME Typed, NEW s \in Sessions, Session(s)
  PROVE  /\ phase'[s] = "held" => call'[s[1]] # "ringing"
         /\ OwnerPhone /\ phase'[s] \in {"remove", "gone"} /\ call'[s[1]] = "ringing"
              => \/ phase[s] = "remove"
                 \/ s \in cancelled \cup expired' \/ s[1] \in refused'
<1>0. call \in [Calls -> Carrier] /\ phase \in [Sessions -> Phases] /\ s[1] \in Calls
  BY SessionCall DEF Typed
<1>1. CASE AnswerOk(s)
  <2>1. call' = [call EXCEPT ![s[1]] = "answered"]
    BY <1>1, Zenon DEF AnswerOk
  <2>2. call'[s[1]] = "answered"
    BY <1>0, <2>1
  <2>3. QED
    BY <2>2
<1>2. CASE AnswerFails(s)
  <2>1. phase' = [phase EXCEPT ![s] = IF OwnerPhone THEN "transfer" ELSE "remove"]
    BY <1>2, Zenon DEF AnswerFails, Go
  <2>2. phase'[s] = IF OwnerPhone THEN "transfer" ELSE "remove"
    BY <1>0, <2>1
  <2>3. QED
    BY <2>2
<1>3. CASE TransferOk(s)
  <2>1. call' = [call EXCEPT ![s[1]] = "transferred"]
    BY <1>3, Zenon DEF TransferOk
  <2>2. call'[s[1]] = "transferred"
    BY <1>0, <2>1
  <2>3. QED
    BY <2>2
<1>4. CASE TransferFails(s)
  <2>1. phase' = [phase EXCEPT ![s] = "remove"]
    BY <1>4, Zenon DEF TransferFails, Go
  <2>2. phase'[s] = "remove"
    BY <1>0, <2>1
  <2>3. s \in cancelled \cup expired' \/ s[1] \in refused'
    BY <1>4 DEF TransferFails
  <2>4. QED
    BY <2>2, <2>3
<1>5. CASE Released(s)
  <2>1. phase' = [phase EXCEPT ![s] = "remove"] /\ s \in cancelled
    BY <1>5, Zenon DEF Released, Go
  <2>2. phase'[s] = "remove"
    BY <1>0, <2>1
  <2>3. QED
    BY <2>1, <2>2
<1>6. CASE Remove(s)
  <2>1. phase' = [phase EXCEPT ![s] = "gone"] /\ phase[s] = "remove"
    BY <1>6, Zenon DEF Remove, Go
  <2>2. phase'[s] = "gone"
    BY <1>0, <2>1
  <2>3. QED
    BY <2>1, <2>2
<1>7. QED
  BY <1>1, <1>2, <1>3, <1>4, <1>5, <1>6, Zenon DEF Session

\* Contexts stay done, refusals stay known.
LEMMA ReasonsStay ==
  ASSUME NextShape
  PROVE  cancelled \subseteq cancelled' /\ expired \subseteq expired' /\ refused \subseteq refused'
<1>1. \A s \in Sessions : Session(s) =>
        cancelled' = cancelled /\ (expired' = expired \/ expired' = expired \cup {s})
        /\ (refused' = refused \/ refused' = refused \cup {s[1]})
  BY SessionLives, Zenon DEF Session, Lives
<1>2. cancelled' = cancelled \/ \E x : cancelled' = cancelled \cup x
  BY <1>1, ShutSteps, Zenon
  DEF NextShape, HangupUnknown, startCall, HandleHangup, end, ShutShape, vars, contexts
<1>3. expired' = expired \/ \E x : expired' = expired \cup x
  BY <1>1, ShutSteps, Zenon DEF NextShape, ShutShape, vars, contexts
<1>4. refused' = refused \/ \E x : refused' = refused \cup x
  BY <1>1, ShutSteps, Zenon DEF NextShape, ShutShape, vars
<1>5. QED
  BY <1>2, <1>3, <1>4

\* No step leaves a call ringing behind a session that is over, for nothing.
LEMMA RingStep ==
  ASSUME Typed, PostInv, RingInv, NextShape
  PROVE  RingInv'
<1>0. /\ initiated \in [Sessions -> Posts] /\ phase \in [Sessions -> Phases]
  BY DEF Typed
<1>1. SUFFICES ASSUME NEW t \in Sessions
               PROVE  /\ phase'[t] = "held" => call'[t[1]] # "ringing"
                      /\ OwnerPhone /\ phase'[t] \in {"remove", "gone"} /\ call'[t[1]] = "ringing"
                           => t \in cancelled' \cup expired' \/ t[1] \in refused'
  BY Zenon DEF RingInv, Done
<1>2. /\ phase[t] = "held" => call[t[1]] # "ringing"
      /\ OwnerPhone /\ phase[t] \in {"remove", "gone"} /\ call[t[1]] = "ringing"
           => t \in cancelled \cup expired \/ t[1] \in refused
      /\ phase[t] # "none" => call[t[1]] # "idle"
  <2>1. initiated[t] = "done" => call[t[1]] # "idle"
    BY DEF PostInv
  <2>2. phase[t] # "none" => initiated[t] = "done"
    BY DEF PostInv
  <2>3. /\ phase[t] = "held" => call[t[1]] # "ringing"
        /\ OwnerPhone /\ phase[t] \in {"remove", "gone"} /\ call[t[1]] = "ringing"
             => t \in cancelled \cup expired \/ t[1] \in refused
    BY Zenon DEF RingInv, Done
  <2>4. QED
    BY <2>1, <2>2, <2>3
<1>3. cancelled \subseteq cancelled' /\ expired \subseteq expired' /\ refused \subseteq refused'
  BY ReasonsStay
<1>4. call'[t[1]] = "ringing" => call[t[1]] \in {"ringing", "idle"}
  <2>1. t[1] \in Calls
    BY SessionCall
  <2>2. call'[t[1]] = "ringing" => call[t[1]] = "ringing" \/ Ring(t[1])
    BY <2>1, CallMoves
  <2>3. QED
    BY <2>2 DEF Ring
<1>5. CASE phase'[t] = phase[t]
  BY <1>2, <1>3, <1>4, <1>5
<1>6. CASE phase'[t] = "answer"
  BY <1>6
<1>7. CASE Session(t)
  <2>1. phase[t] = "remove" => phase'[t] = "gone"
    <3>1. phase[t] = "remove" => Remove(t)
      BY <1>7 DEF Session, AnswerOk, AnswerFails, TransferOk, TransferFails, Released, Go
    <3>2. QED
      BY <1>0, <3>1 DEF Remove, Go
  <2>2. cancelled' = cancelled
    BY <1>7, Zenon DEF Session
  <2>3. QED
    BY <1>2, <1>3, <1>4, <1>7, <2>2, SessionLeaves
<1>8. CASE phase' = phase
  BY <1>5, <1>8
<1>9. ASSUME NEW s \in Sessions, phase' = [phase EXCEPT ![s] = "answer"]
      PROVE  phase'[t] = phase[t] \/ phase'[t] = "answer"
  BY <1>0, <1>9
<1>10. ASSUME NEW s \in Sessions, Session(s), s # t
       PROVE  phase'[t] = phase[t]
  <2>1. PICK to \in Running \cup {"gone"} : Lives(s, to)
    BY <1>10, SessionLives
  <2>2. phase' = [phase EXCEPT ![s] = to]
    BY <2>1, Zenon DEF Lives
  <2>3. QED
    BY <1>0, <1>10, <2>2
<1>11. \/ phase' = phase \/ (\E s \in Sessions : phase' = [phase EXCEPT ![s] = "answer"])
       \/ \E s \in Sessions : Session(s)
  BY ShutSteps, Zenon DEF NextShape, HangupUnknown, startCall, HandleHangup, ShutShape, vars
<1>12. QED
  BY <1>5, <1>6, <1>7, <1>8, <1>9, <1>10, <1>11

\* RingingOnlyLate: a session that could not take its call left it ringing
\* only when the carrier refused the transfer or the context of both attempts
\* was done (gateway.go:94).
THEOREM RingingOnlyLateTheorem == Spec => []RingingOnlyLate
<1>1. Init => RingInv
  BY DEF Init, RingInv
<1>2. ASSUME TypeOK, PostInv, RingInv, [Next]_vars
      PROVE  RingInv'
  BY <1>2, TypeParts, NextSteps, RingStep
<1>3. RingInv => RingingOnlyLate
  <2>1. "gone" \in {"remove", "gone"}
    OBVIOUS
  <2>2. QED
    BY <2>1, Zenon DEF RingInv, RingingOnlyLate
<1>4. QED
  BY <1>1, <1>2, <1>3, TypeOKTheorem, PostInvTheorem, PTL DEF Spec

=============================================================================
