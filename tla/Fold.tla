-------------------------------- MODULE Fold --------------------------------
(***************************************************************************)
(* state = fold(events) (go/internal/event/fold.go): the snapshot a set of *)
(* a call's envelopes stands for, in whatever order and however often they *)
(* were delivered.  An envelope is a record with its seq, its id (ULIDs:   *)
(* in the order of emission), type, node and what the payload says:        *)
(* a locale, or a variable's name and value.                               *)
(***************************************************************************)
EXTENDS Integers, FiniteSetsExt

NewSnapshot ==
  [status |-> "", locale |-> "", cursor |-> "", vars |-> <<>>,
   callerTurns |-> 0, agentTurns |-> 0, errors |-> 0, lastSeq |-> 0]

Statuses == [x \in {"call.started", "call.answered", "call.ended",
                    "transfer.initiated", "transfer.answered"} |->
  CASE x = "call.started" -> "started" [] x = "call.answered" -> "answered"
    [] x = "call.ended" -> "ended" [] x = "transfer.initiated" -> "transferring"
    [] OTHER -> "transferred"]

applyDetectedOnly(s, e) ==  \* Variant of apply.
  [s EXCEPT
    !.status = IF e.type \in DOMAIN Statuses THEN Statuses[e.type] ELSE @,
    !.locale = IF e.type = "language.detected" THEN e.value ELSE @,
    !.cursor = IF e.type = "node.entered" THEN e.node ELSE @,
    !.vars = IF e.type = "var.assigned"
             THEN [x \in DOMAIN @ \cup {e.name} |-> IF x = e.name THEN e.value ELSE @[x]] ELSE @,
    !.callerTurns = IF e.type = "stt.final" THEN @ + 1 ELSE @,
    !.agentTurns = IF e.type = "agent.turn.completed" THEN @ + 1 ELSE @]

apply(s, e) ==
  [s EXCEPT
    !.status = IF e.type \in DOMAIN Statuses THEN Statuses[e.type] ELSE @,
    !.locale = IF e.type \in {"language.detected", "language.switched"} THEN e.value ELSE @,
    !.cursor = IF e.type = "node.entered" THEN e.node ELSE @,
    !.vars = IF e.type = "var.assigned"
             THEN [x \in DOMAIN @ \cup {e.name} |-> IF x = e.name THEN e.value ELSE @[x]] ELSE @,
    !.callerTurns = IF e.type = "stt.final" THEN @ + 1 ELSE @,
    !.agentTurns = IF e.type = "agent.turn.completed" THEN @ + 1 ELSE @,
    !.errors = IF e.type = "error.raised" THEN @ + 1 ELSE @,
    !.lastSeq = e.seq]

(* In the order of their numbers; of several envelopes with one number the  *)
(* oldest counts.                                                           *)
Fold(events) ==
  LET Kept == {e \in events : \A d \in events : d.seq = e.seq => e.id <= d.id}
      upTo[n \in 0..Max({0} \cup {e.seq : e \in events})] ==
        IF n = 0 THEN NewSnapshot
        ELSE IF \E e \in Kept : e.seq = n
             THEN apply(upTo[n - 1], CHOOSE e \in Kept : e.seq = n)
             ELSE upTo[n - 1]
  IN upTo[Max({0} \cup {e.seq : e \in events})]
=============================================================================
