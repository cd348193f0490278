-------------------------------- MODULE Hedge -------------------------------
(***************************************************************************)
(* Hedged LLM completions over the process-wide provider breakers          *)
(* (go/internal/degrade/hedge.go with breaker.go).  Each member of         *)
(* Completions is one call of Hedge.Complete, run by its call's goroutine; *)
(* launching an attempt spawns a goroutine that asks the provider's        *)
(* breaker, completes, tells the breaker and sends its result.  All        *)
(* completions share the breakers.                                         *)
(*                                                                         *)
(* Telling the breaker and sending the result are one step: no other       *)
(* goroutine sees the point between them unless the send blocks, and       *)
(* ResultsFit says that it never does.                                     *)
(***************************************************************************)
EXTENDS Breaker, Sequences, FiniteSets

CONSTANTS
  Completions,  \* concurrent calls of Hedge.Complete
  Primary,      \* provider names
  Secondary

Providers == {Primary, Secondary}

VARIABLES
  breaker,   \* [Providers -> BreakerState], the Registry
  pc,        \* where each Complete is: "idle", "racing" or what it returned
  attempt,   \* goroutines of each Complete in launch order: [provider, at]
  secondaryStarted,
  cancelled, \* the context of the Complete is done
  results,   \* its results channel
  errs,      \* failures received
  probes     \* history: attempts admitted by a non-closed breaker since it
             \* opened or its interval last elapsed

vars == <<breaker, pc, attempt, secondaryStarted, cancelled, results, errs, probes>>

Returned == {"answered", "allFailed", "ctxErr"}

\* launch(provider): the goroutine exists but has not asked the breaker yet.
launch(c, p) ==
  attempt' = [attempt EXCEPT ![c] = Append(@, [provider |-> p, at |-> "starting"])]

\* Returning runs the deferred cancel.
return(c, what) ==
  /\ pc' = [pc EXCEPT ![c] = what]
  /\ cancelled' = [cancelled EXCEPT ![c] = TRUE]

\* Variant: a channel with room for one result.
FinishSmallBuffer(c, i, ok) ==
  /\ Len(results[c]) < 1
  /\ attempt' = [attempt EXCEPT ![c][i].at = "finished"]
  /\ results' = [results EXCEPT ![c] = Append(@, ok)]

\* The goroutine sends its result, blocking while the channel is full.
Finish(c, i, ok) ==
  /\ Len(results[c]) < 2
  /\ attempt' = [attempt EXCEPT ![c][i].at = "finished"]
  /\ results' = [results EXCEPT ![c] = Append(@, ok)]
-----------------------------------------------------------------------------
(* The goroutine of Complete.                                              *)

Start(c) ==
  /\ pc[c] = "idle"
  /\ pc' = [pc EXCEPT ![c] = "racing"]
  /\ launch(c, Primary)
  /\ UNCHANGED <<breaker, secondaryStarted, cancelled, results, errs, probes>>

\* The call of Complete is over and its goroutines are gone: a later turn of
\* the conversation completes again.
NextTurn(c) ==
  /\ pc[c] \in Returned
  /\ \A i \in 1..Len(attempt[c]) : attempt[c][i].at = "finished"
  /\ pc' = [pc EXCEPT ![c] = "idle"]
  /\ attempt' = [attempt EXCEPT ![c] = << >>]
  /\ secondaryStarted' = [secondaryStarted EXCEPT ![c] = FALSE]
  /\ cancelled' = [cancelled EXCEPT ![c] = FALSE]
  /\ results' = [results EXCEPT ![c] = << >>]
  /\ errs' = [errs EXCEPT ![c] = 0]
  /\ UNCHANGED <<breaker, probes>>

\* Variant: the timer case does not look at secondaryStarted.
TimerFiresTwice(c) ==
  /\ pc[c] = "racing"
  /\ Len(attempt[c]) < 4
  /\ secondaryStarted' = [secondaryStarted EXCEPT ![c] = TRUE]
  /\ launch(c, Secondary)
  /\ UNCHANGED <<breaker, pc, cancelled, results, errs, probes>>

\* The hedge timer: start the secondary unless it runs already.
TimerFires(c) ==
  /\ pc[c] = "racing"
  /\ ~secondaryStarted[c]
  /\ secondaryStarted' = [secondaryStarted EXCEPT ![c] = TRUE]
  /\ launch(c, Secondary)
  /\ UNCHANGED <<breaker, pc, cancelled, results, errs, probes>>

\* Variant: gives up once the secondary was started and a failure came in.
ReceiveImpatient(c) ==
  /\ pc[c] = "racing"
  /\ results[c] # << >>
  /\ results' = [results EXCEPT ![c] = Tail(@)]
  /\ IF Head(results[c])
     THEN /\ return(c, "answered")
          /\ UNCHANGED <<attempt, secondaryStarted, errs>>
     ELSE /\ errs' = [errs EXCEPT ![c] = @ + 1]
          /\ IF ~secondaryStarted[c]
             THEN /\ secondaryStarted' = [secondaryStarted EXCEPT ![c] = TRUE]
                  /\ launch(c, Secondary)
                  /\ UNCHANGED <<pc, cancelled>>
             ELSE /\ return(c, "allFailed")
                  /\ UNCHANGED <<attempt, secondaryStarted>>
  /\ UNCHANGED <<breaker, probes>>

\* Variant: off by one in the last comparison.
ReceiveWaitsForMore(c) ==
  /\ pc[c] = "racing"
  /\ results[c] # << >>
  /\ results' = [results EXCEPT ![c] = Tail(@)]
  /\ IF Head(results[c])
     THEN /\ return(c, "answered")
          /\ UNCHANGED <<attempt, secondaryStarted, errs>>
     ELSE /\ errs' = [errs EXCEPT ![c] = @ + 1]
          /\ IF ~secondaryStarted[c]
             THEN /\ secondaryStarted' = [secondaryStarted EXCEPT ![c] = TRUE]
                  /\ launch(c, Secondary)
                  /\ UNCHANGED <<pc, cancelled>>
             ELSE IF errs'[c] > Len(attempt[c])
             THEN /\ return(c, "allFailed")
                  /\ UNCHANGED <<attempt, secondaryStarted>>
             ELSE UNCHANGED <<pc, cancelled, attempt, secondaryStarted>>
  /\ UNCHANGED <<breaker, probes>>

\* A result: the first success wins; a failure starts the secondary at once
\* if the timer has not, and ends the race when every attempt has failed.
Receive(c) ==
  /\ pc[c] = "racing"
  /\ results[c] # << >>
  /\ results' = [results EXCEPT ![c] = Tail(@)]
  /\ IF Head(results[c])
     THEN /\ return(c, "answered")
          /\ UNCHANGED <<attempt, secondaryStarted, errs>>
     ELSE /\ errs' = [errs EXCEPT ![c] = @ + 1]
          /\ IF ~secondaryStarted[c]
             THEN /\ secondaryStarted' = [secondaryStarted EXCEPT ![c] = TRUE]
                  /\ launch(c, Secondary)
                  /\ UNCHANGED <<pc, cancelled>>
             ELSE IF errs'[c] = Len(attempt[c])
             THEN /\ return(c, "allFailed")
                  /\ UNCHANGED <<attempt, secondaryStarted>>
             ELSE UNCHANGED <<pc, cancelled, attempt, secondaryStarted>>
  /\ UNCHANGED <<breaker, probes>>

\* The caller's context: barge-in, rethink or hangup cancels the turn.
ParentCancels(c) ==
  /\ pc[c] = "racing"
  /\ ~cancelled[c]
  /\ cancelled' = [cancelled EXCEPT ![c] = TRUE]
  /\ UNCHANGED <<breaker, pc, attempt, secondaryStarted, results, errs, probes>>

CtxDone(c) ==
  /\ pc[c] = "racing"
  /\ cancelled[c]
  /\ return(c, "ctxErr")
  /\ UNCHANGED <<breaker, attempt, secondaryStarted, results, errs, probes>>
-----------------------------------------------------------------------------
(* The goroutine of attempt i.                                             *)

\* br.Allow().
AskBreaker(c, i) ==
  LET p == attempt[c][i].provider
      b == breaker[p]
  IN  /\ attempt[c][i].at = "starting"
      /\ IF Allows(b)
         THEN /\ breaker' = [breaker EXCEPT ![p] = AfterAllow(b)]
              /\ attempt' = [attempt EXCEPT ![c][i].at = "running"]
              /\ probes' = IF b.state = "closed" THEN probes
                           ELSE [probes EXCEPT ![p] = @ + 1]
              /\ UNCHANGED results
         ELSE /\ Finish(c, i, FALSE)
              /\ UNCHANGED <<breaker, probes>>
  /\ UNCHANGED <<pc, secondaryStarted, cancelled, errs>>

\* The provider answered, even if nobody waits for it any more.
AttemptSucceeds(c, i) ==
  /\ attempt[c][i].at = "running"
  /\ breaker' = [breaker EXCEPT ![attempt[c][i].provider] = Success(@)]
  /\ probes' = [probes EXCEPT ![attempt[c][i].provider] = 0]
  /\ Finish(c, i, TRUE)
  /\ UNCHANGED <<pc, secondaryStarted, cancelled, errs>>

\* It failed (an error or a deadline, which is not context.Canceled).
AttemptFails(c, i) ==
  LET p == attempt[c][i].provider IN
  /\ attempt[c][i].at = "running"
  /\ breaker' = [breaker EXCEPT ![p] = Failure(@)]
  /\ probes' = IF breaker[p].state = "open" THEN probes ELSE [probes EXCEPT ![p] = 0]
  /\ Finish(c, i, FALSE)
  /\ UNCHANGED <<pc, secondaryStarted, cancelled, errs>>

\* It was cancelled: the breaker is told nothing.
AttemptCancelled(c, i) ==
  /\ attempt[c][i].at = "running"
  /\ cancelled[c]
  /\ Finish(c, i, FALSE)
  /\ UNCHANGED <<breaker, pc, secondaryStarted, cancelled, errs, probes>>
-----------------------------------------------------------------------------
\* The probe interval of an open breaker elapses.
IntervalElapses(p) ==
  /\ breaker[p].state = "open" /\ ~breaker[p].cooled
  /\ breaker' = [breaker EXCEPT ![p] = Cool(@)]
  /\ probes' = [probes EXCEPT ![p] = 0]
  /\ UNCHANGED <<pc, attempt, secondaryStarted, cancelled, results, errs>>

Init ==
  /\ breaker = [p \in Providers |-> NewBreaker]
  /\ pc = [c \in Completions |-> "idle"]
  /\ attempt = [c \in Completions |-> << >>]
  /\ secondaryStarted = [c \in Completions |-> FALSE]
  /\ cancelled = [c \in Completions |-> FALSE]
  /\ results = [c \in Completions |-> << >>]
  /\ errs = [c \in Completions |-> 0]
  /\ probes = [p \in Providers |-> 0]

Loop(c)     == Receive(c) \/ CtxDone(c)
Step(c, i)  == AskBreaker(c, i) \/ AttemptSucceeds(c, i) \/ AttemptFails(c, i)
               \/ AttemptCancelled(c, i)
Goroutines(c) == \E i \in 1..Len(attempt[c]) : Step(c, i)

Next ==
  \/ \E c \in Completions :
       \/ Start(c) \/ NextTurn(c) \/ TimerFires(c) \/ Receive(c) \/ ParentCancels(c) \/ CtxDone(c)
       \/ Goroutines(c)
  \/ \E p \in Providers : IntervalElapses(p)

Spec == Init /\ [][Next]_vars

\* Goroutines are scheduled, and a provider's Complete returns: an answer, an
\* error (its own deadline) or, once cancelled, context.Canceled.
FairSpec == Spec /\ \A c \in Completions : WF_vars(Loop(c)) /\ WF_vars(Goroutines(c))
-----------------------------------------------------------------------------
(* Properties.                                                             *)

\* A provider that is down is not stormed: while its breaker is not closed,
\* all calls together send it at most one attempt per probe interval, however
\* late the failures of earlier attempts arrive (Breaker.Allow, ADR-006 3).
OneProbePerInterval ==
  \A p \in Providers : breaker[p].state # "closed" => probes[p] <= 1

\* The results channel has room for every attempt, so a losing goroutine
\* never blocks on its send after Complete has returned (hedge.go:99).
ResultsFit ==
  \A c \in Completions :
    Len(results[c]) + Cardinality({i \in 1..Len(attempt[c]) :
                                     attempt[c][i].at # "finished"}) <= 2

\* ErrAllProvidersFailed means it: both providers were tried or refused and
\* neither attempt is still under way (Complete, len(errs) == launched).
GivesUpLast ==
  \A c \in Completions : pc[c] = "allFailed" =>
    /\ Len(attempt[c]) = 2
    /\ \A i \in 1..2 : attempt[c][i].at = "finished"
    /\ results[c] = << >>

\* A half-open breaker keeps its probe: it loses it only to a success, a
\* failure, or - telling it nothing, and for good - to the cancelling of the
\* completion the probe ran for (breaker.go:18, hedge.go:117-121).
Probing(p) ==
  \E c \in Completions : \E i \in 1..Len(attempt[c]) :
    attempt[c][i] = [provider |-> p, at |-> "running"]

ProbeLostOnlyToCancel ==
  [][\A p \in Providers :
       breaker'[p].state = "half_open" /\ ~Probing(p)' =>
         \/ breaker[p].state = "half_open" /\ ~Probing(p)
         \/ \E c \in Completions : \E i \in 1..Len(attempt[c]) :
              /\ attempt[c][i] = [provider |-> p, at |-> "running"]
              /\ cancelled[c]]_vars

\* Every Complete returns to its call.
Returns == \A c \in Completions : pc[c] = "racing" ~> pc[c] \in Returned

\* No goroutine outlives its Complete for ever: the loser is reaped.
AttemptsReaped ==
  \A c \in Completions :
    pc[c] \in Returned ~> \A i \in 1..Len(attempt[c]) : attempt[c][i].at = "finished"
=============================================================================
