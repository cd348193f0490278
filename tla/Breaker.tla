------------------------------- MODULE Breaker ------------------------------
(***************************************************************************)
(* The circuit breaker of one provider (go/internal/degrade/breaker.go) as *)
(* a record and the three operations other modules apply to it under its   *)
(* mutex.  openedAt is only ever compared with the probe interval, so the  *)
(* record keeps cooled: the interval has elapsed since the breaker opened. *)
(* The write-only probing flag is left out.                                *)
(***************************************************************************)
EXTENDS Naturals

CONSTANT MaxFailures

ASSUME BreakerAssumption == MaxFailures \in Nat \ {0}

BreakerState == [state : {"closed", "open", "half_open"},
                 failures : 0..MaxFailures, cooled : BOOLEAN]

NewBreaker == [state |-> "closed", failures |-> 0, cooled |-> FALSE]

\* The breaker once the probe interval has elapsed.
Cool(b) == IF b.state = "open" THEN [b EXCEPT !.cooled = TRUE] ELSE b

\* Allow(): the answer ...
Allows(b) == b.state = "closed" \/ (b.state = "open" /\ b.cooled)

\* Variant: the probe leaves the breaker open.
AllowStaysOpen(b) == b

\* ... and what it leaves behind: an open breaker admits its probe.
AfterAllow(b) ==
  IF b.state = "open" /\ b.cooled
  THEN [b EXCEPT !.state = "half_open", !.cooled = FALSE]
  ELSE b

Success(b) == [b EXCEPT !.state = "closed", !.failures = 0, !.cooled = FALSE]

Opened(b) == [b EXCEPT !.state = "open", !.cooled = FALSE]

\* Variant: the failure of a probe is not counted.
FailureKeepsHalfOpen(b) ==
  IF b.state # "closed" THEN b
  ELSE LET counted == [b EXCEPT !.failures = @ + 1] IN
       IF counted.failures >= MaxFailures THEN Opened(counted) ELSE counted

\* Failure(): half-open reopens at once, closed after MaxFailures in a row.
Failure(b) ==
  CASE b.state = "half_open" -> Opened(b)
    [] b.state = "closed" ->
         LET counted == [b EXCEPT !.failures = @ + 1] IN
         IF counted.failures >= MaxFailures THEN Opened(counted) ELSE counted
    [] b.state = "open" -> b
=============================================================================
