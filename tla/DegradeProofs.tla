---------------------------- MODULE DegradeProofs --------------------------
(***************************************************************************)
(* Theorems about the two parts of the degradation layer (internal/        *)
(* degrade) that keep state.  Hedge, for any number of concurrent          *)
(* completions and any failure threshold: a breaker that is not closed     *)
(* lets one probe through per interval, the results channel never fills,   *)
(* and a completion gives up only when both attempts are over.  STTRing,   *)
(* for every number of providers, capacity of the ring and length of the   *)
(* call: what the ring holds, that no frame reaches a connection twice or  *)
(* out of order, and which frames may be lost.                             *)
(***************************************************************************)
EXTENDS Hedge, STTRing, SequenceTheorems, FiniteSetTheorems, TLAPS

-----------------------------------------------------------------------------
(* THE BREAKERS AND THE HEDGE                                              *)

(* The breaker (breaker.go).                                               *)

\* A closed breaker has failed less often than it takes to open it.
GoodBreaker(b) == b \in BreakerState /\ (b.state = "closed" => b.failures < MaxFailures)

\* What the operations do to the record, field by field.
States == {"closed", "open", "half_open"}
SetAll(b, st, n, co) == [b EXCEPT !.state = st, !.failures = n, !.cooled = co]
SetState(b, st, co)  == [b EXCEPT !.state = st, !.cooled = co]
SetCooled(b, co)     == [b EXCEPT !.cooled = co]
SetFailures(b, n)    == [b EXCEPT !.failures = n]

\* Opening, or closing, a breaker (Failure, Success).
LEMMA SetAllFields ==
  ASSUME NEW b \in BreakerState, NEW st \in States, NEW n \in 0..MaxFailures, NEW co \in BOOLEAN
  PROVE  /\ SetAll(b, st, n, co) \in BreakerState
         /\ SetAll(b, st, n, co).state = st /\ SetAll(b, st, n, co).failures = n
BY DEF SetAll, States, BreakerState

\* Letting a probe through (Allow).
LEMMA SetStateFields ==
  ASSUME NEW b \in BreakerState, NEW st \in States, NEW co \in BOOLEAN
  PROVE  /\ SetState(b, st, co) \in BreakerState
         /\ SetState(b, st, co).state = st /\ SetState(b, st, co).cooled = co
BY DEF SetState, States, BreakerState

\* The interval of an open breaker passes.
LEMMA SetCooledFields ==
  ASSUME NEW b \in BreakerState, NEW co \in BOOLEAN
  PROVE  /\ SetCooled(b, co) \in BreakerState
         /\ SetCooled(b, co).state = b.state /\ SetCooled(b, co).failures = b.failures
BY DEF SetCooled, BreakerState

\* A failure below the threshold is counted (Failure).
LEMMA SetFailuresFields ==
  ASSUME NEW b \in BreakerState, NEW n \in 0..MaxFailures
  PROVE  /\ SetFailures(b, n) \in BreakerState
         /\ SetFailures(b, n).state = b.state /\ SetFailures(b, n).failures = n
BY DEF SetFailures, BreakerState

\* The fields of a good breaker.
LEMMA GoodFields ==
  ASSUME NEW b, GoodBreaker(b)
  PROVE  /\ b \in BreakerState /\ b.state \in States /\ b.failures \in 0..MaxFailures
         /\ b.state = "closed" => b.failures < MaxFailures
         /\ MaxFailures \in Nat \ {0}
BY BreakerAssumption DEF GoodBreaker, BreakerState, States

\* A new breaker is closed and has not failed.
LEMMA NewIsGood == GoodBreaker(NewBreaker)
BY BreakerAssumption DEF GoodBreaker, BreakerState, NewBreaker

\* Success closes the breaker.
LEMMA SuccessIsGood ==
  ASSUME NEW b, GoodBreaker(b)
  PROVE  GoodBreaker(Success(b)) /\ Success(b).state = "closed"
<1>1. Success(b) = SetAll(b, "closed", 0, FALSE)
  BY DEF Success, SetAll
<1>2. 0 \in 0..MaxFailures /\ "closed" \in States /\ FALSE \in BOOLEAN /\ b \in BreakerState
  BY GoodFields DEF States
<1>3. /\ SetAll(b, "closed", 0, FALSE) \in BreakerState
      /\ SetAll(b, "closed", 0, FALSE).state = "closed"
      /\ SetAll(b, "closed", 0, FALSE).failures = 0
  BY <1>2, SetAllFields, ZenonT(60)
<1>4. Success(b) \in BreakerState /\ Success(b).state = "closed" /\ Success(b).failures = 0
  BY <1>1, <1>3, Zenon
<1>5. QED
  BY <1>4, BreakerAssumption DEF GoodBreaker

\* Opening the breaker, or half-opening it, leaves it good and not cooled.
LEMMA SetStateIsGood ==
  ASSUME NEW b \in BreakerState, NEW st \in {"open", "half_open"}
  PROVE  /\ GoodBreaker(SetState(b, st, FALSE))
         /\ SetState(b, st, FALSE).state = st /\ ~SetState(b, st, FALSE).cooled
<1>1. st \in States /\ st # "closed" /\ FALSE \in BOOLEAN
  BY DEF States
<1>2. /\ SetState(b, st, FALSE) \in BreakerState
      /\ SetState(b, st, FALSE).state = st
      /\ SetState(b, st, FALSE).cooled = FALSE
  BY <1>1, SetStateFields, Zenon
<1>3. QED
  BY <1>1, <1>2 DEF GoodBreaker

\* An admitted probe leaves the breaker half-open.
LEMMA AllowIsGood ==
  ASSUME NEW b, GoodBreaker(b), Allows(b)
  PROVE  /\ GoodBreaker(AfterAllow(b))
         /\ b.state = "closed" => AfterAllow(b) = b
         /\ b.state # "closed" => b.state = "open" /\ b.cooled /\ AfterAllow(b).state = "half_open"
<1>1. CASE b.state = "closed"
  BY <1>1 DEF AfterAllow
<1>2. CASE b.state # "closed"
  <2>1. b.state = "open" /\ b.cooled /\ AfterAllow(b) = SetState(b, "half_open", FALSE)
    BY <1>2, Zenon DEF Allows, AfterAllow, SetState
  <2>2. QED
    BY <1>2, <2>1, SetStateIsGood, GoodFields, Zenon
<1>3. QED
  BY <1>1, <1>2

\* The interval elapses for an open breaker.
LEMMA CoolIsGood ==
  ASSUME NEW b, GoodBreaker(b)
  PROVE  GoodBreaker(Cool(b)) /\ Cool(b).state = b.state
<1>1. CASE b.state = "open"
  <2>1. Cool(b) = SetCooled(b, TRUE)
    BY <1>1, Zenon DEF Cool, SetCooled
  <2>2. TRUE \in BOOLEAN /\ b \in BreakerState /\ b.state \in States /\ b.failures \in 0..MaxFailures
    BY GoodFields
  <2>3. SetCooled(b, TRUE) \in BreakerState /\ SetCooled(b, TRUE).state = b.state
    BY <2>2, SetCooledFields, Zenon
  <2>4. QED
    BY <1>1, <2>1, <2>3 DEF GoodBreaker
<1>2. CASE b.state # "open"
  BY <1>2 DEF Cool
<1>3. QED
  BY <1>1, <1>2

\* A failure leaves an open breaker alone, opens a half-open one, and counts
\* in a closed one, which opens at the threshold.
LEMMA FailureIsGood ==
  ASSUME NEW b, GoodBreaker(b)
  PROVE  /\ GoodBreaker(Failure(b))
         /\ b.state = "open" => Failure(b) = b
         /\ Failure(b).state # "half_open"
<1>0. b \in BreakerState /\ b.state \in States /\ b.failures \in 0..MaxFailures
      /\ MaxFailures \in Nat \ {0}
  BY GoodFields
<1>1. CASE b.state = "half_open"
  <2>1. Failure(b) = SetState(b, "open", FALSE)
    BY <1>1 DEF Failure, Opened, SetState
  <2>2. QED
    BY <1>0, <1>1, <2>1, SetStateIsGood, Zenon
<1>2. CASE b.state = "open"
  BY <1>2 DEF Failure
<1>3. CASE b.state = "closed"
  <2> DEFINE n == b.failures + 1  counted == SetFailures(b, n)
  <2>1. n \in 0..MaxFailures /\ TRUE \in BOOLEAN
    BY <1>0, <1>3, GoodFields
  <2>2. counted \in BreakerState /\ counted.state = b.state /\ counted.failures = n
    BY <1>0, <2>1, SetFailuresFields, Zenon
  <2>3. Failure(b) = IF counted.failures >= MaxFailures THEN SetState(counted, "open", FALSE)
                     ELSE counted
    BY <1>3 DEF Failure, Opened, SetState, SetFailures
  <2> HIDE DEF n, counted
  <2>4. /\ GoodBreaker(SetState(counted, "open", FALSE))
        /\ SetState(counted, "open", FALSE).state = "open"
    BY <2>2, SetStateIsGood, Zenon
  <2>5. counted.failures < MaxFailures => GoodBreaker(counted)
    BY <2>2 DEF GoodBreaker
  <2>6. ~(counted.failures >= MaxFailures) => counted.failures < MaxFailures
    BY <1>0, <2>1, <2>2
  <2>7. QED
    BY <1>3, <2>2, <2>3, <2>4, <2>5, <2>6, Zenon
<1>4. QED
  BY <1>0, <1>1, <1>2, <1>3 DEF States
-----------------------------------------------------------------------------
(* Types.                                                                  *)

Attempts == [provider : Providers, at : {"starting", "running", "finished"}]

BreakersTyped == /\ breaker \in [Providers -> BreakerState]
                 /\ \A p \in Providers : GoodBreaker(breaker[p])
                 /\ probes \in [Providers -> Nat]

RacesTyped ==
  /\ pc \in [Completions -> {"idle", "racing"} \cup Returned]
  /\ attempt \in [Completions -> Seq(Attempts)]
  /\ secondaryStarted \in [Completions -> BOOLEAN]
  /\ cancelled \in [Completions -> BOOLEAN]
  /\ results \in [Completions -> Seq(BOOLEAN)]
  /\ errs \in [Completions -> Nat]

TypeInv == BreakersTyped /\ RacesTyped

\* Launching an attempt: the sequence grows by one that is starting.
LEMMA Launched ==
  ASSUME RacesTyped, NEW c \in Completions, NEW p \in Providers, launch(c, p)
  PROVE  /\ attempt' \in [Completions -> Seq(Attempts)]
         /\ Len(attempt'[c]) = Len(attempt[c]) + 1
         /\ \A i \in 1..Len(attempt[c]) : attempt'[c][i] = attempt[c][i]
         /\ attempt'[c][Len(attempt[c]) + 1].at = "starting"
         /\ \A d \in Completions \ {c} : attempt'[d] = attempt[d]
<1> DEFINE a == [provider |-> p, at |-> "starting"]
<1>1. a \in Attempts /\ attempt[c] \in Seq(Attempts)
  BY DEF Attempts, RacesTyped
<1>2. attempt' = [attempt EXCEPT ![c] = Append(attempt[c], a)]
  BY DEF launch
<1>3. a.at = "starting"
  OBVIOUS
<1> HIDE DEF a
<1>4. /\ Append(attempt[c], a) \in Seq(Attempts)
      /\ Len(Append(attempt[c], a)) = Len(attempt[c]) + 1
      /\ \A i \in 1..Len(attempt[c]) : Append(attempt[c], a)[i] = attempt[c][i]
      /\ Append(attempt[c], a)[Len(attempt[c]) + 1] = a
  BY <1>1, AppendProperties
<1>5. QED
  BY <1>2, <1>3, <1>4 DEF RacesTyped

\* An attempt moves on: only its own place changes.
LEMMA Moved ==
  ASSUME RacesTyped, NEW c \in Completions, NEW i \in 1..Len(attempt[c]),
         NEW step \in {"starting", "running", "finished"},
         attempt' = [attempt EXCEPT ![c][i].at = step]
  PROVE  /\ attempt' \in [Completions -> Seq(Attempts)]
         /\ Len(attempt'[c]) = Len(attempt[c])
         /\ attempt'[c][i] = [provider |-> attempt[c][i].provider, at |-> step]
         /\ attempt'[c][i].at = step
         /\ \A j \in 1..Len(attempt[c]) : j # i => attempt'[c][j] = attempt[c][j]
         /\ \A d \in Completions \ {c} : attempt'[d] = attempt[d]
<1> DEFINE a == [attempt[c][i] EXCEPT !.at = step]
<1>1. attempt[c] \in Seq(Attempts)
  BY DEF RacesTyped
<1>2. attempt[c][i] \in Attempts
  BY <1>1, ElementOfSeq
<1>3. a \in Attempts /\ a.at = step /\ a = [provider |-> attempt[c][i].provider, at |-> step]
  BY <1>2 DEF Attempts
<1>4. attempt' = [attempt EXCEPT ![c] = [attempt[c] EXCEPT ![i] = a]]
  BY DEF RacesTyped
<1> HIDE DEF a
<1>5. /\ [attempt[c] EXCEPT ![i] = a] \in Seq(Attempts)
      /\ Len([attempt[c] EXCEPT ![i] = a]) = Len(attempt[c])
      /\ \A j \in 1..Len(attempt[c]) : [attempt[c] EXCEPT ![i] = a][j] = IF j = i THEN a ELSE attempt[c][j]
  BY <1>1, <1>3, ExceptSeq
<1>6. QED
  BY <1>3, <1>4, <1>5 DEF RacesTyped
-----------------------------------------------------------------------------
(* One probe per interval.                                                 *)

\* A breaker that is not closed admitted at most one probe since its interval
\* began, and none since it cooled.
Fits(b, n) == /\ b.state # "closed" => n <= 1
              /\ b.state = "open" /\ b.cooled => n = 0

ProbesCounted == \A p \in Providers : Fits(breaker[p], probes[p])

\* The breaker of q becomes b, a good one, and its count of probes n.
Told(q, b, n) == /\ GoodBreaker(b) /\ n \in Nat /\ Fits(b, n)
                 /\ breaker' = [breaker EXCEPT ![q] = b]
                 /\ probes' = [probes EXCEPT ![q] = n]

\* What a step may do to the breakers.
BreakerStep == \/ UNCHANGED <<breaker, probes>>
               \/ \E q \in Providers : \E b, n : Told(q, b, n)

\* With no probe counted any breaker fits.
LEMMA NoneFits == \A b : Fits(b, 0)
BY DEF Fits

\* The attempt of a completion asks a provider of the registry.
LEMMA AsksProvider ==
  ASSUME RacesTyped, NEW c \in Completions, NEW i \in 1..Len(attempt[c])
  PROVE  attempt[c][i] \in Attempts /\ attempt[c][i].provider \in Providers
<1>1. attempt[c] \in Seq(Attempts)
  BY DEF RacesTyped
<1>2. attempt[c][i] \in Attempts
  BY <1>1, ElementOfSeq
<1>3. QED
  BY <1>2 DEF Attempts

\* A good breaker per provider, and a count.
LEMMA BreakerTyped ==
  ASSUME BreakersTyped, NEW p \in Providers
  PROVE  GoodBreaker(breaker[p]) /\ probes[p] \in Nat
BY DEF BreakersTyped

\* Each step of an attempt's goroutine tells the breaker what it may hear.
LEMMA StepTells ==
  ASSUME TypeInv, ProbesCounted, NEW c \in Completions, NEW i \in 1..Len(attempt[c]), Step(c, i)
  PROVE  BreakerStep
<1> DEFINE p == attempt[c][i].provider  b == breaker[p]
<1>1. p \in Providers
  BY AsksProvider DEF TypeInv
<1>2. GoodBreaker(b) /\ probes[p] \in Nat /\ Fits(b, probes[p])
  BY <1>1, BreakerTyped, Zenon DEF TypeInv, ProbesCounted
<1>0. probes = [probes EXCEPT ![p] = probes[p]] /\ breaker = [breaker EXCEPT ![p] = b]
  BY DEF TypeInv, BreakersTyped
<1>3. CASE AskBreaker(c, i)
  <2>1. CASE Allows(b)
    <3>1. breaker' = [breaker EXCEPT ![p] = AfterAllow(b)]
          /\ probes' = IF b.state = "closed" THEN probes ELSE [probes EXCEPT ![p] = probes[p] + 1]
      BY <1>3, <2>1, Zenon DEF AskBreaker
    <3>2. /\ GoodBreaker(AfterAllow(b))
          /\ b.state = "closed" => AfterAllow(b) = b
          /\ b.state # "closed" => b.state = "open" /\ b.cooled /\ AfterAllow(b).state = "half_open"
      BY <1>2, <2>1, AllowIsGood, Zenon
    <3>3. CASE b.state = "closed"
      <4>1. Told(p, b, probes[p])
        BY <1>0, <1>2, <3>1, <3>2, <3>3, Zenon DEF Told
      <4>2. QED
        BY <4>1, <1>1, Zenon DEF BreakerStep
    <3>4. CASE b.state # "closed"
      <4>1. probes[p] = 0
        BY <1>2, <3>2, <3>4, Zenon DEF Fits
      <4>2. 0 + 1 \in Nat /\ Fits(AfterAllow(b), 0 + 1)
        BY <3>2, <3>4 DEF Fits
      <4>3. Told(p, AfterAllow(b), 0 + 1)
        BY <4>1, <4>2, <3>1, <3>2, <3>4, Zenon DEF Told
      <4>4. QED
        BY <4>3, <1>1, Zenon DEF BreakerStep
    <3>5. QED
      BY <3>3, <3>4
  <2>2. CASE ~Allows(b)
    BY <1>3, <2>2, Zenon DEF AskBreaker, BreakerStep
  <2>3. QED
    BY <2>1, <2>2
<1>4. CASE AttemptSucceeds(c, i)
  <2>1. Told(p, Success(b), 0)
    <3>1. breaker' = [breaker EXCEPT ![p] = Success(b)] /\ probes' = [probes EXCEPT ![p] = 0]
      BY <1>4, Zenon DEF AttemptSucceeds
    <3>2. 0 \in Nat
      OBVIOUS
    <3>3. QED
      BY <3>1, <3>2, <1>2, SuccessIsGood, NoneFits, Zenon DEF Told
  <2>2. QED
    BY <2>1, <1>1, Zenon DEF BreakerStep
<1>5. CASE AttemptFails(c, i)
  <2>1. breaker' = [breaker EXCEPT ![p] = Failure(b)]
        /\ probes' = IF b.state = "open" THEN probes ELSE [probes EXCEPT ![p] = 0]
    BY <1>5, Zenon DEF AttemptFails
  <2>2. GoodBreaker(Failure(b)) /\ (b.state = "open" => Failure(b) = b)
    BY <1>2, FailureIsGood, Zenon
  <2>3. CASE b.state = "open"
    <3>1. UNCHANGED <<breaker, probes>>
      BY <2>1, <2>2, <2>3, <1>0, Zenon
    <3>2. QED
      BY <3>1, Zenon DEF BreakerStep
  <2>4. CASE b.state # "open"
    <3>1. 0 \in Nat
      OBVIOUS
    <3>2. Told(p, Failure(b), 0)
      BY <3>1, <2>1, <2>2, <2>4, NoneFits, Zenon DEF Told
    <3>3. QED
      BY <3>2, <1>1, Zenon DEF BreakerStep
  <2>5. QED
    BY <2>3, <2>4
<1>6. CASE AttemptCancelled(c, i)
  BY <1>6, Zenon DEF AttemptCancelled, BreakerStep
<1>7. QED
  BY <1>3, <1>4, <1>5, <1>6 DEF Step

\* So does every step of the system.
LEMMA NextTells ==
  ASSUME TypeInv, ProbesCounted, [Next]_vars
  PROVE  BreakerStep
<1>1. ASSUME NEW c \in Completions,
             Start(c) \/ NextTurn(c) \/ TimerFires(c) \/ Receive(c) \/ ParentCancels(c) \/ CtxDone(c)
      PROVE  BreakerStep
  BY <1>1, Zenon DEF Start, NextTurn, TimerFires, Receive, ParentCancels, CtxDone, BreakerStep
<1>2. ASSUME NEW c \in Completions, Goroutines(c)
      PROVE  BreakerStep
  BY <1>2, StepTells, Zenon DEF Goroutines
<1>3. ASSUME NEW p \in Providers, IntervalElapses(p)
      PROVE  BreakerStep
  <2>1. GoodBreaker(breaker[p])
    BY BreakerTyped DEF TypeInv
  <2>2. GoodBreaker(Cool(breaker[p])) /\ 0 \in Nat
    BY <2>1, CoolIsGood
  <2>3. Told(p, Cool(breaker[p]), 0)
    BY <1>3, <2>2, NoneFits, Zenon DEF IntervalElapses, Told
  <2>4. QED
    BY <2>3, Zenon DEF BreakerStep
<1>4. CASE UNCHANGED vars
  BY <1>4, Zenon DEF vars, BreakerStep
<1>5. QED
  BY <1>1, <1>2, <1>3, <1>4, Zenon DEF Next

\* And what a breaker may be told keeps its count within the interval.
LEMMA TellingKeeps ==
  ASSUME BreakersTyped, ProbesCounted, BreakerStep
  PROVE  BreakersTyped' /\ ProbesCounted'
<1>1. CASE UNCHANGED <<breaker, probes>>
  BY <1>1, Zenon DEF BreakersTyped, ProbesCounted
<1>2. ASSUME NEW q \in Providers, NEW b, NEW n, Told(q, b, n)
      PROVE  BreakersTyped' /\ ProbesCounted'
  <2>1. /\ breaker' \in [Providers -> BreakerState] /\ probes' \in [Providers -> Nat]
        /\ \A p \in Providers : /\ breaker'[p] = IF p = q THEN b ELSE breaker[p]
                                /\ probes'[p] = IF p = q THEN n ELSE probes[p]
    BY <1>2 DEF Told, BreakersTyped, GoodBreaker
  <2>2. \A p \in Providers : GoodBreaker(breaker'[p]) /\ Fits(breaker'[p], probes'[p])
    BY <2>1, <1>2, Zenon DEF Told, BreakersTyped, ProbesCounted
  <2>3. QED
    BY <2>1, <2>2, Zenon DEF BreakersTyped, ProbesCounted
<1>3. QED
  BY <1>1, <1>2 DEF BreakerStep
-----------------------------------------------------------------------------
(* The races.                                                              *)

\* Results still to come from the goroutines of a completion, and those its
\* Complete has taken from the channel.
Ongoing(c, i) == IF i <= Len(attempt[c]) /\ attempt[c][i].at # "finished" THEN 1 ELSE 0
Owed(c)       == Ongoing(c, 1) + Ongoing(c, 2)
Received(c)   == errs[c] + IF pc[c] = "answered" THEN 1 ELSE 0

\* Every attempt launched is still owed, in the channel, or received; and a
\* completion that gave up received a failure from each of the two.
RaceInv(c) ==
  /\ Len(attempt[c]) = IF pc[c] = "idle" THEN 0 ELSE IF secondaryStarted[c] THEN 2 ELSE 1
  /\ pc[c] = "idle" => ~secondaryStarted[c]
  /\ Len(results[c]) + Owed(c) + Received(c) = Len(attempt[c])
  /\ pc[c] = "allFailed" => secondaryStarted[c] /\ errs[c] = 2

RacesInv == RacesTyped /\ \A c \in Completions : RaceInv(c)

\* A step of the completion c leaves the others alone.
SameRace(d) == /\ pc'[d] = pc[d] /\ attempt'[d] = attempt[d] /\ errs'[d] = errs[d]
               /\ secondaryStarted'[d] = secondaryStarted[d] /\ results'[d] = results[d]
OnlyRace(c) == RacesTyped' /\ RaceInv(c)' /\ \A d \in Completions \ {c} : SameRace(d)

\* A completion whose race is left alone keeps its invariant (hedge.go: the
\* channel and the counters are Complete's own).
LEMMA SameRaceKeeps ==
  ASSUME NEW d \in Completions, RaceInv(d), SameRace(d)
  PROVE  RaceInv(d)'
BY DEF RaceInv, SameRace, Owed, Ongoing, Received

\* The values the invariant counts with.
LEMMA RaceNumbers ==
  ASSUME RacesTyped, NEW c \in Completions
  PROVE  /\ Len(attempt[c]) \in Nat /\ Len(results[c]) \in Nat /\ errs[c] \in Nat
         /\ Ongoing(c, 1) \in {0, 1} /\ Ongoing(c, 2) \in {0, 1}
         /\ Owed(c) \in 0..2 /\ Received(c) \in Nat
         /\ attempt[c] \in Seq(Attempts) /\ results[c] \in Seq(BOOLEAN)
<1>1. attempt[c] \in Seq(Attempts) /\ results[c] \in Seq(BOOLEAN) /\ errs[c] \in Nat
  BY DEF RacesTyped
<1>2. Len(attempt[c]) \in Nat /\ Len(results[c]) \in Nat
  BY <1>1, LenProperties
<1>3. Ongoing(c, 1) \in {0, 1} /\ Ongoing(c, 2) \in {0, 1}
  BY Zenon DEF Ongoing
<1>4. Owed(c) \in 0..2
  BY <1>3 DEF Owed
<1>5. Received(c) \in Nat
  BY <1>1 DEF Received
<1>6. QED
  BY <1>1, <1>2, <1>3, <1>4, <1>5

\* Complete starts: one attempt, owed.
LEMMA StartKeeps ==
  ASSUME RacesTyped, NEW c \in Completions, RaceInv(c), Start(c)
  PROVE  OnlyRace(c)
<1>1. pc[c] = "idle" /\ launch(c, Primary) /\ Primary \in Providers
      /\ pc' = [pc EXCEPT ![c] = "racing"]
      /\ UNCHANGED <<secondaryStarted, cancelled, results, errs>>
  BY DEF Start, Providers
<1>2. /\ attempt' \in [Completions -> Seq(Attempts)]
      /\ Len(attempt'[c]) = Len(attempt[c]) + 1
      /\ attempt'[c][Len(attempt[c]) + 1].at = "starting"
      /\ \A d \in Completions \ {c} : attempt'[d] = attempt[d]
  BY <1>1, Launched
<1>3. RacesTyped'
  BY <1>1, <1>2 DEF RacesTyped
<1>4. Len(attempt[c]) = 0 /\ ~secondaryStarted[c] /\ Len(results[c]) = 0 /\ errs[c] = 0
  BY <1>1, RaceNumbers DEF RaceInv, Owed, Received
<1>5. RaceInv(c)'
  <2>1. Len(attempt'[c]) = 1 /\ attempt'[c][1].at = "starting"
    BY <1>2, <1>4
  <2>2. Ongoing(c, 1)' = 1 /\ Ongoing(c, 2)' = 0
    BY <2>1 DEF Ongoing
  <2>3. pc'[c] = "racing" /\ ~secondaryStarted'[c] /\ Len(results'[c]) = 0 /\ errs'[c] = 0
    BY <1>1, <1>4 DEF RacesTyped
  <2>4. QED
    BY <2>1, <2>2, <2>3 DEF RaceInv, Owed, Received
<1>6. QED
  BY <1>1, <1>2, <1>3, <1>5 DEF OnlyRace, SameRace, RacesTyped

\* The next turn starts from nothing.
LEMMA NextTurnKeeps ==
  ASSUME RacesTyped, NEW c \in Completions, RaceInv(c), NextTurn(c)
  PROVE  OnlyRace(c)
<1>0. << >> \in Seq(Attempts) /\ << >> \in Seq(BOOLEAN) /\ Len(<< >>) = 0 /\ FALSE \in BOOLEAN
  BY EmptySeq
<1>1. RacesTyped'
  BY <1>0 DEF NextTurn, RacesTyped
<1>2. RaceInv(c)'
  <2>1. pc'[c] = "idle" /\ Len(attempt'[c]) = 0 /\ ~secondaryStarted'[c]
        /\ Len(results'[c]) = 0 /\ errs'[c] = 0
    BY <1>0 DEF NextTurn, RacesTyped
  <2>2. Ongoing(c, 1)' = 0 /\ Ongoing(c, 2)' = 0
    BY <2>1 DEF Ongoing
  <2>3. QED
    BY <2>1, <2>2 DEF RaceInv, Owed, Received
<1>3. QED
  BY <1>1, <1>2 DEF NextTurn, OnlyRace, SameRace, RacesTyped

\* Launching the secondary adds one attempt, owed, to a race of one.
LEMMA SecondaryLaunched ==
  ASSUME RacesTyped, NEW c \in Completions, RaceInv(c), pc[c] = "racing", ~secondaryStarted[c],
         launch(c, Secondary)
  PROVE  /\ attempt' \in [Completions -> Seq(Attempts)] /\ Len(attempt'[c]) = 2
         /\ Owed(c)' = Owed(c) + 1
         /\ \A d \in Completions \ {c} : attempt'[d] = attempt[d]
<1>1. /\ attempt' \in [Completions -> Seq(Attempts)]
      /\ Len(attempt'[c]) = Len(attempt[c]) + 1
      /\ \A i \in 1..Len(attempt[c]) : attempt'[c][i] = attempt[c][i]
      /\ attempt'[c][Len(attempt[c]) + 1].at = "starting"
      /\ \A d \in Completions \ {c} : attempt'[d] = attempt[d]
  BY Launched DEF Providers
<1>2. Len(attempt[c]) = 1
  BY DEF RaceInv
<1>3. Len(attempt'[c]) = 2 /\ attempt'[c][1] = attempt[c][1] /\ attempt'[c][2].at = "starting"
  BY <1>1, <1>2
<1>4. Ongoing(c, 1)' = Ongoing(c, 1) /\ Ongoing(c, 2)' = 1 /\ Ongoing(c, 2) = 0
  BY <1>2, <1>3 DEF Ongoing
<1>5. Ongoing(c, 1) \in {0, 1}
  BY RaceNumbers
<1>6. Owed(c)' = Owed(c) + 1
  BY <1>4, <1>5 DEF Owed
<1>7. QED
  BY <1>1, <1>3, <1>6

\* The hedge's timer starts the secondary, once (Complete).
LEMMA TimerKeeps ==
  ASSUME RacesTyped, NEW c \in Completions, RaceInv(c), TimerFires(c)
  PROVE  OnlyRace(c)
<1>1. /\ pc[c] = "racing" /\ ~secondaryStarted[c] /\ launch(c, Secondary)
      /\ secondaryStarted' = [secondaryStarted EXCEPT ![c] = TRUE]
      /\ UNCHANGED <<pc, cancelled, results, errs>>
  BY DEF TimerFires
<1>2. /\ attempt' \in [Completions -> Seq(Attempts)] /\ Len(attempt'[c]) = 2
      /\ Owed(c)' = Owed(c) + 1
      /\ \A d \in Completions \ {c} : attempt'[d] = attempt[d]
  BY <1>1, SecondaryLaunched
<1>3. RacesTyped'
  BY <1>1, <1>2 DEF RacesTyped
<1>4. RaceInv(c)'
  <2>1. Len(results[c]) + Owed(c) + errs[c] = 1
    <3>1. Received(c) = errs[c] + 0 /\ Len(attempt[c]) = 1
      BY <1>1 DEF RaceInv, Received
    <3>2. Len(results[c]) + Owed(c) + Received(c) = Len(attempt[c])
      BY DEF RaceInv
    <3>3. Len(results[c]) \in Nat /\ Owed(c) \in Nat /\ errs[c] \in Nat
      BY RaceNumbers
    <3>4. QED
      BY <3>1, <3>2, <3>3
  <2>2. secondaryStarted'[c] = TRUE
    BY <1>1 DEF RacesTyped
  <2>3. pc'[c] = "racing" /\ results'[c] = results[c] /\ errs'[c] = errs[c]
    BY <1>1
  <2>4. Len(results'[c]) + Owed(c)' + Received(c)' = 2
    <3>1. Received(c)' = errs[c] + 0
      BY <2>3 DEF Received
    <3>2. Len(results[c]) \in Nat /\ Owed(c) \in Nat /\ errs[c] \in Nat
      BY RaceNumbers
    <3>3. QED
      BY <3>1, <3>2, <1>2, <2>1, <2>3, SMTT(60)
  <2>5. QED
    BY <1>2, <2>2, <2>3, <2>4 DEF RaceInv
<1>5. QED
  BY <1>1, <1>2, <1>3, <1>4 DEF OnlyRace, SameRace, RacesTyped

\* Counting a failure.
LEMMA ErrsCounted ==
  ASSUME RacesTyped, NEW c \in Completions, errs' = [errs EXCEPT ![c] = @ + 1]
  PROVE  /\ errs' \in [Completions -> Nat] /\ errs'[c] = errs[c] + 1
         /\ \A d \in Completions \ {c} : errs'[d] = errs[d]
BY DEF RacesTyped

\* Complete takes a result: a success ends the race, a failure starts the
\* secondary, ends the race when it is the second, or is only counted.
LEMMA ReceiveKeeps ==
  ASSUME RacesTyped, NEW c \in Completions, RaceInv(c), Receive(c)
  PROVE  OnlyRace(c)
<1>1. /\ pc[c] = "racing" /\ results[c] # << >>
      /\ results' = [results EXCEPT ![c] = Tail(results[c])]
  BY DEF Receive
<1>2. /\ results' \in [Completions -> Seq(BOOLEAN)]
      /\ results'[c] = Tail(results[c]) /\ Len(results'[c]) = Len(results[c]) - 1
      /\ \A d \in Completions \ {c} : results'[d] = results[d]
  <2>1. Tail(results[c]) \in Seq(BOOLEAN) /\ Len(Tail(results[c])) = Len(results[c]) - 1
    BY <1>1, RaceNumbers, HeadTailProperties
  <2>2. QED
    BY <1>1, <2>1 DEF RacesTyped
<1>3. /\ Len(results[c]) \in Nat /\ Owed(c) \in Nat /\ errs[c] \in Nat /\ Len(attempt[c]) \in Nat
      /\ Len(results[c]) + Owed(c) + errs[c] = Len(attempt[c])
      /\ Len(attempt[c]) = IF secondaryStarted[c] THEN 2 ELSE 1
  <2>1. Received(c) = errs[c] + 0
    BY <1>1 DEF Received
  <2>2. Len(results[c]) + Owed(c) + Received(c) = Len(attempt[c])
    BY DEF RaceInv
  <2>3. QED
    BY <1>1, <2>1, <2>2, RaceNumbers DEF RaceInv
<1>4. CASE Head(results[c])
  <2>1. return(c, "answered") /\ UNCHANGED <<attempt, secondaryStarted, errs>>
    BY <1>4, Zenon DEF Receive
  <2>2. RacesTyped'
    BY <2>1, <1>2 DEF return, RacesTyped, Returned
  <2>3. RaceInv(c)'
    <3>1. pc'[c] = "answered" /\ Owed(c)' = Owed(c) /\ Received(c)' = errs[c] + 1
      BY <2>1 DEF return, RacesTyped, Owed, Ongoing, Received
    <3>2. Len(results'[c]) + Owed(c)' + Received(c)' = Len(attempt'[c])
      BY <1>2, <1>3, <2>1, <3>1, SMTT(60)
    <3>3. QED
      BY <1>3, <2>1, <3>1, <3>2 DEF RaceInv
  <2>4. QED
    BY <2>1, <2>2, <2>3, <1>2 DEF OnlyRace, SameRace, return, RacesTyped
<1>5. CASE ~Head(results[c]) /\ ~secondaryStarted[c]
  <2>1. /\ errs' = [errs EXCEPT ![c] = @ + 1]
        /\ secondaryStarted' = [secondaryStarted EXCEPT ![c] = TRUE]
        /\ launch(c, Secondary) /\ UNCHANGED <<pc, cancelled>>
    BY <1>5, Zenon DEF Receive
  <2>2. /\ attempt' \in [Completions -> Seq(Attempts)] /\ Len(attempt'[c]) = 2
        /\ Owed(c)' = Owed(c) + 1
        /\ \A d \in Completions \ {c} : attempt'[d] = attempt[d]
    BY <1>1, <1>5, <2>1, SecondaryLaunched
  <2>0. /\ errs' \in [Completions -> Nat] /\ errs'[c] = errs[c] + 1
        /\ \A d \in Completions \ {c} : errs'[d] = errs[d]
    BY <2>1, ErrsCounted
  <2>3. RacesTyped'
    <3>1. secondaryStarted' \in [Completions -> BOOLEAN]
      BY <2>1 DEF RacesTyped
    <3>2. QED
      BY <3>1, <2>0, <2>1, <2>2, <1>2 DEF RacesTyped
  <2>4. RaceInv(c)'
    <3>1. secondaryStarted'[c] = TRUE
      BY <2>1 DEF RacesTyped
    <3>2. pc'[c] = "racing" /\ errs'[c] = errs[c] + 1
      BY <1>1, <2>0, <2>1 DEF RacesTyped
    <3>3. Received(c)' = errs[c] + 1 + 0
      BY <3>2 DEF Received
    <3>0. Len(results[c]) + Owed(c) + errs[c] = 1
      BY <1>3, <1>5
    <3>4. Len(results'[c]) + Owed(c)' + Received(c)' = 2
      <4>1. Len(results[c]) \in Nat /\ Owed(c) \in Nat /\ errs[c] \in Nat
        BY <1>3
      <4>2. Len(results'[c]) = Len(results[c]) - 1 /\ Owed(c)' = Owed(c) + 1
        BY <1>2, <2>2
      <4>3. Len(results'[c]) + Owed(c)' = Len(results[c]) + Owed(c)
        BY <4>1, <4>2
      <4>4. Received(c)' = errs[c] + 1
        BY <3>3, <4>1
      <4>5. QED
        BY <3>0, <4>1, <4>3, <4>4
    <3>5. QED
      BY <2>2, <3>1, <3>2, <3>4 DEF RaceInv
  <2>5. QED
    BY <2>0, <2>1, <2>2, <2>3, <2>4, <1>2 DEF OnlyRace, SameRace, RacesTyped
<1>6. CASE ~Head(results[c]) /\ secondaryStarted[c]
  <2>1. /\ errs' = [errs EXCEPT ![c] = @ + 1] /\ UNCHANGED <<attempt, secondaryStarted>>
        /\ \/ errs'[c] = Len(attempt[c]) /\ return(c, "allFailed")
           \/ UNCHANGED <<pc, cancelled>>
    BY <1>6, Zenon DEF Receive
  <2>0. /\ errs' \in [Completions -> Nat] /\ errs'[c] = errs[c] + 1
        /\ \A d \in Completions \ {c} : errs'[d] = errs[d]
    BY <2>1, ErrsCounted
  <2>2. RacesTyped'
    <3>1. pc' \in [Completions -> {"idle", "racing"} \cup Returned]
          /\ cancelled' \in [Completions -> BOOLEAN]
      BY <2>1 DEF return, RacesTyped, Returned
    <3>2. QED
      BY <3>1, <2>0, <2>1, <1>2 DEF RacesTyped
  <2>3. RaceInv(c)'
    <3>0. pc'[c] = "racing" \/ (pc'[c] = "allFailed" /\ errs'[c] = Len(attempt[c]))
      BY <1>1, <2>1 DEF return, RacesTyped
    <3>1. /\ errs'[c] = errs[c] + 1 /\ Owed(c)' = Owed(c)
          /\ pc'[c] = "racing" \/ (pc'[c] = "allFailed" /\ errs'[c] = 2)
      BY <1>3, <1>6, <2>0, <2>1, <3>0 DEF Owed, Ongoing
    <3>2. Received(c)' = errs[c] + 1 + 0
      BY <3>1 DEF Received
    <3>3. Len(results'[c]) + Owed(c)' + Received(c)' = Len(attempt'[c])
      BY <1>2, <1>3, <2>1, <3>1, <3>2
    <3>4. QED
      BY <1>3, <1>6, <2>1, <3>1, <3>3 DEF RaceInv
  <2>4. QED
    BY <2>0, <2>1, <2>2, <2>3, <1>2 DEF OnlyRace, SameRace, return, RacesTyped
<1>7. QED
  BY <1>4, <1>5, <1>6

\* The contexts change no count.
LEMMA CancelKeeps ==
  ASSUME RacesTyped, NEW c \in Completions, RaceInv(c), ParentCancels(c) \/ CtxDone(c)
  PROVE  OnlyRace(c)
<1>1. /\ UNCHANGED <<attempt, secondaryStarted, results, errs>>
      /\ pc[c] = "racing" /\ (pc' = pc \/ pc' = [pc EXCEPT ![c] = "ctxErr"])
      /\ cancelled' = [cancelled EXCEPT ![c] = TRUE]
  BY DEF ParentCancels, CtxDone, return
<1>2. RacesTyped'
  BY <1>1 DEF RacesTyped, Returned
<1>3. pc'[c] \in {"racing", "ctxErr"} /\ Owed(c)' = Owed(c)
  BY <1>1 DEF RacesTyped, Owed, Ongoing
<1>4. Received(c)' = Received(c)
  BY <1>1, <1>3 DEF Received
<1>5. RaceInv(c)'
  BY <1>1, <1>3, <1>4 DEF RaceInv
<1>6. QED
  BY <1>1, <1>2, <1>5 DEF OnlyRace, SameRace, RacesTyped

\* An attempt that ends is finished; the others stay.
LEMMA Ended ==
  ASSUME RacesTyped, NEW c \in Completions, NEW i \in 1..Len(attempt[c]),
         attempt' = [attempt EXCEPT ![c][i].at = "finished"]
  PROVE  /\ attempt' \in [Completions -> Seq(Attempts)]
         /\ Len(attempt'[c]) = Len(attempt[c]) /\ attempt'[c][i].at = "finished"
         /\ \A j \in 1..Len(attempt[c]) : j # i => attempt'[c][j] = attempt[c][j]
         /\ \A d \in Completions \ {c} : attempt'[d] = attempt[d]
<1> DEFINE a == [attempt[c][i] EXCEPT !.at = "finished"]
<1>1. attempt[c] \in Seq(Attempts)
  BY DEF RacesTyped
<1>2. attempt[c][i] \in Attempts
  BY <1>1, ElementOfSeq
<1>3. a \in Attempts /\ a.at = "finished"
  BY <1>2 DEF Attempts
<1>4. attempt' = [attempt EXCEPT ![c] = [attempt[c] EXCEPT ![i] = a]]
  BY DEF RacesTyped
<1> HIDE DEF a
<1>5. /\ [attempt[c] EXCEPT ![i] = a] \in Seq(Attempts)
      /\ Len([attempt[c] EXCEPT ![i] = a]) = Len(attempt[c])
      /\ \A j \in 1..Len(attempt[c]) : [attempt[c] EXCEPT ![i] = a][j] = IF j = i THEN a ELSE attempt[c][j]
  BY <1>1, <1>3, ExceptSeq
<1>6. QED
  BY <1>3, <1>4, <1>5 DEF RacesTyped

\* An attempt finishes: the result it owed is in the channel.
LEMMA FinishKeeps ==
  ASSUME RacesTyped, NEW c \in Completions, RaceInv(c), NEW i \in 1..Len(attempt[c]),
         attempt[c][i].at # "finished", NEW ok \in BOOLEAN, Finish(c, i, ok),
         UNCHANGED <<pc, secondaryStarted, cancelled, errs>>
  PROVE  OnlyRace(c)
<1>1. /\ attempt' \in [Completions -> Seq(Attempts)]
      /\ Len(attempt'[c]) = Len(attempt[c]) /\ attempt'[c][i].at = "finished"
      /\ \A j \in 1..Len(attempt[c]) : j # i => attempt'[c][j] = attempt[c][j]
      /\ \A d \in Completions \ {c} : attempt'[d] = attempt[d]
  <2>1. attempt' = [attempt EXCEPT ![c][i].at = "finished"]
    BY DEF Finish
  <2>2. QED
    BY <2>1, Ended
<1>2. /\ results' \in [Completions -> Seq(BOOLEAN)] /\ Len(results'[c]) = Len(results[c]) + 1
      /\ \A d \in Completions \ {c} : results'[d] = results[d]
  <2>1. Append(results[c], ok) \in Seq(BOOLEAN) /\ Len(Append(results[c], ok)) = Len(results[c]) + 1
    BY RaceNumbers, AppendProperties
  <2>2. QED
    BY <2>1 DEF Finish, RacesTyped
<1>3. RacesTyped'
  BY <1>1, <1>2 DEF RacesTyped
<1>4. Len(attempt[c]) \in 0..2
  BY DEF RaceInv
<1>5. Owed(c)' = Owed(c) - 1
  <2>1. CASE i = 1
    <3>1. Ongoing(c, 1) = 1 /\ Ongoing(c, 1)' = 0 /\ Ongoing(c, 2)' = Ongoing(c, 2)
      BY <2>1, <1>1, <1>4 DEF Ongoing
    <3>2. QED
      BY <3>1, RaceNumbers DEF Owed
  <2>2. CASE i = 2
    <3>1. Ongoing(c, 2) = 1 /\ Ongoing(c, 2)' = 0 /\ Ongoing(c, 1)' = Ongoing(c, 1)
      BY <2>2, <1>1, <1>4 DEF Ongoing
    <3>2. QED
      BY <3>1, RaceNumbers DEF Owed
  <2>3. QED
    BY <2>1, <2>2, <1>4
<1>6. RaceInv(c)'
  <2>1. Received(c)' = Received(c)
    BY DEF Received
  <2>2. /\ Len(results[c]) \in Nat /\ Owed(c) \in Nat /\ Received(c) \in Nat
        /\ Len(results[c]) + Owed(c) + Received(c) = Len(attempt[c])
    BY RaceNumbers DEF RaceInv
  <2>3. Len(results'[c]) + Owed(c)' + Received(c)' = Len(attempt'[c])
    BY <1>1, <1>2, <1>5, <2>1, <2>2
  <2>4. QED
    BY <1>1, <2>3 DEF RaceInv
<1>7. QED
  BY <1>1, <1>2, <1>3, <1>6 DEF OnlyRace, SameRace

\* Each step of an attempt's goroutine keeps the race's account.
LEMMA StepKeeps ==
  ASSUME RacesTyped, NEW c \in Completions, RaceInv(c), NEW i \in 1..Len(attempt[c]), Step(c, i)
  PROVE  OnlyRace(c)
<1>0. TRUE \in BOOLEAN /\ FALSE \in BOOLEAN
  OBVIOUS
<1>1. CASE AskBreaker(c, i) /\ UNCHANGED results
  <2>1. CASE Allows(breaker[attempt[c][i].provider])
    <3>1. /\ attempt[c][i].at = "starting" /\ attempt' = [attempt EXCEPT ![c][i].at = "running"]
          /\ UNCHANGED <<pc, secondaryStarted, cancelled, errs, results>>
      BY <1>1, <2>1, Zenon DEF AskBreaker
    <3>2. /\ attempt' \in [Completions -> Seq(Attempts)]
          /\ Len(attempt'[c]) = Len(attempt[c]) /\ attempt'[c][i].at = "running"
          /\ \A j \in 1..Len(attempt[c]) : j # i => attempt'[c][j] = attempt[c][j]
          /\ \A d \in Completions \ {c} : attempt'[d] = attempt[d]
      BY <3>1, Moved
    <3>3. RacesTyped'
      BY <3>1, <3>2 DEF RacesTyped
    <3>4. Len(attempt[c]) \in 0..2
      BY DEF RaceInv
    <3>5. Ongoing(c, 1)' = Ongoing(c, 1) /\ Ongoing(c, 2)' = Ongoing(c, 2)
      BY <3>1, <3>2, <3>4 DEF Ongoing
    <3>6. RaceInv(c)'
      BY <3>1, <3>2, <3>5 DEF RaceInv, Owed, Received
    <3>7. QED
      BY <3>1, <3>2, <3>3, <3>6 DEF OnlyRace, SameRace
  <2>2. CASE ~Allows(breaker[attempt[c][i].provider])
    BY <1>0, <1>1, <2>2, FinishKeeps DEF AskBreaker
  <2>3. QED
    BY <2>1, <2>2
<1>2. CASE AskBreaker(c, i) /\ results' # results
  BY <1>0, <1>2, FinishKeeps DEF AskBreaker
<1>3. CASE AttemptSucceeds(c, i)
  BY <1>0, <1>3, FinishKeeps DEF AttemptSucceeds
<1>4. CASE AttemptFails(c, i)
  BY <1>0, <1>4, FinishKeeps DEF AttemptFails
<1>5. CASE AttemptCancelled(c, i)
  BY <1>0, <1>5, FinishKeeps DEF AttemptCancelled
<1>6. QED
  BY <1>1, <1>2, <1>3, <1>4, <1>5 DEF Step
-----------------------------------------------------------------------------
(* The theorems.                                                           *)

HedgeInv == BreakersTyped /\ ProbesCounted /\ RacesInv

\* The Registry starts with closed breakers and no completion under way.
LEMMA Initially == Init => HedgeInv
<1> SUFFICES ASSUME Init PROVE HedgeInv
  OBVIOUS
<1>0. << >> \in Seq(Attempts) /\ << >> \in Seq(BOOLEAN) /\ Len(<< >>) = 0 /\ FALSE \in BOOLEAN
  BY EmptySeq
<1>1. BreakersTyped /\ ProbesCounted
  <2>1. GoodBreaker(NewBreaker) /\ NewBreaker \in BreakerState /\ 0 \in Nat
    BY NewIsGood DEF GoodBreaker
  <2>2. QED
    BY <2>1, NoneFits, Zenon DEF Init, BreakersTyped, ProbesCounted
<1>2. RacesTyped
  BY <1>0 DEF Init, RacesTyped
<1>3. ASSUME NEW c \in Completions PROVE RaceInv(c)
  <2>1. pc[c] = "idle" /\ Len(attempt[c]) = 0 /\ ~secondaryStarted[c] /\ Len(results[c]) = 0
        /\ errs[c] = 0
    BY <1>0 DEF Init
  <2>2. Ongoing(c, 1) = 0 /\ Ongoing(c, 2) = 0
    BY <2>1 DEF Ongoing
  <2>3. QED
    BY <2>1, <2>2 DEF RaceInv, Owed, Received
<1>4. QED
  BY <1>1, <1>2, <1>3, Zenon DEF HedgeInv, RacesInv

\* Every step keeps the account of every race.
LEMMA RacesKept ==
  ASSUME RacesInv, [Next]_vars
  PROVE  RacesInv'
<1>1. ASSUME NEW c \in Completions, OnlyRace(c)
      PROVE  RacesInv'
  BY <1>1, SameRaceKeeps, Zenon DEF RacesInv, OnlyRace
<1>2. ASSUME NEW c \in Completions,
             Start(c) \/ NextTurn(c) \/ TimerFires(c) \/ Receive(c) \/ ParentCancels(c) \/ CtxDone(c)
      PROVE  RacesInv'
  <2>1. RacesTyped /\ RaceInv(c)
    BY DEF RacesInv
  <2>2. OnlyRace(c)
    BY <1>2, <2>1, StartKeeps, NextTurnKeeps, TimerKeeps, ReceiveKeeps, CancelKeeps, Zenon
  <2>3. QED
    BY <2>2, <1>1
<1>3. ASSUME NEW c \in Completions, Goroutines(c)
      PROVE  RacesInv'
  <2>1. RacesTyped /\ RaceInv(c)
    BY DEF RacesInv
  <2>2. OnlyRace(c)
    BY <1>3, <2>1, StepKeeps, Zenon DEF Goroutines
  <2>3. QED
    BY <2>2, <1>1
<1>4. ASSUME UNCHANGED <<pc, attempt, secondaryStarted, cancelled, results, errs>>
      PROVE  RacesInv'
  BY <1>4 DEF RacesInv, RacesTyped, RaceInv, Owed, Ongoing, Received
<1>5. ASSUME NEW p \in Providers, IntervalElapses(p)
      PROVE  RacesInv'
  BY <1>4, <1>5 DEF IntervalElapses
<1>6. CASE UNCHANGED vars
  BY <1>4, <1>6 DEF vars
<1>7. QED
  BY <1>2, <1>3, <1>5, <1>6, Zenon DEF Next

\* The breakers' counts and the races' accounts hold in every reachable state
\* (hedge.go, breaker.go).
THEOREM HedgeInvTheorem == Spec => []HedgeInv
<1>1. ASSUME HedgeInv, [Next]_vars
      PROVE  HedgeInv'
  <2>1. BreakerStep
    BY <1>1, NextTells DEF HedgeInv, TypeInv, RacesInv
  <2>2. QED
    BY <1>1, <2>1, TellingKeeps, RacesKept DEF HedgeInv
<1>2. QED
  BY <1>1, Initially, PTL DEF Spec

\* A provider that is down gets at most one attempt per probe interval from
\* all completions together (Breaker.Allow, breaker.go).
THEOREM OneProbePerIntervalTheorem == Spec => []OneProbePerInterval
<1>1. HedgeInv => OneProbePerInterval
  BY Zenon DEF HedgeInv, ProbesCounted, Fits, OneProbePerInterval
<1>2. QED
  BY <1>1, HedgeInvTheorem, PTL

\* The attempts not finished are the results still owed.
LEMMA OwedCounts ==
  ASSUME RacesTyped, NEW c \in Completions, RaceInv(c)
  PROVE  Cardinality({i \in 1..Len(attempt[c]) : attempt[c][i].at # "finished"}) = Owed(c)
<1> DEFINE U == {i \in 1..Len(attempt[c]) : attempt[c][i].at # "finished"}
<1>1. Len(attempt[c]) \in 0..2
  BY DEF RaceInv
<1>2. U \subseteq {1, 2}
  BY <1>1
<1>3. /\ 1 \in U <=> Ongoing(c, 1) = 1
      /\ 2 \in U <=> Ongoing(c, 2) = 1
      /\ Ongoing(c, 1) \in {0, 1} /\ Ongoing(c, 2) \in {0, 1}
  BY <1>1 DEF Ongoing
<1> SUFFICES Cardinality(U) = Owed(c)
  OBVIOUS
<1> HIDE DEF U
<1>4. /\ Cardinality({}) = 0 /\ Cardinality({1}) = 1 /\ Cardinality({2}) = 1
      /\ Cardinality({1, 2}) = 2
  <2>1. IsFiniteSet({1}) /\ Cardinality({1}) = 1 /\ Cardinality({2}) = 1 /\ Cardinality({}) = 0
    BY FS_Singleton, FS_EmptySet
  <2>2. Cardinality({1} \cup {2}) = 2
    BY <2>1, FS_AddElement
  <2>3. {1} \cup {2} = {1, 2}
    OBVIOUS
  <2>4. QED
    BY <2>1, <2>2, <2>3
<1>0. Ongoing(c, 1) \in {0, 1} /\ Ongoing(c, 2) \in {0, 1}
  BY <1>3
<1>5. CASE 1 \in U /\ 2 \in U
  <2>1. U = {1, 2}
    BY <1>2, <1>5
  <2>2. Ongoing(c, 1) = 1 /\ Ongoing(c, 2) = 1
    BY <1>0, <1>3, <1>5
  <2>3. Owed(c) = 2 /\ Cardinality(U) = 2
    BY <2>1, <2>2, <1>4 DEF Owed
  <2>4. QED
    BY <2>3
<1>6. CASE 1 \in U /\ 2 \notin U
  <2>1. U = {1}
    BY <1>2, <1>6
  <2>2. Ongoing(c, 1) = 1 /\ Ongoing(c, 2) = 0
    BY <1>0, <1>3, <1>6
  <2>3. Owed(c) = 1 /\ Cardinality(U) = 1
    BY <2>1, <2>2, <1>4 DEF Owed
  <2>4. QED
    BY <2>3
<1>7. CASE 1 \notin U /\ 2 \in U
  <2>1. U = {2}
    BY <1>2, <1>7
  <2>2. Ongoing(c, 1) = 0 /\ Ongoing(c, 2) = 1
    BY <1>0, <1>3, <1>7
  <2>3. Owed(c) = 1 /\ Cardinality(U) = 1
    BY <2>1, <2>2, <1>4 DEF Owed
  <2>4. QED
    BY <2>3
<1>8. CASE 1 \notin U /\ 2 \notin U
  <2>1. U = {}
    BY <1>2, <1>8
  <2>2. Ongoing(c, 1) = 0 /\ Ongoing(c, 2) = 0
    BY <1>0, <1>3, <1>8
  <2>3. Owed(c) = 0 /\ Cardinality(U) = 0
    BY <2>1, <2>2, <1>4 DEF Owed
  <2>4. QED
    BY <2>3
<1>9. QED
  BY <1>5, <1>6, <1>7, <1>8

\* The results channel has room for every attempt: a losing goroutine never
\* blocks on its send (Complete, hedge.go).
THEOREM ResultsFitTheorem == Spec => []ResultsFit
<1>1. HedgeInv => ResultsFit
  <2>1. SUFFICES ASSUME RacesTyped, NEW c \in Completions, RaceInv(c)
                 PROVE  Len(results[c]) + Owed(c) <= 2
    <3>1. SUFFICES ASSUME HedgeInv, NEW c \in Completions
                   PROVE  Len(results[c]) + Cardinality({i \in 1..Len(attempt[c]) :
                                              attempt[c][i].at # "finished"}) <= 2
      BY Zenon DEF ResultsFit
    <3>2. RacesTyped /\ RaceInv(c)
      BY <3>1, Zenon DEF HedgeInv, RacesInv
    <3>3. Len(results[c]) + Owed(c) <= 2
      BY <3>2, <2>1
    <3>4. QED
      BY <3>2, <3>3, OwedCounts
  <2>2. Len(results[c]) + Owed(c) + Received(c) = Len(attempt[c]) /\ Len(attempt[c]) <= 2
    BY <2>1 DEF RaceInv
  <2>0. Len(results[c]) \in Nat /\ Owed(c) \in Nat /\ Received(c) \in Nat
    BY <2>1, RaceNumbers
  <2>3. QED
    BY <2>0, <2>2
<1>2. QED
  BY <1>1, HedgeInvTheorem, PTL

\* ErrAllProvidersFailed is returned only when both attempts are over and all
\* their results were taken (Complete, hedge.go).
THEOREM GivesUpLastTheorem == Spec => []GivesUpLast
<1>1. HedgeInv => GivesUpLast
  <2>1. SUFFICES ASSUME RacesTyped, NEW c \in Completions, RaceInv(c), pc[c] = "allFailed"
                 PROVE  /\ Len(attempt[c]) = 2 /\ results[c] = << >>
                        /\ \A i \in 1..2 : attempt[c][i].at = "finished"
    BY Zenon DEF HedgeInv, RacesInv, GivesUpLast
  <2>2. Len(attempt[c]) = 2 /\ errs[c] = 2
    BY <2>1 DEF RaceInv
  <2>3. Len(results[c]) + Owed(c) + Received(c) = Len(attempt[c])
    BY <2>1 DEF RaceInv
  <2>0. Len(results[c]) \in Nat /\ Owed(c) \in Nat
    BY <2>1, RaceNumbers
  <2>4. Received(c) = 2
    BY <2>1, <2>2 DEF Received
  <2>5. Len(results[c]) = 0 /\ Owed(c) = 0
    BY <2>0, <2>2, <2>3, <2>4
  <2>6. results[c] = << >>
    BY <2>1, <2>5, RaceNumbers, EmptySeq
  <2>7. Ongoing(c, 1) = 0 /\ Ongoing(c, 2) = 0
    <3>1. Ongoing(c, 1) \in {0, 1} /\ Ongoing(c, 2) \in {0, 1}
      BY <2>1, RaceNumbers
    <3>2. QED
      BY <3>1, <2>5 DEF Owed
  <2>8. QED
    BY <2>2, <2>6, <2>7 DEF Ongoing
<1>2. QED
  BY <1>1, HedgeInvTheorem, PTL

-----------------------------------------------------------------------------
(* The probe of a half-open breaker.                                       *)

\* What ends a running attempt.
Ends(c, i) == AttemptSucceeds(c, i) \/ AttemptFails(c, i) \/ AttemptCancelled(c, i)

\* An attempt that runs stays as it is until its own goroutine ends it.
LEMMA RunningStays ==
  ASSUME RacesTyped, [Next]_vars,
         NEW d \in Completions, NEW j \in 1..Len(attempt[d]), attempt[d][j].at = "running"
  PROVE  Ends(d, j) \/ (j \in 1..Len(attempt'[d]) /\ attempt'[d][j] = attempt[d][j])
<1> DEFINE Stays == j \in 1..Len(attempt'[d]) /\ attempt'[d][j] = attempt[d][j]
<1>0. Len(attempt[d]) \in Nat
  BY RaceNumbers
<1>1. ASSUME UNCHANGED attempt PROVE Stays
  BY <1>1
<1>2. ASSUME NEW c \in Completions, NEW p \in Providers, launch(c, p) PROVE Stays
  <2>1. /\ Len(attempt'[c]) = Len(attempt[c]) + 1
        /\ \A i \in 1..Len(attempt[c]) : attempt'[c][i] = attempt[c][i]
        /\ \A e \in Completions \ {c} : attempt'[e] = attempt[e]
    BY <1>2, Launched
  <2>2. CASE c = d
    BY <1>0, <2>1, <2>2
  <2>3. CASE c # d
    BY <2>1, <2>3
  <2>4. QED
    BY <2>2, <2>3
<1>3. ASSUME NEW c \in Completions, NEW i \in 1..Len(attempt[c]), c # d \/ i # j,
             NEW step \in {"starting", "running", "finished"},
             attempt' = [attempt EXCEPT ![c][i].at = step]
      PROVE  Stays
  <2>1. /\ Len(attempt'[c]) = Len(attempt[c])
        /\ \A k \in 1..Len(attempt[c]) : k # i => attempt'[c][k] = attempt[c][k]
        /\ \A e \in Completions \ {c} : attempt'[e] = attempt[e]
    BY <1>3, Moved
  <2>2. CASE c = d
    BY <1>3, <2>1, <2>2
  <2>3. CASE c # d
    BY <2>1, <2>3
  <2>4. QED
    BY <2>2, <2>3
<1> HIDE DEF Stays
<1>4. Primary \in Providers /\ Secondary \in Providers
  BY DEF Providers
<1>5. ASSUME NEW c \in Completions, Start(c) \/ TimerFires(c) \/ Receive(c) PROVE Stays
  <2>1. launch(c, Primary) \/ launch(c, Secondary) \/ UNCHANGED attempt
    BY <1>5, Zenon DEF Start, TimerFires, Receive
  <2>2. QED
    BY <2>1, <1>1, <1>2, <1>4, Zenon
<1>6. ASSUME NEW c \in Completions, ParentCancels(c) \/ CtxDone(c) PROVE Stays
  BY <1>1, <1>6, Zenon DEF ParentCancels, CtxDone
<1>7. ASSUME NEW c \in Completions, NextTurn(c) PROVE Stays
  <2>1. c # d
    BY <1>7 DEF NextTurn
  <2>2. attempt'[d] = attempt[d]
    BY <1>7, <2>1 DEF NextTurn, RacesTyped
  <2>3. QED
    BY <2>2 DEF Stays
<1>8. ASSUME NEW c \in Completions, NEW i \in 1..Len(attempt[c]), Step(c, i)
      PROVE  Ends(d, j) \/ Stays
  <2>1. CASE c = d /\ i = j
    BY <1>8, <2>1 DEF Step, Ends, AskBreaker
  <2>2. CASE c # d \/ i # j
    <3>1. \E step \in {"starting", "running", "finished"} :
            attempt' = [attempt EXCEPT ![c][i].at = step]
      BY <1>8, Zenon DEF Step, AskBreaker, AttemptSucceeds, AttemptFails, AttemptCancelled, Finish
    <3>2. QED
      BY <2>2, <3>1, <1>3
  <2>3. QED
    BY <2>1, <2>2
<1>9. ASSUME NEW p \in Providers, IntervalElapses(p) PROVE Stays
  BY <1>1, <1>9, Zenon DEF IntervalElapses
<1>10. CASE UNCHANGED vars
  BY <1>1, <1>10, Zenon DEF vars
<1>11. QED
  BY <1>5, <1>6, <1>7, <1>8, <1>9, <1>10, Zenon DEF Next, Goroutines, Stays

\* A breaker becomes half-open only by admitting an attempt, which then runs.
LEMMA ProbeAdmitted ==
  ASSUME TypeInv, [Next]_vars, NEW p \in Providers,
         breaker[p].state # "half_open", breaker'[p].state = "half_open"
  PROVE  Probing(p)'
<1>0. GoodBreaker(breaker[p]) /\ breaker \in [Providers -> BreakerState]
  BY BreakerTyped DEF TypeInv, BreakersTyped
<1>1. ~UNCHANGED breaker
  OBVIOUS
<1>2. ASSUME NEW q \in Providers, NEW b, b.state # "half_open", breaker' = [breaker EXCEPT ![q] = b]
      PROVE  FALSE
  BY <1>0, <1>2
<1>3. ASSUME NEW c \in Completions, NEW i \in 1..Len(attempt[c]), Step(c, i)
      PROVE  Probing(p)'
  <2> DEFINE q == attempt[c][i].provider
  <2>1. q \in Providers /\ attempt[c][i] \in Attempts /\ GoodBreaker(breaker[q])
    BY AsksProvider, BreakerTyped DEF TypeInv
  <2>2. CASE AskBreaker(c, i)
    <3>1. /\ attempt' = [attempt EXCEPT ![c][i].at = "running"] /\ Allows(breaker[q])
          /\ breaker' = [breaker EXCEPT ![q] = AfterAllow(breaker[q])]
      BY <1>1, <2>2, Zenon DEF AskBreaker
    <3>2. p = q
      BY <1>0, <3>1
    <3>3. "running" \in {"starting", "running", "finished"}
      OBVIOUS
    <3>4. attempt'[c][i] = [provider |-> p, at |-> "running"] /\ Len(attempt'[c]) = Len(attempt[c])
      <4>1. RacesTyped
        BY DEF TypeInv
      <4>2. attempt'[c][i] = [provider |-> q, at |-> "running"] /\ Len(attempt'[c]) = Len(attempt[c])
        BY <3>1, <3>3, <4>1, Moved
      <4>3. QED
        BY <4>2, <3>2
    <3>5. QED
      BY <3>4, Zenon DEF Probing
  <2>3. CASE AttemptSucceeds(c, i)
    <3>1. breaker' = [breaker EXCEPT ![q] = Success(breaker[q])]
      BY <2>3, Zenon DEF AttemptSucceeds
    <3>2. Success(breaker[q]).state # "half_open"
      BY <2>1, SuccessIsGood
    <3>3. QED
      BY <2>1, <3>1, <3>2, <1>2
  <2>4. CASE AttemptFails(c, i)
    <3>1. breaker' = [breaker EXCEPT ![q] = Failure(breaker[q])]
      BY <2>4, Zenon DEF AttemptFails
    <3>2. CASE breaker[q].state = "half_open"
      <4>1. p # q
        BY <3>2
      <4>2. QED
        BY <1>0, <3>1, <4>1
    <3>3. CASE breaker[q].state # "half_open"
      <4>1. Failure(breaker[q]).state # "half_open"
        BY <2>1, <3>3, FailureIsGood
      <4>2. QED
        BY <2>1, <3>1, <4>1, <1>2
    <3>4. QED
      BY <3>2, <3>3
  <2>5. CASE AttemptCancelled(c, i)
    BY <1>1, <2>5, Zenon DEF AttemptCancelled
  <2>6. QED
    BY <1>3, <2>2, <2>3, <2>4, <2>5 DEF Step
<1>4. ASSUME NEW q \in Providers, IntervalElapses(q)
      PROVE  FALSE
  <2>1. GoodBreaker(breaker[q])
    BY BreakerTyped DEF TypeInv
  <2>2. breaker' = [breaker EXCEPT ![q] = Cool(breaker[q])] /\ breaker[q].state = "open"
    BY <1>4, Zenon DEF IntervalElapses
  <2>3. Cool(breaker[q]).state # "half_open"
    BY <2>1, <2>2, CoolIsGood
  <2>4. QED
    BY <2>2, <2>3, <1>2
<1>5. ASSUME NEW c \in Completions,
             Start(c) \/ NextTurn(c) \/ TimerFires(c) \/ Receive(c) \/ ParentCancels(c) \/ CtxDone(c)
      PROVE  FALSE
  BY <1>1, <1>5, Zenon DEF Start, NextTurn, TimerFires, Receive, ParentCancels, CtxDone
<1>6. CASE UNCHANGED vars
  BY <1>1, <1>6, Zenon DEF vars
<1>7. QED
  BY <1>3, <1>4, <1>5, <1>6, Zenon DEF Next, Goroutines

\* A half-open breaker loses its probe only to a success, a failure or, told
\* nothing, to the cancelling of its completion (hedge.go, breaker.go).
THEOREM ProbeLostOnlyToCancelTheorem == Spec => ProbeLostOnlyToCancel
<1> DEFINE Lost(p) == /\ breaker'[p].state = "half_open" /\ ~Probing(p)'
           Allowed(p) == \/ breaker[p].state = "half_open" /\ ~Probing(p)
                         \/ \E c \in Completions : \E i \in 1..Len(attempt[c]) :
                              /\ attempt[c][i] = [provider |-> p, at |-> "running"]
                              /\ cancelled[c]
<1>1. ASSUME HedgeInv, [Next]_vars, NEW p \in Providers, Lost(p) PROVE Allowed(p)
  <2>0. TypeInv /\ RacesTyped /\ BreakersTyped
    BY <1>1 DEF HedgeInv, RacesInv, TypeInv
  <2>1. breaker[p].state = "half_open"
    BY <1>1, <2>0, ProbeAdmitted
  <2>2. SUFFICES ASSUME Probing(p) PROVE Allowed(p)
    BY <2>1
  <2>11. PICK d \in Completions : \E j \in 1..Len(attempt[d]) :
           attempt[d][j] = [provider |-> p, at |-> "running"]
    BY <2>2, Zenon DEF Probing
  <2>3. PICK j \in 1..Len(attempt[d]) : attempt[d][j] = [provider |-> p, at |-> "running"]
    BY <2>11
  <2>4. attempt[d][j].at = "running" /\ attempt[d][j].provider = p
    BY <2>3
  <2>5. Ends(d, j)
    <3>1. ~(j \in 1..Len(attempt'[d]) /\ attempt'[d][j] = attempt[d][j])
      BY <1>1, <2>3, Zenon DEF Probing
    <3>2. QED
      BY <1>1, <2>0, <2>4, <3>1, RunningStays
  <2>6. GoodBreaker(breaker[p]) /\ breaker \in [Providers -> BreakerState]
    BY <2>0, BreakerTyped DEF BreakersTyped
  <2>7. CASE AttemptSucceeds(d, j)
    <3>1. breaker' = [breaker EXCEPT ![p] = Success(breaker[p])]
      BY <2>4, <2>7, Zenon DEF AttemptSucceeds
    <3>2. Success(breaker[p]).state = "closed"
      BY <2>6, SuccessIsGood
    <3>3. QED
      BY <1>1, <2>6, <3>1, <3>2
  <2>8. CASE AttemptFails(d, j)
    <3>1. breaker' = [breaker EXCEPT ![p] = Failure(breaker[p])]
      BY <2>4, <2>8, Zenon DEF AttemptFails
    <3>2. Failure(breaker[p]).state # "half_open"
      BY <2>1, <2>6, FailureIsGood
    <3>3. QED
      BY <1>1, <2>6, <3>1, <3>2
  <2>9. CASE AttemptCancelled(d, j)
    <3>1. cancelled[d]
      BY <2>9 DEF AttemptCancelled
    <3>2. QED
      BY <2>3, <3>1, Zenon
  <2>10. QED
    BY <2>5, <2>7, <2>8, <2>9 DEF Ends
<1> HIDE DEF Lost, Allowed
<1>2. ASSUME HedgeInv, [Next]_vars
      PROVE  [\A p \in Providers :
                breaker'[p].state = "half_open" /\ ~Probing(p)' =>
                  \/ breaker[p].state = "half_open" /\ ~Probing(p)
                  \/ \E c \in Completions : \E i \in 1..Len(attempt[c]) :
                       /\ attempt[c][i] = [provider |-> p, at |-> "running"]
                       /\ cancelled[c]]_vars
  <2>1. \A p \in Providers : Lost(p) => Allowed(p)
    BY <1>1, <1>2
  <2>2. QED
    BY <2>1, Zenon DEF Lost, Allowed
<1>3. QED
  BY <1>2, HedgeInvTheorem, PTL DEF Spec, ProbeLostOnlyToCancel

-----------------------------------------------------------------------------
(* THE STT CONNECTION                                                      *)

(* The inductive invariant.                                                *)

\* The type of each variable (resilientSTT and its sttRing).
RingTyped ==
  /\ sendPc \in {"idle", "dial", "flush"} /\ replaying \in BOOLEAN /\ conn \in BOOLEAN
  /\ dialled \in Nat /\ sent \in Nat
  /\ buf \in Seq(Nat) /\ accepted \in Seq(Nat) /\ wire \in Seq(Nat) /\ transcript \in Seq(Nat)

\* The ring holds the last Len(buf) frames given to Send.
Newest == /\ Len(buf) <= Capacity /\ Len(buf) <= sent
          /\ \A i \in 1..Len(buf) : buf[i] = sent - Len(buf) + i

\* What the connections accepted is older than the ring, in the order spoken.
Ordered == /\ \A i \in 1..Len(accepted) : accepted[i] <= sent - Len(buf)
           /\ \A i \in 1..Len(accepted) : \A j \in 1..(i - 1) : accepted[j] < accepted[i]

\* Where a frame older than the ring went.
Kept(f) == (\E i \in 1..Len(accepted) : accepted[i] = f) \/ f + Capacity <= sent
Accounted == \A f \in 1..(sent - Len(buf)) : Kept(f)

RingInv == RingTyped /\ Newest /\ Ordered /\ Accounted
-----------------------------------------------------------------------------
\* What a step leaves alone, seen from the ring.
Rest == /\ sendPc' \in {"idle", "dial", "flush"} /\ replaying' \in BOOLEAN /\ conn' \in BOOLEAN
        /\ dialled' \in Nat /\ wire' \in Seq(Nat) /\ transcript' \in Seq(Nat)

\* The shapes of a step: the ring and what was accepted stay; Send pushes a
\* frame; flush hands the oldest one to the connection.
Stays  == Rest /\ UNCHANGED <<buf, sent, accepted>>
Pushes == Rest /\ sent' = sent + 1 /\ push(sent + 1) /\ UNCHANGED accepted
Hands  == /\ Rest /\ buf # << >> /\ UNCHANGED sent
          /\ accepted' = Append(accepted, Head(buf)) /\ buf' = Tail(buf)

\* Every step of the connection has one of these shapes (Send, dial, flush, Close).
LEMMA Shapes ==
  ASSUME RingTyped, [RingNext]_ringVars
  PROVE  Stays \/ Pushes \/ Hands
<1> USE DEF RingTyped, Rest
<1>1. CASE Send
  BY <1>1, Zenon DEF Send, Pushes, provider
<1>2. CASE DialSucceeds
  BY <1>2 DEF DialSucceeds, Stays, provider
<1>3. CASE DialFails
  BY <1>3 DEF DialFails, Stays, provider
<1>4. CASE SleepCancelled
  BY <1>4 DEF SleepCancelled, Stays, provider
<1>5. CASE FlushFrame
  <2>1. wire' \in Seq(Nat)
    BY <1>5, HeadTailProperties, AppendProperties DEF FlushFrame
  <2>2. QED
    BY <2>1, <1>5 DEF FlushFrame, Hands
<1>6. CASE FlushFails
  BY <1>6, EmptySeq DEF FlushFails, dropConn, Stays
<1>7. CASE FlushDone
  BY <1>7 DEF FlushDone, Stays, provider
<1>8. CASE Close
  <2>1. transcript \o wire \in Seq(Nat)
    BY ConcatProperties
  <2>2. QED
    BY <2>1, <1>8, EmptySeq DEF Close, Stays
<1>9. CASE Process
  <2>1. transcript' \in Seq(Nat) /\ wire' \in Seq(Nat)
    BY <1>9, HeadTailProperties, AppendProperties DEF Process
  <2>2. QED
    BY <2>1, <1>9 DEF Process, Stays
<1>10. CASE UNCHANGED ringVars
  BY <1>10 DEF ringVars, Stays
<1>11. QED
  BY <1>1, <1>2, <1>3, <1>4, <1>5, <1>6, <1>7, <1>8, <1>9, <1>10 DEF RingNext

-----------------------------------------------------------------------------
(* The ring.                                                               *)

\* The connection starts with an empty ring.
LEMMA RingInitially ==
  ASSUME RingInit
  PROVE  RingInv
<1>1. << >> \in Seq(Nat) /\ Len(<< >>) = 0
  BY EmptySeq
<1>2. RingTyped
  BY <1>1 DEF RingInit, RingTyped
<1>3. Len(buf) = 0 /\ Len(accepted) = 0 /\ sent = 0
  BY <1>1 DEF RingInit
<1>4. Newest /\ Ordered /\ Accounted
  BY <1>3, RingAssumption DEF Newest, Ordered, Accounted
<1>5. QED
  BY <1>2, <1>4 DEF RingInv

\* A frame handed to the connection leaves the ring at its front and is the
\* newest one any connection accepted.
LEMMA HandsKeeps ==
  ASSUME RingInv, Hands
  PROVE  RingInv'
<1>0. /\ sent \in Nat /\ buf \in Seq(Nat) /\ accepted \in Seq(Nat)
      /\ Newest /\ Ordered /\ Accounted
  BY DEF RingInv, RingTyped
<1> DEFINE n == Len(buf)  m == Len(accepted)
<1>1. n \in Nat \ {0} /\ m \in Nat
  BY <1>0, LenProperties, EmptySeq DEF Hands
<1>2. /\ buf' \in Seq(Nat) /\ Len(buf') = n - 1
      /\ \A i \in 1..(n - 1) : buf'[i] = buf[i + 1]
  BY <1>0, HeadTailProperties DEF Hands
<1>3. Head(buf) = sent - n + 1
  BY <1>0, <1>1 DEF Newest, Hands
<1>4. /\ accepted' \in Seq(Nat) /\ Len(accepted') = m + 1
      /\ \A i \in 1..m : accepted'[i] = accepted[i]
      /\ accepted'[m + 1] = sent - n + 1
  <2>1. Head(buf) \in Nat
    BY <1>0, HeadTailProperties DEF Hands
  <2>2. QED
    BY <2>1, <1>0, <1>3, AppendProperties DEF Hands
<1>5. sent' = sent /\ sent \in Nat /\ Capacity \in Nat /\ n <= Capacity /\ n <= sent
  BY <1>0, RingAssumption DEF Hands, Newest
<1> HIDE DEF n, m
<1>6. RingTyped'
  BY <1>2, <1>4, <1>5 DEF Hands, Rest, RingTyped
<1>7. Newest'
  <2>1. \A i \in 1..(n - 1) : buf[i + 1] = sent - n + (i + 1)
    BY <1>0, <1>1 DEF Newest, n
  <2>2. QED
    BY <2>1, <1>1, <1>2, <1>5 DEF Newest
<1>8. Ordered'
  <2>1. /\ \A i \in 1..m : accepted[i] \in Nat /\ accepted[i] <= sent - n
        /\ \A i \in 1..m : \A j \in 1..(i - 1) : accepted[j] < accepted[i]
    BY <1>0, ElementOfSeq DEF Ordered, n, m
  <2>2. \A i \in 1..(m + 1) : accepted'[i] <= sent - n + 1
    <3>1. TAKE i \in 1..(m + 1)
    <3>2. CASE i = m + 1
      BY <3>2, <1>1, <1>4, <1>5
    <3>3. CASE i # m + 1
      <4>1. i \in 1..m
        BY <3>3, <1>1
      <4>2. accepted'[i] = accepted[i] /\ accepted[i] \in Nat /\ accepted[i] <= sent - n
        BY <4>1, <2>1, <1>4
      <4>3. QED
        BY <4>2, <1>1, <1>5
    <3>4. QED
      BY <3>2, <3>3
  <2>3. \A i \in 1..(m + 1) : \A j \in 1..(i - 1) : accepted'[j] < accepted'[i]
    <3>1. TAKE i \in 1..(m + 1)
    <3>2. TAKE j \in 1..(i - 1)
    <3>3. j \in 1..m /\ accepted'[j] = accepted[j]
      BY <1>1, <1>4
    <3>4. CASE i = m + 1
      <4>1. accepted[j] \in Nat /\ accepted[j] <= sent - n
        BY <3>3, <2>1
      <4>2. QED
        BY <4>1, <3>3, <3>4, <1>1, <1>4, <1>5
    <3>5. CASE i # m + 1
      <4>1. i \in 1..m
        BY <3>5, <1>1
      <4>2. accepted[j] < accepted[i] /\ accepted'[i] = accepted[i]
        BY <4>1, <2>1, <1>4
      <4>3. QED
        BY <4>2, <3>3
    <3>6. QED
      BY <3>4, <3>5
  <2>4. sent' - Len(buf') = sent - n + 1
    BY <1>1, <1>2, <1>5
  <2>5. QED
    BY <2>2, <2>3, <2>4, <1>4 DEF Ordered
<1>9. Accounted'
  <2>1. \A f \in 1..(sent - n) : Kept(f)
    BY <1>0 DEF Accounted, n
  <2>2. SUFFICES ASSUME NEW f \in 1..(sent - n + 1) PROVE Kept(f)'
    BY <1>1, <1>2, <1>5 DEF Accounted
  <2>3. CASE f = sent - n + 1
    BY <2>3, <1>1, <1>4 DEF Kept
  <2>4. CASE f # sent - n + 1
    <3>1. f \in 1..(sent - n)
      BY <2>4, <1>1, <1>5
    <3>2. Kept(f)
      BY <2>1, <3>1
    <3>3. QED
      BY <3>2, <1>1, <1>4, <1>5 DEF Kept, m
  <2>5. QED
    BY <2>3, <2>4
<1>10. QED
  BY <1>6, <1>7, <1>8, <1>9 DEF RingInv

\* A frame pushed into the ring evicts at most the oldest one, which is then
\* Capacity frames old.
LEMMA PushesKeeps ==
  ASSUME RingInv, Pushes
  PROVE  RingInv'
<1>0. /\ sent \in Nat /\ buf \in Seq(Nat) /\ accepted \in Seq(Nat)
      /\ Newest /\ Ordered /\ Accounted
  BY DEF RingInv, RingTyped
<1> DEFINE n == Len(buf)  b == IF n >= Capacity THEN Tail(buf) ELSE buf
           k == IF n >= Capacity THEN 1 ELSE 0
<1>1. n \in Nat /\ Capacity \in Nat \ {0} /\ sent \in Nat /\ n <= Capacity /\ n <= sent
  BY <1>0, LenProperties, RingAssumption DEF Newest
<1>2. k \in {0, 1} /\ k <= n /\ n - k + 1 <= Capacity
  BY <1>1
<1>3. b \in Seq(Nat) /\ Len(b) = n - k /\ \A i \in 1..(n - k) : b[i] = sent - n + k + i
  <2>1. CASE n >= Capacity
    <3>1. buf # << >>
      BY <2>1, <1>1, EmptySeq
    <3>2. /\ Tail(buf) \in Seq(Nat) /\ Len(Tail(buf)) = n - 1
          /\ \A i \in 1..(n - 1) : Tail(buf)[i] = buf[i + 1]
      BY <3>1, <1>0, HeadTailProperties
    <3>3. \A i \in 1..(n - 1) : buf[i + 1] = sent - n + (i + 1)
      BY <1>0, <1>1 DEF Newest
    <3>4. QED
      BY <3>2, <3>3, <2>1, <1>1
  <2>2. CASE ~(n >= Capacity)
    BY <2>2, <1>0, <1>1 DEF Newest
  <2>3. QED
    BY <2>1, <2>2
<1>4. buf' = Append(b, sent + 1) /\ sent' = sent + 1 /\ accepted' = accepted
  BY DEF Pushes, push
<1> HIDE DEF b
<1>5. /\ buf' \in Seq(Nat) /\ Len(buf') = n - k + 1
      /\ \A i \in 1..(n - k) : buf'[i] = b[i]
      /\ buf'[n - k + 1] = sent + 1
  BY <1>1, <1>3, <1>4, AppendProperties
<1> HIDE DEF n, k
<1>6. RingTyped'
  <2>1. sent' \in Nat
    BY <1>1, <1>4
  <2>2. QED
    BY <2>1, <1>0, <1>4, <1>5 DEF Pushes, Rest, RingTyped
<1>7. Newest'
  <2>1. ASSUME NEW i \in 1..(n - k + 1) PROVE buf'[i] = sent + 1 - (n - k + 1) + i
    <3>1. CASE i = n - k + 1
      BY <3>1, <1>1, <1>2, <1>5
    <3>2. CASE i # n - k + 1
      <4>1. i \in 1..(n - k)
        BY <3>2, <1>1, <1>2
      <4>2. buf'[i] = sent - n + k + i
        BY <4>1, <1>3, <1>5
      <4>3. QED
        BY <4>2, <1>1, <1>2
    <3>3. QED
      BY <3>1, <3>2
  <2>2. n - k + 1 <= Capacity /\ n - k + 1 <= sent + 1
    BY <1>1, <1>2
  <2>3. Len(buf') = n - k + 1 /\ sent' = sent + 1
    BY <1>4, <1>5
  <2>4. \A i \in 1..Len(buf') : buf'[i] = sent' - Len(buf') + i
    BY <2>1, <2>3, <1>1, <1>2
  <2>5. Len(buf') <= Capacity /\ Len(buf') <= sent'
    BY <2>2, <2>3
  <2>6. QED
    BY <2>4, <2>5, Zenon DEF Newest
<1>8. sent' - Len(buf') = sent - n + k
  <2>1. n \in Nat /\ sent \in Nat /\ k \in Nat
    BY <1>1, <1>2
  <2>2. Len(buf') = n - k + 1 /\ sent' = sent + 1
    BY <1>4, <1>5
  <2>3. QED
    BY <2>1, <2>2
<1>9. Ordered'
  <2>1. \A i \in 1..Len(accepted) : accepted[i] \in Nat /\ accepted[i] <= sent - n
    BY <1>0, ElementOfSeq DEF Ordered, n
  <2>2. \A i \in 1..Len(accepted) : accepted[i] <= sent - n + k
    BY <2>1, <1>1, <1>2
  <2>3. QED
    BY <2>2, <1>0, <1>4, <1>8 DEF Ordered
<1>10. Accounted'
  <2>1. SUFFICES ASSUME NEW f \in 1..(sent - n + k) PROVE Kept(f)'
    BY <1>8 DEF Accounted
  <2>2. CASE f \in 1..(sent - n)
    <3>1. Kept(f)
      BY <2>2, <1>0 DEF Accounted, n
    <3>2. QED
      BY <3>1, <2>2, <1>1, <1>4 DEF Kept
  <2>3. CASE f \notin 1..(sent - n)
    <3>1. k = 1 /\ f = sent - n + 1
      BY <2>3, <1>1, <1>2
    <3>2. n = Capacity
      BY <3>1, <1>1 DEF k
    <3>3. QED
      BY <3>1, <3>2, <1>1, <1>4 DEF Kept
  <2>4. QED
    BY <2>2, <2>3
<1>11. QED
  BY <1>6, <1>7, <1>9, <1>10 DEF RingInv

\* Dialling, failing, closing and the provider's own steps touch none of it.
LEMMA StaysKeeps ==
  ASSUME RingInv, Stays
  PROVE  RingInv'
<1>1. RingTyped'
  BY DEF RingInv, RingTyped, Stays, Rest
<1>2. Newest' /\ Ordered' /\ Accounted'
  BY DEF RingInv, Stays, Newest, Ordered, Accounted, Kept
<1>3. QED
  BY <1>1, <1>2 DEF RingInv

\* The ring, what was accepted and what was lost are tied together in every
\* reachable state (sttring.go).
THEOREM RingInvTheorem == RingSpec => []RingInv
<1>1. RingInv /\ [RingNext]_ringVars => RingInv'
  BY Shapes, StaysKeeps, PushesKeeps, HandsKeeps DEF RingInv
<1>2. QED
  BY <1>1, RingInitially, PTL DEF RingSpec

\* The ring always holds the newest frames, without a hole, whatever the
\* dials and flushes do (sttRing.push, sttring.go).
THEOREM RingHoldsNewestTheorem == RingSpec => []RingHoldsNewest
<1>1. RingInv => RingHoldsNewest
  BY DEF RingInv, Newest, RingHoldsNewest
<1>2. QED
  BY <1>1, RingInvTheorem, PTL

\* No reconnection and replay delivers a frame twice or out of order
\* (resilientSTT.Send and flush, sttring.go).
THEOREM InOrderOnceTheorem == RingSpec => []InOrderOnce
<1>1. RingInv => InOrderOnce
  <2>0. SUFFICES ASSUME RingInv PROVE InOrderOnce
    OBVIOUS
  <2>1. SUFFICES ASSUME NEW i \in 1..Len(accepted), NEW j \in 1..Len(buf)
                 PROVE  accepted[i] < buf[j]
    BY <2>0, Zenon DEF RingInv, Ordered, InOrderOnce
  <2>2. accepted[i] \in Nat /\ Len(buf) \in Nat /\ sent \in Nat
    <3>1. accepted \in Seq(Nat) /\ buf \in Seq(Nat) /\ sent \in Nat
      BY <2>0 DEF RingInv, RingTyped
    <3>2. QED
      BY <3>1, ElementOfSeq, LenProperties
  <2>3. accepted[i] <= sent - Len(buf) /\ buf[j] = sent - Len(buf) + j
    BY <2>0, Zenon DEF RingInv, Ordered, Newest
  <2>4. QED
    BY <2>2, <2>3
<1>2. QED
  BY <1>1, RingInvTheorem, PTL

\* A frame is lost before any connection accepted it only to an outage longer
\* than the ring (sttRing.push, sttring.go).
THEOREM OnlyLongOutagesEvictTheorem == RingSpec => []OnlyLongOutagesEvict
<1>1. RingInv => OnlyLongOutagesEvict
  <2>0. SUFFICES ASSUME RingInv PROVE OnlyLongOutagesEvict
    OBVIOUS
  <2>1. SUFFICES ASSUME NEW f \in 1..sent, ~Kept(f)
                 PROVE  \E i \in 1..Len(buf) : buf[i] = f
    BY Zenon DEF OnlyLongOutagesEvict, Kept
  <2>2. Len(buf) \in Nat /\ sent \in Nat /\ Len(buf) <= sent
    <3>1. buf \in Seq(Nat) /\ sent \in Nat /\ Len(buf) <= sent
      BY <2>0 DEF RingInv, RingTyped, Newest
    <3>2. QED
      BY <3>1, LenProperties
  <2>3. f \notin 1..(sent - Len(buf))
    BY <2>0, <2>1, Zenon DEF RingInv, Accounted
  <2>4. f - (sent - Len(buf)) \in 1..Len(buf)
    BY <2>2, <2>3
  <2>5. buf[f - (sent - Len(buf))] = f
    <3>1. buf[f - (sent - Len(buf))] = sent - Len(buf) + (f - (sent - Len(buf)))
      BY <2>0, <2>4, Zenon DEF RingInv, Newest
    <3>2. QED
      BY <3>1, <2>2
  <2>6. QED
    BY <2>4, <2>5
<1>2. QED
  BY <1>1, RingInvTheorem, PTL

-----------------------------------------------------------------------------
(* The ring implements FrameLine.                                          *)

\* Handing over the oldest frame of the ring is a delivery: what it passes over
\* was evicted.
LEMMA HandsDelivers ==
  ASSUME RingInv, Hands
  PROVE  \E f \in (Line!Last + 1)..sent : Line!Deliver(f)
<1>1. /\ sent \in Nat /\ buf \in Seq(Nat) /\ accepted \in Seq(Nat) /\ Capacity \in Nat
      /\ Newest /\ Ordered /\ Accounted
  BY RingAssumption DEF RingInv, RingTyped
<1> DEFINE n == Len(buf)  m == Len(accepted)
           f == sent - n + 1
<1>2. n \in Nat \ {0} /\ m \in Nat /\ n <= sent
  BY <1>1, LenProperties, EmptySeq DEF Hands, Newest
<1>3. /\ \A i \in 1..m : accepted[i] \in Nat /\ accepted[i] <= sent - n
      /\ \A i \in 1..m : \A j \in 1..(i - 1) : accepted[j] < accepted[i]
  BY <1>1, ElementOfSeq DEF Ordered
<1>4. Head(buf) = f
  <2>1. Head(buf) = buf[1]
    BY <1>1, HeadTailProperties DEF Hands
  <2>2. buf[1] = sent - n + 1
    BY <1>1, <1>2 DEF Newest
  <2>3. QED
    BY <2>1, <2>2
<1>5. accepted' = Append(accepted, f) /\ sent' = sent
  BY <1>4 DEF Hands
<1>6. m = 0 <=> accepted = << >>
  BY <1>1, EmptySeq
<1>7. /\ Line!Last \in Nat /\ Line!Last <= sent - n
      /\ \A i \in 1..m : accepted[i] <= Line!Last
  <2>1. CASE m = 0
    <3>1. Line!Last = 0
      BY <1>6, <2>1 DEF Line!Last
    <3>2. 0 <= sent - n
      BY <1>1, <1>2
    <3>3. 1..m = {}
      BY <2>1
    <3>4. QED
      BY <3>1, <3>2, <3>3
  <2>2. CASE m # 0
    <3>1. Line!Last = accepted[m] /\ m \in 1..m
      BY <1>2, <1>6, <2>2 DEF Line!Last
    <3>2. ASSUME NEW i \in 1..m
          PROVE  accepted[i] <= accepted[m]
      <4>1. i = m \/ i \in 1..(m - 1)
        BY <1>2
      <4>2. accepted[i] \in Nat /\ accepted[m] \in Nat
        BY <1>3, <3>1
      <4>3. CASE i = m
        BY <4>2, <4>3
      <4>4. CASE i \in 1..(m - 1)
        BY <1>3, <3>1, <4>2, <4>4
      <4>5. QED
        BY <4>1, <4>3, <4>4
    <3>3. QED
      BY <1>3, <3>1, <3>2
  <2>3. QED
    BY <2>1, <2>2
<1> HIDE DEF n, m, f
<1>8. f = sent - n + 1 /\ f \in (Line!Last + 1)..sent
  BY <1>1, <1>2, <1>7 DEF f
<1>9. f = Line!Last + 1 \/ f - 1 + Capacity <= sent
  <2>1. SUFFICES ASSUME f # Line!Last + 1
                 PROVE  f - 1 + Capacity <= sent
    OBVIOUS
  <2>2. f - 1 \in 1..(sent - n) /\ f - 1 > Line!Last
    BY <1>1, <1>2, <1>7, <1>8, <2>1
  <2>3. Kept(f - 1)
    BY <1>1, <2>2 DEF Accounted, n
  <2>4. ~\E i \in 1..m : accepted[i] = f - 1
    <3>1. SUFFICES ASSUME NEW i \in 1..m, accepted[i] = f - 1
                   PROVE  FALSE
      OBVIOUS
    <3>2. accepted[i] <= Line!Last /\ accepted[i] \in Nat
      BY <1>3, <1>7
    <3>3. QED
      BY <1>7, <2>2, <3>1, <3>2
  <2>5. QED
    BY <2>3, <2>4 DEF Kept, m
<1>10. Line!Deliver(f)
  BY <1>5, <1>9 DEF Line!Deliver
<1>11. QED
  BY <1>8, <1>10

\* The resilient connection implements FrameLine (push and flush, sttring.go):
\* every step is a frame spoken, a frame delivered in its turn, or a stutter.
THEOREM IsFrameLineTheorem == RingSpec => IsFrameLine
<1>1. RingInit => Line!Init
  BY DEF RingInit, Line!Init
<1>2. ASSUME RingInv, [RingNext]_ringVars
      PROVE  [Line!Next]_<<sent, accepted>>
  <2>1. Stays \/ Pushes \/ Hands
    BY <1>2, Shapes DEF RingInv
  <2>2. CASE Stays
    BY <2>2 DEF Stays
  <2>3. CASE Pushes
    BY <2>3 DEF Pushes, Line!Next, Line!Speak
  <2>4. CASE Hands
    BY <1>2, <2>4, HandsDelivers DEF Line!Next
  <2>5. QED
    BY <2>1, <2>2, <2>3, <2>4
<1>3. QED
  BY <1>1, <1>2, RingInvTheorem, PTL DEF RingSpec, IsFrameLine, Line!Spec
=============================================================================
