------------------------------- MODULE Jitter -------------------------------
(***************************************************************************)
(* The jitter buffer (go/internal/media/jitter.go) as operators on its     *)
(* state: the next frame to release and the frames held beyond a gap.      *)
(***************************************************************************)
EXTENDS Naturals, FiniteSets, FiniteSetsExt

CONSTANTS Window  \* frames held at most while a gap stays open

ASSUME JitterAssumption == Window \in Nat \ {0}

NewJitterBuffer == [started |-> FALSE, next |-> 0, pending |-> {}]

(* The end of the run of held frames that starts at n. *)
RunEnd(n, held) == Min({m \in {n} \cup {f + 1 : f \in held} : m >= n /\ m \notin held})

ReleasedFromEarly(b) ==  \* Variant of ReleasedFrom.
  LET next == RunEnd(b.next, b.pending)
      held == {f \in b.pending : f >= next}
      over == RunEnd(Min(held), held)
  IN  IF Cardinality(held) < Window
      THEN [b EXCEPT !.next = next, !.pending = held]
      ELSE [b EXCEPT !.next = over, !.pending = {f \in held : f >= over}]
(* Release the run at next; with more than Window frames still held, concede *)
(* the gap and release the run at the oldest one too: a push adds one frame, *)
(* so there is at most one gap to concede.                                   *)
ReleasedFrom(b) ==
  LET next == RunEnd(b.next, b.pending)
      held == {f \in b.pending : f >= next}
      over == RunEnd(Min(held), held)
  IN  IF Cardinality(held) <= Window
      THEN [b EXCEPT !.next = next, !.pending = held]
      ELSE [b EXCEPT !.next = over, !.pending = {f \in held : f >= over}]

(* Push: a frame older than next is too late. *)
Push(b, seq) ==
  LET c == IF b.started THEN b ELSE [b EXCEPT !.started = TRUE, !.next = seq]
  IN  IF seq < c.next THEN c ELSE ReleasedFrom([c EXCEPT !.pending = @ \cup {seq}])
=============================================================================
