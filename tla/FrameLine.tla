----------------------------- MODULE FrameLine -----------------------------
(***************************************************************************)
(* What the resilient STT connection promises to the call                  *)
(* (push and flush, go/internal/degrade/sttring.go), without ring,         *)
(* providers or dials: frames are handed over in the order they were       *)
(* spoken, each at most once, and one is passed over only when Capacity    *)
(* newer ones were spoken.                                                 *)
(***************************************************************************)
EXTENDS Naturals, Sequences

CONSTANT Capacity

VARIABLES
  spoken,    \* frames given to Send
  delivered  \* frames some connection accepted

Last == IF delivered = << >> THEN 0 ELSE delivered[Len(delivered)]

Speak == spoken' = spoken + 1 /\ UNCHANGED delivered

Deliver(f) ==
  /\ f = Last + 1 \/ f - 1 + Capacity <= spoken
  /\ delivered' = Append(delivered, f)
  /\ UNCHANGED spoken

Init == spoken = 0 /\ delivered = << >>

Next == Speak \/ \E f \in (Last + 1)..spoken : Deliver(f)

Spec == Init /\ [][Next]_<<spoken, delivered>>
=============================================================================
