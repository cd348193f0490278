-------------------------------- MODULE Meter -------------------------------
(***************************************************************************)
(* The barge-in level-1 energy detector (go/internal/media/energy.go): a   *)
(* frame is loud or quiet, OnsetFrames loud frames in a row declare speech *)
(* and HangoverFrames quiet ones end it.  The run length of loud frames is *)
(* only ever compared with OnsetFrames, so it is counted up to there.      *)
(***************************************************************************)
EXTENDS Naturals

CONSTANTS OnsetFrames, HangoverFrames

ASSUME MeterAssumption ==
  /\ OnsetFrames \in Nat \ {0}
  /\ HangoverFrames \in Nat \ {0}

MeterState == [above : 0..OnsetFrames, quiet : 0..HangoverFrames, speaking : BOOLEAN]

NewMeter == [above |-> 0, quiet |-> 0, speaking |-> FALSE]

\* Process(f) for a frame above the threshold.
ProcessLoud(m) ==
  LET above == IF m.above < OnsetFrames THEN m.above + 1 ELSE m.above IN
  [above |-> above, quiet |-> 0, speaking |-> m.speaking \/ above >= OnsetFrames]

\* Process(f) for a frame below it: quiet frames only count while speaking.
ProcessQuiet(m) ==
  LET ends == m.speaking /\ m.quiet + 1 >= HangoverFrames IN
  [above    |-> 0,
   quiet    |-> IF ends THEN 0 ELSE IF m.speaking THEN m.quiet + 1 ELSE m.quiet,
   speaking |-> m.speaking /\ ~ends]

Process(m, loud) == IF loud THEN ProcessLoud(m) ELSE ProcessQuiet(m)
=============================================================================
