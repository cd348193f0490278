SPECIFICATION Spec
CONSTANTS
  Utterances <- MCUtterances
  MaxTurns = 5
  MaxFailures = 1
INVARIANTS FoldAgrees StreamHasNoGaps ToldIsTrue
CHECK_DEADLOCK FALSE
