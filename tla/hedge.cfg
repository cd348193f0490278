SPECIFICATION FairSpec
CONSTANTS
  Completions = {c1, c2}
  Primary = primary
  Secondary = secondary
  MaxFailures = 2
INVARIANTS OneProbePerInterval ResultsFit GivesUpLast
PROPERTIES ProbeLostOnlyToCancel Returns AttemptsReaped
CHECK_DEADLOCK FALSE
