SPECIFICATION Spec
CONSTANTS
  c1 = c1
  c2 = c2
  Channels = {c1, c2}
  MaxPlays = 2
  MaxRefusals = 1
  MaxCrashes = 1
  MaxDrains = 1
SYMMETRY Symmetry
INVARIANTS Stoppable DrainIsHonest NobodyInSilence
CHECK_DEADLOCK FALSE
