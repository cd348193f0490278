SPECIFICATION Spec
CONSTANTS
  g1 = g1
  Legs = {g1}
  Window = 1
  Wrap = 8
  Reorder = 1
  FirstSeq = 6
  OutQueueMax = 2
  AcceptCap = 1
  MaxPackets = 2
  MaxCopies = 0
  MaxSessions = 1
  MaxWritten = 0
INVARIANT NeverPanics
CHECK_DEADLOCK FALSE
