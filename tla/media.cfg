SPECIFICATION Spec
CONSTANTS
  g1 = g1
  Legs = {g1}
  Window = 1
  Wrap = 8
  Reorder = 2
  FirstSeq = 6
  OutQueueMax = 2
  AcceptCap = 1
  MaxPackets = 5
  MaxCopies = 1
  MaxSessions = 2
  MaxWritten = 2
INVARIANTS FrameSeqIsOffset FlushCuts OneSessionPerLeg JitterWaits
CHECK_DEADLOCK FALSE
