CONSTANTS
  c1 = c1
  c2 = c2
  Calls <- OneCall
  HandlerFails = TRUE
  AcksLost = TRUE
  MaxCrashes = 1
  MaxWeeks = 2
SPECIFICATION FairSpec
INVARIANTS OncePerRun ReportsNotInflated AckedUnlessFailed
PROPERTIES OwnerNotified
CHECK_DEADLOCK FALSE
