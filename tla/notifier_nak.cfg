CONSTANTS
  c1 = c1
  c2 = c2
  Calls <- OneCall
  HandlerFails = TRUE
  AcksLost = FALSE
  MaxCrashes = 0
  MaxWeeks = 0
SPECIFICATION Spec
INVARIANTS AckedMeansHandled
CHECK_DEADLOCK FALSE
