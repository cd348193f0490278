CONSTANTS
  c1 = c1
  c2 = c2
  Calls <- TwoCalls
  HandlerFails = TRUE
  AcksLost = TRUE
  MaxCrashes = 0
  MaxWeeks = 0
SPECIFICATION Spec
SYMMETRY Symmetry
INVARIANTS ClientConfirmed
CHECK_DEADLOCK FALSE
