CONSTANTS
  c1 = c1
  c2 = c2
  Calls <- BothCalls
  Routed <- FirstCall
  OwnerPhone = TRUE
  Sessions <- PostedTwice
SPECIFICATION FairSpec
INVARIANTS TypeOK DrainedMeansQuiet RingingOnlyLate
PROPERTIES HangupEndsSession DrainEnds
CHECK_DEADLOCK FALSE
