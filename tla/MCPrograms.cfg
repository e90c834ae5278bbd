SPECIFICATION FairSpec
CONSTANTS
  c1 = c1
  c2 = c2
  c3 = c3
  Clients = {c1, c2, c3}
  MaxAddresses = 2
INVARIANTS TypeOK SuccessMeansAnswered OnlyPanicsCutOff StopFollowsStart
PROPERTIES ProgramEnds
CHECK_DEADLOCK FALSE
