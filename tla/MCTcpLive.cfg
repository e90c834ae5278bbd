SPECIFICATION AnsweringSpec
CONSTANTS
  t1 = t1
  t2 = t2
  i1 = i1
  i2 = i2
  Tasks = {t1, t2}
  Ids = {i1, i2}
  SeqMod = 4
  InCap = 1
  OutCap = 1
  WireCap = 1
  Faults = {"close"}
  NoId = NoId
  NoPacket = NoPacket
  Server = Server
INVARIANTS OneInFlight RepliesReachTheirRequester ReaderNeverBlocks
PROPERTIES EveryRequestReturns CreateReturns SendReturns ReleasedAfterTeardown DeadConnectionRefuses ImplementsService
CHECK_DEADLOCK FALSE
