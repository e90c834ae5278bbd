SPECIFICATION FairSpec
CONSTANTS
  t1 = t1
  t2 = t2
  i1 = i1
  i2 = i2
  Tasks = {t1, t2}
  Ids = {i1, i2}
  SeqMod = 4
  InCap = 1
  OutCap = 1
  ReplyNumbers = {0, 2}
  OverflowChecks = TRUE
  NoId = NoId
  NoPacket = NoPacket
  Server = Server
INVARIANTS TypeOK RepliesArePaired MockNeverBlocks
PROPERTIES PreparedIsAnswered
CHECK_DEADLOCK FALSE
