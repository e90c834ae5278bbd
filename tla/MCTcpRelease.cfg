SPECIFICATION FairSpec
CONSTANTS
  t1 = t1
  t2 = t2
  i1 = i1
  i2 = i2
  Tasks = {t1, t2}
  Ids = {i1, i2}
  SeqMod = 4
  InCap = 1
  OutCap = 1
  WireCap = 1
  Faults = {"close"}
  NoId = NoId
  NoPacket = NoPacket
  Server = Server
PROPERTIES ClosedConnectionReleasesSessions
CHECK_DEADLOCK FALSE
