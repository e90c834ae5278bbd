SPECIFICATION Spec
CONSTANTS
  Nibble = 4
  Major = 3
  NotText = {15}
  Corrupt = {4, 15}
  Service <- MCService
  CmdPrefix <- MCCmdPrefix
  ArgPrefix <- MCArgPrefix
  ExclusiveOr <- MCExclusiveOr
  Hash <- MCHash
  HashLen = 4
  Key <- MCKey
  Headers <- MCHeaders
  Requests <- MCRequests
  Replies <- MCReplies
  Error = Error
  Panic = Panic
  NoPacket = NoPacket
INVARIANTS TypeOK RoundTrip ShortBodyRefused DecodingFaithful LengthCheckAgrees ConversionsAgree
CHECK_DEADLOCK FALSE
