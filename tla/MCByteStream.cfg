SPECIFICATION FairSpec
CONSTANTS
  HeaderLen = 2
  MaxBody = 1
  Limits <- MCLimits
  Transports = {"tcp", "tls"}
  Keyed = TRUE
  Faults = {"bad_header", "close", "write_error"}
INVARIANTS TypeOK ServerSeesPackets
PROPERTIES InboundStream ArrivedIsDelivered TcpPacketsReachServer
CHECK_DEADLOCK FALSE
