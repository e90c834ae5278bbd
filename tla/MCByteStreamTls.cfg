SPECIFICATION FairSpec
CONSTANTS
  HeaderLen = 2
  MaxBody = 1
  Limits <- MCOneRequest
  Transports = {"tls"}
  Keyed = TRUE
  Faults = {}
PROPERTIES SentPacketsReachServer
CHECK_DEADLOCK FALSE
