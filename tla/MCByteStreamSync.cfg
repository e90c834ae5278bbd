SPECIFICATION Spec
CONSTANTS
  HeaderLen = 2
  MaxBody = 1
  Limits <- MCSync
  Transports = {"tcp"}
  Keyed = TRUE
  Faults = {"bad_header"}
INVARIANTS StaysInSync
CHECK_DEADLOCK FALSE
