SPECIFICATION Spec
CONSTANTS
  MaxAddrs = 2
  MaxTries = 2
  MaxLines = 2
  LineLen = 3
  MsgLen = 2
  MaxShares = 1
  MaxTimeouts = 2
INVARIANT TlsReaches
CHECK_DEADLOCK FALSE
