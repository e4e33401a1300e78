SPECIFICATION FairSpec
CONSTANTS
  a = a
  b = b
  Party = {a, b}
  Peers <- MCPeers
  ConnectTimeout = 1
  MaxTimeout = 2
  Lookback = 1
  MaxCalls <- MCCalls
  MaxNow = 2
INVARIANTS TypeOK BarrierIsRecent
PROPERTIES ReadyIsSeen
CHECK_DEADLOCK FALSE
