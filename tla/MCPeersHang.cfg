SPECIFICATION FairSpec
CONSTANTS
  a = a
  b = b
  c = c
  Device = {a, b, c}
  Setting <- RemoteOnly
PROPERTY DiscoverReturns
CHECK_DEADLOCK FALSE
