SPECIFICATION FairSpec
CONSTANTS
  a = a
  b = b
  c = c
  Device = {a, b, c}
  Setting <- Meetings
INVARIANTS ExchangeTypeOK   DistinctPeers FetchedIsPublished
PROPERTY OnlyRemoteHangs
CHECK_DEADLOCK FALSE
