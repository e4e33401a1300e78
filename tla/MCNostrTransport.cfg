SPECIFICATION FairSpec
CONSTANTS
  ann = ann
  bob = bob
  cat = cat
  long = long
  short = short
  Party = {ann, bob, cat}
  Body = {long, short}
  Peers <- MCPeers
  Chunks <- MCChunks
  Msg <- MCMsg
  ChunkTTL = 0
  Lookback = 0
  MaxNow = 1
  MaxTries <- MCTries
  MaxDrops = 1
INVARIANTS TypeOK AtMostOnce OnlyWholeBodies OkMeansPublished NoLeftovers
PROPERTIES CompletedInTime DeliverySpec SentIsHandedOver
CHECK_DEADLOCK FALSE
