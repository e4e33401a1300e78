SPECIFICATION FairSpec
CONSTANTS
  a = a
  b = b
  Party = {a, b}
  Rounds = 2
INVARIANTS TypeOK ResultMeansDrained NobodySucceedsAlone
PROPERTIES KeygenReturns SignedReturns
CHECK_DEADLOCK FALSE
