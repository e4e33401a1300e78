SPECIFICATION FairSpec
CONSTANTS
  a = a
  b = b
  Party = {a, b}
  Fee <- MCFee
  Timeout = 1
  Lookback = 1
  RetryGap = 3
  MaxAttempts <- MCAttempts
  MaxNow = 5
INVARIANTS TypeOK Agreement
PROPERTIES OverlapIsHeard
CHECK_DEADLOCK FALSE
