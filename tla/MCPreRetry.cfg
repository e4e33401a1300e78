SPECIFICATION Spec
CONSTANTS
  a = a
  b = b
  Party = {a, b}
  Fee <- MCFee
  Timeout = 1
  Lookback = 1
  RetryGap = 0
  MaxAttempts <- MCAttempts
  MaxNow = 5
INVARIANTS Agreement
CHECK_DEADLOCK FALSE
