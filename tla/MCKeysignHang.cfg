SPECIFICATION FairSpec
CONSTANTS
  a = a
  b = b
  Party = {a, b}
  Rounds = 2
PROPERTIES KeysignReturns
CHECK_DEADLOCK FALSE
