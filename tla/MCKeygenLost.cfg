SPECIFICATION Spec
CONSTANTS
  a = a
  b = b
  Party = {a, b}
  Rounds = 1
  MaxFaults = 1
INVARIANT EndingIsAWarning
CHECK_DEADLOCK FALSE
