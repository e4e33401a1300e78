SPECIFICATION FairSpec
CONSTANTS
  a = a
  b = b
  Party = {a, b}
  Rounds = 2
  MaxFaults = 2
INVARIANTS TypeOK BarrierMeansAll WaitingHasSession InboxIsPrefix SuccessIsDrained
PROPERTY CallReturns
CHECK_DEADLOCK FALSE
