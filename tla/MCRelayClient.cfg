SPECIFICATION FairSpec
CONSTANTS
  a = a
  b = b
  r1 = r1
  r2 = r2
  Party = {a, b}
  Relay = {r1, r2}
  Relays <- Configured
  Event <- Wraps
  MaxOutages = 1
INVARIANT TypeOK
PROPERTIES ClientImplementsStore CallsSettle SharedRelayDelivers
CHECK_DEADLOCK FALSE
