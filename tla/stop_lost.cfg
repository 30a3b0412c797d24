SPECIFICATION Spec
CONSTANTS
  Sweeper = sweeper
  Handlers = {h1}
  NoDoc = NoDoc
  MaxClaims = 2
  MaxRequests = 1
  MaxFaults = 0
INVARIANT StopStillWins
CHECK_DEADLOCK FALSE
