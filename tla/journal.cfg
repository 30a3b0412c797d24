SPECIFICATION Spec
CONSTANTS
  Sweeper = sweeper
  Handlers = {h1, h2}
  NoDoc = NoDoc
  MaxClaims = 2
  MaxRequests = 3
  MaxFaults = 1
INVARIANTS TypeOK StopWins RequestsKept OneOpenCopy
PROPERTY LifePromised
CHECK_DEADLOCK FALSE
