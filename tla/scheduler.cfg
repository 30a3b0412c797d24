SPECIFICATION FairSpec
CONSTANTS
  Entries = {e1, e2}
  MaxFaults = 2
INVARIANTS TypeOK TimerOutlivesWork InFlightIsOne
PROPERTIES SweptToTheEnd IdleServerSleeps
CHECK_DEADLOCK FALSE
