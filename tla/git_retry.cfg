SPECIFICATION Spec
CONSTANTS
    Threads = {t1}
    Files = {a}
    MaxOps = 3
    MaxFaults = 1
    MaxLocks = 0
    MaxPushes = 0
PROPERTY SuccessMeansGone
CHECK_DEADLOCK FALSE
