SPECIFICATION Spec
CONSTANTS
    Threads = {t1, t2}
    TTL = 1
    Slow = 1
    MaxTime = 3
    MaxOps = 3
    MaxChanges = 2
    MaxFaults = 1
SYMMETRY Symmetry
INVARIANTS TypeOK RetryIsFresh IndexIsRecent RefreshIsObeyed LoadIsCurrent
CHECK_DEADLOCK FALSE
