SPECIFICATION Spec
CONSTANTS
    Threads = {t1, t2}
    Files = {a, b}
    MaxOps = 3
    MaxFaults = 2
    MaxLocks = 1
    MaxPushes = 1
SYMMETRY Symmetry
INVARIANTS TypeOK PushIsTransaction InStep
PROPERTIES FailedStaysDown
CHECK_DEADLOCK FALSE
