SPECIFICATION Spec
CONSTANTS
    f = f
    g = g
    v = v
    c = c
    Threads = {t1, t2}
    Flows = {f, g}
    Ids = {a, b}
    Variables = {v}
    Connections = {c}
    Local <- LocalKeys
    Remote <- RemoteKeys
    NoFile = NoFile
    Hand = Hand
    Unattributed = Unattributed
    Absent = Absent
    Outside = Outside
    Unseen = Unseen
    Nobody = Nobody
    MaxRequests = 2
    MaxFaults = 1
SYMMETRY Symmetry
INVARIANTS TypeOK OnlyTheWriteRefusesLate DeployedHasItsValues UndeployLeavesNothing
PROPERTIES ValuesOfOthersKept FilesOfOthersKept
CHECK_DEADLOCK FALSE
