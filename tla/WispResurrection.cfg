SPECIFICATION Spec
CONSTANTS
    Key = {k1, k2}
    Value = {v1, v2}
    Absent = Absent
    Tombstone = Tombstone
    Writers = {w1, w2}
    Readers = {}
    Compactor = Compactor
    NoThread = NoThread
    w1 = w1
    w2 = w2
    r1 = r1
    k1 = k1
    k2 = k2
    v1 = v1
    v2 = v2
    FlushThreshold = 1
    MaxSegmentSize = 4
    FlushInCompactWindow = FALSE
    MaxWrites = 3
    MaxFlushes = 0
    MaxReads = 0
    MaxCompactions = 1
    MaxRestarts = 1
    MaxIOErrors = 0
    MaxRemoveErrors = 0
    MaxWALErrors = 0
SYMMETRY Symmetry
INVARIANT LiveView
