SPECIFICATION Spec
CONSTANTS
    Key = {k1, k2}
    Value = {v1, v2}
    Absent = Absent
    Tombstone = Tombstone
    Writers = {w1, w2}
    Readers = {}
    Compactor = Compactor
    NoThread = NoThread
    w1 = w1
    w2 = w2
    r1 = r1
    k1 = k1
    k2 = k2
    v1 = v1
    v2 = v2
    FlushThreshold = 2
    MaxSegmentSize = 1
    FlushInCompactWindow = FALSE
    MaxWrites = 3
    MaxFlushes = 1
    MaxReads = 0
    MaxCompactions = 0
    MaxRestarts = 2
    MaxIOErrors = 1
    MaxRemoveErrors = 0
    MaxWALErrors = 1
SYMMETRY Symmetry
INVARIANT LiveView
INVARIANT Durable
INVARIANT WALReclaimed
INVARIANT FlushKeepsMemTable
PROPERTY KVSpec
