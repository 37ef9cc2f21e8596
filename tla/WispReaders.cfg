SPECIFICATION Spec
CONSTANTS
    Key = {k1, k2}
    Value = {v1, v2}
    Absent = Absent
    Tombstone = Tombstone
    Writers = {w1, w2}
    Readers = {r1}
    Compactor = Compactor
    NoThread = NoThread
    w1 = w1
    w2 = w2
    r1 = r1
    k1 = k1
    k2 = k2
    v1 = v1
    v2 = v2
    FlushThreshold = 1
    MaxSegmentSize = 4
    FlushInCompactWindow = FALSE
    MaxWrites = 3
    MaxFlushes = 0
    MaxReads = 1
    MaxCompactions = 1
    MaxRestarts = 0
    MaxIOErrors = 1
    MaxRemoveErrors = 1
    MaxWALErrors = 0
SYMMETRY Symmetry
INVARIANT TypeOK
INVARIANT LiveView
INVARIANT GetLinearizable
INVARIANT ScanSnapshotExact
PROPERTY DroppedOnlyWhenFlushed
