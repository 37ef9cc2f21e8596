SPECIFICATION FairSpec
CONSTANTS
    Key = {k1}
    Value = {v1}
    Absent = Absent
    Tombstone = Tombstone
    Writers = {w1, w2}
    Readers = {r1}
    Compactor = Compactor
    NoThread = NoThread
    w1 = w1
    w2 = w2
    r1 = r1
    k1 = k1
    k2 = k2
    v1 = v1
    v2 = v2
    FlushThreshold = 1
    MaxSegmentSize = 4
    FlushInCompactWindow = FALSE
    MaxWrites = 3
    MaxFlushes = 0
    MaxReads = 1
    MaxCompactions = 0
    MaxRestarts = 1
    MaxIOErrors = 0
    MaxRemoveErrors = 0
    MaxWALErrors = 1
PROPERTY CallsReturn
