SPECIFICATION Spec
CONSTANTS
    MaxSegmentSize = 2
    MaxRecordSize = 3
    RecordSizes = {1, 3, 4}
    MaxAppends = 3
    MaxLarge = 1
    MaxLegacy = 1
    MaxRotations = 2
    MaxResets = 1
    MaxReopens = 2
    MaxWriteErrors = 1
    MaxRotateErrors = 1
    MaxRemoveErrors = 1
CHECK_DEADLOCK FALSE
INVARIANT TypeOK
PROPERTY FirstReplayComplete
PROPERTY ReplayOrdered
