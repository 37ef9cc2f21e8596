SPECIFICATION Spec
CONSTANTS
    MaxSegmentSize = 2
    MaxRecordSize = 3
    RecordSizes = {1}
    MaxAppends = 3
    MaxLarge = 0
    MaxLegacy = 0
    MaxRotations = 0
    MaxResets = 0
    MaxReopens = 2
    MaxWriteErrors = 0
    MaxRotateErrors = 0
    MaxRemoveErrors = 0
CHECK_DEADLOCK FALSE
PROPERTY ReplayComplete
