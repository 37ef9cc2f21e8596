SPECIFICATION Spec
CONSTANTS
    Key <- MCKey
    Value = {1, 2, 3}
    Absent = Absent
    Tombstone = Tombstone
    ValueLength = 25
    BlockSize = 75
    HashFunc <- MCHashFunc
    Tables = 2
    Ranges <- MCRanges
    NoKey = NoKey
    MaxReadErrors = 1
    MaxWriteErrors = 2
INVARIANT TypeOK
INVARIANT OpensOnlyPrefix
INVARIANT OutputExact
INVARIANT ScanExact
INVARIANT OutputSorted
