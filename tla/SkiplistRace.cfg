SPECIFICATION Spec
CONSTANTS
    LastKey = 3
    Value = {v1, v2}
    Empty = Empty
    MaxLevel = 2
    Readers = {r1}
    v1 = v1
    v2 = v2
    r1 = r1
    r2 = r2
    MaxWrites = 4
    MaxLookups = 1
SYMMETRY Symmetry
INVARIANT TypeOK
INVARIANT LevelsSound
INVARIANT LookupRight
