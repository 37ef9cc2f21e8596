SPECIFICATION FairSpec
CONSTANTS
    Table = {t1, t2}
    Loaded = {t1}
    Readers = {r1}
    Compactors = {c1, c2}
    Closer = Closer
    NoTable = NoTable
    NoThread = NoThread
    t1 = t1
    t2 = t2
    r1 = r1
    c1 = c1
    c2 = c2
INVARIANT TypeOK
INVARIANT RefCountExact
INVARIANT NoUseAfterClose
INVARIANT ListedReadable
INVARIANT SnapshotComplete
PROPERTY RetiredFilesGo
