CONSTANTS
    MaxRetries = 2
    ChunkSize = 2
    MaxPart = 2
    MaxSize = 5
    Absent = Absent
    Orphan = Orphan
    Theirs = Theirs
SPECIFICATION FairSpec
INVARIANTS
    TypeOK
    DestIntact
    SuccessMeansStored
    AbortStoresNothing
    ProgressAcknowledged
    CursorInSync
PROPERTIES
    NoSilentReplace
    PutReturns
    ImplementsAtomicPut
