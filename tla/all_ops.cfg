SPECIFICATION Spec
CONSTANTS
    None = None
    Torn = Torn
    t1 = t1
    t2 = t2
    empty = empty
    small = small
    large = large
    whole = whole
    huge = huge
    Threads = {t1, t2}
    Paths = {empty, small, huge}
    InodeIds = {i1, i2}
    VolumeIds = {v1, v2, v3}
    CompressedSize <- MCSizes
    HeaderLen = 1
    RecordLen = 1
    VolumeSize = 8
    ThresholdNum = 1
    ThresholdDen = 2
    FreshIds = TRUE
    SeparateReads = TRUE
    Ops <- AllOps
    MaxBatch = 2
    MaxCalls = 6
    MaxFaults = 1
    MaxCrashes = 1
SYMMETRY IdSymmetry
INVARIANTS
    TypeOK
    LockOwnership
    LocalsReady
    ImagesPresent
    PendingStaged
    SizeAccounted
    AcceptedKept
    DeliveredIntact
    CachedOnDisk
PROPERTIES
    ImplementsStore
