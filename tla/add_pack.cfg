SPECIFICATION Spec
CONSTANTS
    None = None
    Torn = Torn
    t1 = t1
    t2 = t2
    empty = empty
    small = small
    large = large
    whole = whole
    huge = huge
    Threads = {t1, t2}
    Paths = {small, large, huge}
    InodeIds = {i1, i2, i3}
    VolumeIds = {v1, v2, v3, v4}
    CompressedSize <- MCSizes
    HeaderLen = 2
    RecordLen = 1
    VolumeSize = 4
    ThresholdNum = 9
    ThresholdDen = 10
    FreshIds = TRUE
    SeparateReads = TRUE
    Ops <- AddAndPack
    MaxBatch = 2
    MaxCalls = 4
    MaxFaults = 1
    MaxCrashes = 0
SYMMETRY IdSymmetry
INVARIANTS
    PendingStaged
    SizeAccounted
    AcceptedKept
    ExtentsDisjoint
PROPERTIES
    PackAtomic
    StoredForever
