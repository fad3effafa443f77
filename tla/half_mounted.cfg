SPECIFICATION Spec
CONSTANTS
    None = None
    Torn = Torn
    t1 = t1
    t2 = t2
    empty = empty
    small = small
    large = large
    whole = whole
    huge = huge
    Threads = {t1, t2}
    Paths = {small}
    InodeIds = {i1}
    VolumeIds = {v1}
    CompressedSize <- MCSizes
    HeaderLen = 2
    RecordLen = 1
    VolumeSize = 8
    ThresholdNum = 1
    ThresholdDen = 10
    FreshIds = TRUE
    SeparateReads = TRUE
    Ops <- TwoMounters
    MaxBatch = 2
    MaxCalls = 5
    MaxFaults = 0
    MaxCrashes = 0
SYMMETRY IdSymmetry
INVARIANTS
    MountedCached
