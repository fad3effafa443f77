SPECIFICATION Spec
CONSTANTS
    None = None
    Torn = Torn
    t1 = t1
    t2 = t2
    empty = empty
    small = small
    large = large
    whole = whole
    huge = huge
    Threads = {t1}
    Paths = {small}
    InodeIds = {i1, i2}
    VolumeIds = {v1, v2}
    CompressedSize <- MCSizes
    HeaderLen = 1
    RecordLen = 1
    VolumeSize = 4
    ThresholdNum = 9
    ThresholdDen = 10
    FreshIds = TRUE
    SeparateReads = TRUE
    Ops <- Sequential
    MaxBatch = 2
    MaxCalls = 2
    MaxFaults = 0
    MaxCrashes = 0
SYMMETRY IdSymmetry
INVARIANTS
    PackedRemountable
