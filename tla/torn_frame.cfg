SPECIFICATION Spec
CONSTANTS
    None = None
    Torn = Torn
    t1 = t1
    t2 = t2
    empty = empty
    small = small
    large = large
    whole = whole
    huge = huge
    Threads = {t1}
    Paths = {small}
    InodeIds = {i1, i2}
    VolumeIds = {v1, v2}
    CompressedSize <- MCSizes
    HeaderLen = 2
    RecordLen = 1
    VolumeSize = 8
    ThresholdNum = 1
    ThresholdDen = 2
    FreshIds = TRUE
    SeparateReads = TRUE
    Ops <- Salvage
    MaxBatch = 2
    MaxCalls = 3
    MaxFaults = 1
    MaxCrashes = 0
SYMMETRY IdSymmetry
INVARIANTS
    DeliveredRight
