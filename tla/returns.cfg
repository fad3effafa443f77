SPECIFICATION FairSpec
CONSTANTS
    None = None
    Torn = Torn
    t1 = t1
    t2 = t2
    empty = empty
    small = small
    large = large
    whole = whole
    huge = huge
    Threads = {t1, t2}
    Paths = {small, huge}
    InodeIds = {i1, i2}
    VolumeIds = {v1, v2, v3}
    CompressedSize <- MCSizes
    HeaderLen = 1
    RecordLen = 1
    VolumeSize = 4
    ThresholdNum = 9
    ThresholdDen = 10
    FreshIds = TRUE
    SeparateReads = TRUE
    Ops <- AllOps
    MaxBatch = 2
    MaxCalls = 4
    MaxFaults = 1
    MaxCrashes = 0
PROPERTIES
    CallsReturn
