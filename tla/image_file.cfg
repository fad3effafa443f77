SPECIFICATION FairSpec
CONSTANTS
    f1 = f1
    f2 = f2
    f3 = f3
    Files = {f1, f2, f3}
    NameLen <- MCNameLen
    DataLen <- MCDataLen
    SuffixLen = 1
    HeaderLen = 2
    FixedLen = 2
    LengthLen = 1
    VolumeSize = 30
    Word = 64
    NoFile = NoFile
    Packer = Packer
    Reader = Reader
    Image = Image
    Procs <- MCProcs
    Names <- MCNames
    PendingLists <- MCLists
    Depth = 2
    Hole <- MCHole
    Absent = Absent
    MaxErrors = 1
    MaxShorts = 2
    MaxStalls = 1
INVARIANTS
    TypeOK
    MountExact
    WrittenThrough
    ReadOwnBytes
    NoSpuriousFailure
PROPERTIES
    IoReturns
