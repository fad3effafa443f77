SPECIFICATION Spec
CONSTANTS
    f1 = f1
    f2 = f2
    f3 = f3
    Files = {f1, f2, f3}
    NameLen <- MCNameLen
    DataLen <- MCDataLen
    SuffixLen = 1
    HeaderLen = 2
    FixedLen = 2
    LengthLen = 1
    VolumeSize = 30
    Word = 20
    NoFile = NoFile
    Packer = Packer
    Reader = Reader
    Image = Image
    Procs <- MCProcs
    Names <- MCNames
    PendingLists <- WrapLists
    Depth = 2
    Hole <- MCHole
    Absent = Absent
    MaxErrors = 0
    MaxShorts = 0
    MaxStalls = 0
INVARIANTS
    WrittenThrough
