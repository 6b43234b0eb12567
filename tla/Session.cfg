SPECIFICATION Spec
CONSTANTS
    MaxHalf = 3
    ChunkHalves = 3
    File <- mcFile
    CrcWords <- mcCrcWords
    HeaderHalves = 1
    AreaHalves = 16
    Places = 5
    Strays <- mcStrays
    Inbox = 1
    MaxRuns = 2
INVARIANTS TypeOK CoreInFront CrcBehindCore
PROPERTIES RunEnds
