SPECIFICATION mcSpec
CONSTANTS
    MaxHalf = 7
    PageHalves = 4
    CurAddr = 0
    NewAddr = 4
    LastPageAddr = 24
    HeaderHalves = 4
    MagicLo = 5
    MagicHi <- mcMagicHi
    Faults = TRUE
    Data <- mcData
    Stale <- mcStale
    CrcWords <- mcCrcWords
    BootPages = 2
    MaxMishaps = 1
INVARIANTS TypeOK AckedStored
PROPERTIES DelRemovesHeader
