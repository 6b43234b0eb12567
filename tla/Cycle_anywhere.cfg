SPECIFICATION CycleSpec
CONSTANTS
    MaxHalf = 7
    PageHalves = 4
    CurAddr = 0
    NewAddr = 32
    LastPageAddr = 76
    HeaderHalves = 4
    MagicLo = 5
    MagicHi <- mcMagicHi
    CurPages = 8
    NewPages = 4
    Faults = FALSE
    LoopStart <- mcLoopFromZero
    Images <- mcImages
    ChunkHalves = 2
    Stale <- mcStale
    CrcWords <- mcCrcWords
INVARIANTS CompletedBoots CoreUndisturbed
PROPERTIES CompletedRuns DeliverySpec
