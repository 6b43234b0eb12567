SPECIFICATION Spec
CONSTANTS
    MaxHalf = 7
    PageHalves = 4
    CurAddr = 0
    NewAddr = 32
    LastPageAddr = 64
    HeaderHalves = 4
    MagicLo = 5
    MagicHi <- mcMagicHi
    CurPages = 8
    NewPages = 4
    Faults = TRUE
    LoopStart <- mcLoopFromZero
    Images <- mcAllImages
INVARIANTS CoreSafe
PROPERTIES SlotSpec
