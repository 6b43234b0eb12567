SPECIFICATION QuietSpec
CONSTANTS
    NRx = 4
    NTx = 2
    FifoLen = 2
    Numbers = 8
    Kinds = {"plain"}
    Burst = 1
PROPERTIES HeadTaken
