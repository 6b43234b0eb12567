SPECIFICATION BusySpec
CONSTANTS
    NRx = 3
    NTx = 2
    FifoLen = 2
    Numbers = 6
    Kinds = {"plain", "datagram", "long"}
    Burst = 2
INVARIANTS TypeOK RxInOrder TxInOrder WokenUp NoMissedResume
PROPERTIES HeadTaken RingsMove
