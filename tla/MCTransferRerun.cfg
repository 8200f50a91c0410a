\* Two calls of Send, one after the other, for one file: a receiver that holds any
\* leftover, a source that may be edited or removed once, two faults.
CONSTANTS
    Byte = {0, 1}
    Zero = 0
    None = None
    ChunkSize = 2
    c1 = c1
    c2 = c2
    Conns = {c1, c2}
    NFiles = 1
    InitSrc <- OneSource
    InitDest <- Leftovers
    Edits <- AllEdits
    MaxEdits = 1
    MaxFaults = 2
    MaxLive = 1
    MaxSenders = 1
SPECIFICATION ObservedSpec
SYMMETRY Sym
INVARIANTS
    TypeOK
    ExpectedFrames
    DeliveredIntact
    SuccessMeansDelivered
    AckedIsOnDisk
    DoneIsShown
PROPERTIES
    KeepsDelivery
