\* Three calls of Send, two of them and their handlers at work at a time, for one
\* file that may be removed at the sender meanwhile.
CONSTANTS
    Byte = {0, 1}
    Zero = 0
    None = None
    ChunkSize = 2
    c1 = c1
    c2 = c2
    c3 = c3
    Conns = {c1, c2, c3}
    NFiles = 1
    InitSrc <- OneSource
    InitDest <- NoLeftover
    Edits = {None}
    MaxEdits = 1
    MaxFaults = 1
    MaxLive = 2
    MaxSenders = 2
SPECIFICATION Spec
SYMMETRY Sym
INVARIANTS
    ExpectedFrames
    DeliveredIntact
    SuccessMeansDelivered
