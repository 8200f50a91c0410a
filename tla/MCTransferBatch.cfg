\* One call of Send for two files, any source against any leftover, one fault.
CONSTANTS
    Byte = {0, 1}
    Zero = 0
    None = None
    ChunkSize = 2
    c1 = c1
    Conns = {c1}
    NFiles = 2
    InitSrc <- Sources
    InitDest <- Leftovers
    Edits <- NoEdits
    MaxEdits = 0
    MaxFaults = 1
    MaxLive = 1
    MaxSenders = 1
SPECIFICATION ObservedFairSpec
INVARIANTS
    SuccessMeansSame
    OnlyFaultsFail
    NothingLeftRunning
PROPERTIES
    KeepsGround
    BarsOnlyRise
    Settles
