\* One call of Send at a time, but the handler of a cancelled call may still be at
\* work when the next call begins.  No fault, no edit.
CONSTANTS
    Byte = {0, 1}
    Zero = 0
    None = None
    ChunkSize = 2
    c1 = c1
    c2 = c2
    Conns = {c1, c2}
    NFiles = 1
    InitSrc <- OneSource
    InitDest <- NoLeftover
    Edits <- NoEdits
    MaxEdits = 0
    MaxFaults = 0
    MaxLive = 2
    MaxSenders = 1
SPECIFICATION Spec
SYMMETRY Sym
INVARIANTS
    AckedIsOnDisk
