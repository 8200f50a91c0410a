\* The three buffers of the program and a file that uses each of them twice.
CONSTANTS
    Depth = 3
    NChunks = 6
SPECIFICATION FairSpec
INVARIANTS
    TypeOK
    NothingLost
PROPERTIES
    KeepsPromise
    Returns
    ReaderEnds
