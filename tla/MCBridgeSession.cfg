\* Two transfers, three commands in any order, a connection that one frame fills,
\* and a phone that drops off the network once.
CONSTANTS
    MaxSends = 2
    Room = 1
    MaxInbox = 1
    MaxCommands = 3
    MaxSilences = 1
    Frames = 1
SPECIFICATION ReadingSpec
INVARIANTS
    TypeOK
    OneTransfer
    NoOrphan
    ToldTheOutcome
PROPERTIES
    KeepsSession
    Noticed
    TransfersEnd
CHECK_DEADLOCK FALSE
