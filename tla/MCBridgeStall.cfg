\* One transfer, and a phone that stays connected and need not read.
CONSTANTS
    MaxSends = 1
    Room = 2
    MaxInbox = 1
    MaxCommands = 2
    MaxSilences = 0
    Frames = 3
SPECIFICATION FairSpec
PROPERTIES
    PhoneCannotStall
CHECK_DEADLOCK FALSE
