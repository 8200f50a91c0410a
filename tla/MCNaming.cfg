\* Two sends in a row, by the app or on the command line, of up to two paths.
CONSTANTS
    Elements <- Names
    Source <- Tree
    Roots <- BridgeRoots
    Cwd <- Here_d
    OutDir <- Out
    Leftovers <- MayBeThere
    Untapped <- NotListed
    Arguments <- Args
    MaxPaths = 2
    Dotted = {".hidden", "..x"}
    MaxPayload = 4
    MaxSends = 2
SPECIFICATION Spec
INVARIANTS
    LandsWhereAsked
    RefusedForAReason
PROPERTIES
    TouchesOnlyItsOwn
CHECK_DEADLOCK FALSE
