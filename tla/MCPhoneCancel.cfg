\* Two transfers, one after the other, and a cancel.
CONSTANTS
    Sockets = {1, 2}
    Transfers = {1, 2}
    MaxReconnects = 0
    MaxMishaps = 1
    Room = 1
SPECIFICATION Spec
INVARIANTS
    CancelReaches
CHECK_DEADLOCK FALSE
