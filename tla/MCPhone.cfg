\* Two transfers, one "Save and reconnect", and a cancel or a lost connection.
CONSTANTS
    Sockets = {1, 2, 3, 4}
    Transfers = {1, 2}
    MaxReconnects = 1
    MaxMishaps = 1
    Room = 1
SPECIFICATION Spec
INVARIANTS
    TypeOK
    AuthFirst
    OrphansAreFromReconnects
PROPERTIES
    Rejoins
    ViewEnds
CHECK_DEADLOCK FALSE
