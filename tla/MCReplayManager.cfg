CONSTANTS
    Connections = {c1, c2}
    Workers = {"script"}
    NoConnection = NoConnection
    MaxCaptures = 2
    MaxQueue = 2
    WhileOpen = {}
SPECIFICATION FairSpec
CHECK_DEADLOCK FALSE
INVARIANTS
    ReplayManagerTypeOK
    ConnectionsKept
    CommandsAreKept
PROPERTIES
    NobodyWaitsForEver
