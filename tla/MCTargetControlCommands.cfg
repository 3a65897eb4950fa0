CONSTANTS
    ui1 = ui1
    ui2 = ui2
    ui3 = ui3
    Clients = {ui1, ui2}
    NoClient = NoClient
    Version <- CurrentVersions
    Drivers = {vulkan}
    Paths = {p}
    NoPath = NoPath
    MaxCaptures = 2
    MaxChildren = 0
    MaxDriverChanges = 1
    MaxWindows = 0
    MaxCommands = 1
    MaxQueue = 1
    Scenarios <- CommandScenarios
SPECIFICATION Spec
CHECK_DEADLOCK FALSE
INVARIANTS
    TargetControlTypeOK
    CommandsReachTheirCapture
