CONSTANTS
    ui1 = ui1
    ui2 = ui2
    ui3 = ui3
    Clients = {ui1, ui2, ui3}
    NoClient = NoClient
    Version <- OneTooOld
    Drivers = {vulkan}
    Paths = {p}
    NoPath = NoPath
    MaxCaptures = 0
    MaxChildren = 0
    MaxDriverChanges = 0
    MaxWindows = 0
    MaxCommands = 1
    MaxQueue = 1
    Scenarios <- ServeScenarios
SPECIFICATION FairSpec
CHECK_DEADLOCK FALSE
INVARIANT CallbackOwnedByServingThread
PROPERTIES AbstractSpec UIsAreServed ShutdownStopsThreads
