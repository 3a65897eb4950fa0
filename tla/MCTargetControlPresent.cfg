CONSTANTS
    ui1 = ui1
    ui2 = ui2
    ui3 = ui3
    Clients = {ui1}
    NoClient = NoClient
    Version <- CurrentVersions
    Drivers = {vulkan}
    Paths = {p}
    NoPath = NoPath
    MaxCaptures = 2
    MaxChildren = 1
    MaxDriverChanges = 0
    MaxWindows = 1
    MaxCommands = 1
    MaxQueue = 1
    Scenarios <- PresentScenarios
SPECIFICATION PresentingSpec
CHECK_DEADLOCK FALSE
PROPERTIES EverythingIsReported CapturesAreShown
