SPECIFICATION FairSpec
CONSTANTS
    Clients = {c1, c2}
    NoClient = NoClient
    Kinds = {"active", "check", "old", "bad", "foreign"}
    Scenarios = {{"Shutdown"}}
    AppCapture = AppCapture
    MaxCopies = 1
    MaxQueue = 1
CHECK_DEADLOCK FALSE
PROPERTIES ShutdownIsObeyed
