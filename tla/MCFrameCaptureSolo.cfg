SPECIFICATION FairSpec
CONSTANTS
    Devices <- OneDevice
    Windows <- TwoWindows
    MaxRefs = 1
    MaxFrame = 2
    MaxRequests = 2
    MaxStrayEnds = 1
    MultiCounts <- OneOrTwo
    QueuedFrames <- FirstTwo
    ApiQueries <- SomeQueries
    Teardown = FALSE
INVARIANTS
    CapturesAsAsked
PROPERTIES
    TriggeredCaptureEnds
