SPECIFICATION Spec
CONSTANTS
    Devices <- TwoDevices
    Windows <- OneWindow
    MaxRefs = 1
    MaxFrame = 1
    MaxRequests = 2
    MaxStrayEnds = 0
    MultiCounts <- One
    QueuedFrames <- NoFrames
    ApiQueries <- NoQuery
    Teardown = TRUE
INVARIANTS
    FrameCaptureTypeOK
    TitleBelongsToCapture
    DriverMatchesItself
    IsFrameCapturingSeesCapture
PROPERTIES
    RegistrySpec
