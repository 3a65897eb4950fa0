SPECIFICATION Spec
CONSTANTS
    Devices <- MCDevices
    Windows <- MCWindows
    MaxRefs = 2
    Subresources = {1, 2}
    MaxAccesses = 3
    Resources = {1, 2}
    Parent <- MCParent
    Tracked = {1, 2}
    Hazards = {}
    UINT64_MAX = 4
    Values = {0, 2, 3, 4}
    PageBytes = 2
    UINT_MAX = 63
    VulkanLayouts <- MCVulkanLayouts
    D3D12Layouts <- MCD3D12Layouts
    Heaps = {"heap"}
    HeapOffsets = {1, 8}
    MaxBindings = 2
    TableHazards = {}
    NoPath = NoPath
    NoTrace = NoTrace
    DebugFrames <- MCDebugFrames
    SourceBreakpoints <- MCSourceBreakpoints
CHECK_DEADLOCK FALSE
INVARIANTS
    TypeOK
    ActiveWindowRegistered
    MatchComplete
    ReadsSeeTheSame
    BeginsClean
    ContentsKept
    RecordsKept
    IntervalsComposed
    BindingsKept
    FrontEndSeesPosition
PROPERTY
    CommandsStopInTime
