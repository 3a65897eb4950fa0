SPECIFICATION SparseSpec
CONSTANTS
    PageBytes = 2
    UINT_MAX = 63
    VulkanLayouts <- MCVulkanLayouts
    D3D12Layouts <- MCD3D12Layouts
    Heaps = {"heap"}
    HeapOffsets = {1, 8}
    MaxBindings = 1
    TableHazards = {}
CHECK_DEADLOCK FALSE
INVARIANT ReusedPagesReplayed
