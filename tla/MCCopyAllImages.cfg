SPECIFICATION FrameRefsSpec
CONSTANTS
    Subresources = {1, 2}
    MaxAccesses = 3
CHECK_DEADLOCK FALSE
INVARIANT CopyAllRestoresImages
