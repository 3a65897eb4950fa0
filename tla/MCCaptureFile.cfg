SPECIFICATION Spec
CONSTANTS
    NumBlocks = 3
    BlockSize = 2
    Lengths = {1, 2, 3, 7}
    MaxBytes = 9
    MaxFlushes = 2
    MaxFailures = 1
    Paths = {"capture", "copy", "temp"}
    TempPath = "temp"
    Names = {"notes", "bookmarks"}
    HeaderSize <- MCHeaderSize
    TextHeaderSize = 1
    SectionLengths = {0, 2}
    MaxSections = 3
    MaxTexts = 1
    MaxSectionFailures = 1
CHECK_DEADLOCK FALSE
INVARIANTS
    BlocksKept
    SectionsOnDisk
PROPERTIES
    SinkSpec
    CallsReturn
