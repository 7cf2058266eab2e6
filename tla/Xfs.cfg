SPECIFICATION Spec
CONSTANTS
    Images <- MCImages
    Requests <- MCRequests
    bsize = 8
    blklog = 3
    SECTOR_BITS = 1
    agblocks = 3
    agblklog = 2
    inopblog = 1
    Word = 4
    LenBits = 2
    StartBits = 1
    LeafBase = 16
    Blanks = 2
    MAX_LINK_COUNT = 2
    Positions = {0, 9, 15, 18, 25}
    Sizes = {1, 4, 12}
    MaxReads = 2
    MaxFaults = 1
INVARIANTS
    LookupRight
PROPERTIES
    ImplementsReader
    CallReturns
