SPECIFICATION Spec
CONSTANTS
    cached_slots = 3
    REISERFS_MAX_TREE_HEIGHT = 4
    Images <- MCDisks
    Requests <- MCRequests
    blocksize = 2
    MAX_LINK_COUNT = 2
    PATH_MAX = 9
    REISERFS_MAX_SUPPORTED_VERSION = 2
    Byte = 4
    Positions = {0, 1, 3, 4}
    Sizes = {1, 3, 6}
    MaxReads = 2
    MaxFaults = 2
INVARIANTS
    LookupRight
    ReplaysOnlyCommitted
PROPERTIES
    ImplementsReader
    CallReturns
