SPECIFICATION Spec
CONSTANTS
    Tokens <- MCTokens
    Number <- MCNumber
    Octets <- MCOctets
    DevKind <- MCDevKind
    NasDevice <- MCNas
    Inputs <- MCInputs
    Disks <- MCDisks
    MAX_BLOCK_SIZE = 2048
    IsoFirst = 2
    IsoLast = 5
    AMIGA_RDB_MAX = 3
    WordBits = 2
    MaxFaults = 1
INVARIANTS
    LocalPathsMean
    NetPathsMean
    ListIsTable
PROPERTIES
    LookupEnds
