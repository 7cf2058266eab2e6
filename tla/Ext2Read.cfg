SPECIFICATION Spec
CONSTANTS
    bs = 2
    MAX_READ_RANGE = 2
    Maps <- MCMaps
    MaxPos = 5
    MaxSize = 8
    MaxFaults = 1
INVARIANTS
    DeliversContent
PROPERTIES
    ImplementsReader
    ReadReturns
