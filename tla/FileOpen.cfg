SPECIFICATION Spec
CONSTANTS
    Disks <- MCDisks
    Wanted <- MCWanted
    MaxParts = 2
    MaxOpens = 2
INVARIANTS
    OpenSound
    OpenComplete
    HandleBalance
PROPERTIES
    OpenReturns
