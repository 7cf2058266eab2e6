SPECIFICATION Spec
CONSTANTS
    Pages = 14
    MaxAddr = 10
    Layouts <- MCLayouts
    Kernels <- MCKernels
    KERNELADDR = 0
    LinkAddr = 20
    Align = 2
    Room = 1
    Chunk = 2
    InitrdSizes = {0, 1, 2, 3, 4}
    MaxLoads = 2
    MaxFaults = 1
INVARIANTS
    ImageIntact
    InitrdIntact
    FirmwareUntouched
    FailureCleansUp
PROPERTIES
    LoadEnds
