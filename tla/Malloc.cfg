SPECIFICATION HeapSpec
CONSTANTS
    Bottom = 8
    Size = 26
    Sizes = {0, 3, 8}
    Aligns = {2, 6, 8}
    AddrSpace = 256
INVARIANTS
    TypeOK
    BlocksDisjoint
    BlocksInArena
    NoClobber
    IInv
