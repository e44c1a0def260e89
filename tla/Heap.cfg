CONSTANTS
    first = first  second = second
    Client <- MCClient
    Align = 2
    Hdr = 2
    MinSize = 2
    MemSize = 14
    WordMod = 64
    Sizes <- MCSizes
SPECIFICATION HeapSpec
INVARIANTS Linked Coalesced LowestFree UsedMemExact NoLeak
PROPERTY RefinesAllocator
SYMMETRY MCSymmetry
