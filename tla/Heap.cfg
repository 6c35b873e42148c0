SPECIFICATION HeapFairSpec
CONSTANTS
    HEAP_SIZE = 144
    Requests = {0, 1, 8, 12, 40}
INVARIANTS Tiling OwnedKept Coalesced
PROPERTY WalkEnds
