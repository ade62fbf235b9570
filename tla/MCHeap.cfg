\* First fit, splitting and merging on a small heap.
CONSTANTS
    HEAP_SIZE = 56
    HEADER_SIZE = 4
    ALIGN = 2
    SPLIT = 8
    Sizes <- MCSizes
SPECIFICATION Spec
INVARIANTS Tiles OwnedApart RoomIsFound
