\* The physical memory manager as an allocator of a set of pages.
CONSTANTS
    PAGE_SIZE = 4
    MAX_MEMORY = 32
    LOW_END = 8
    MaxPages = 8
    MemoryMaps <- MCMemoryMaps
    Reserved <- MCReserved
SPECIFICATION Spec
INVARIANTS TypeOK Accounting NoneBelowHint OnlyMemory
PROPERTY Implements
