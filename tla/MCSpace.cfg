SPECIFICATION Spec
CONSTANTS
    TABLE_PAGES = 2
    PROG_PAGES = 2
    HEAP_PAGES = 2
    Memories <- MCMemories
    Heaps <- MCHeaps
    MaxTask = 3
INVARIANTS
    OwnMemory
    OwnStacks
    FramesApart
CHECK_DEADLOCK FALSE
