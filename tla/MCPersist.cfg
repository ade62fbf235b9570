\* Files, their image on disk, and the tasks that share them.
CONSTANTS
    Nodes = {1, 2, 3, 4, 5}
    CallNodes = {2, 3}
    Names = {7, 8, 9, 46}
    Stored <- MCStored
    Pieces <- MCPieces
    FilePaths <- MCFilePaths
    DirPaths <- MCDirPaths
    FDs = {3}
    Tasks = {t1, t2}
    Bytes = {1}
    MinCap = 1
    MaxSize = 2
    SectorUnits = 3
    BlobUnits = 9
    MaxSaves = 2
    MaxBoots = 1
    MaxCalls = 3
SPECIFICATION MCSpec
SYMMETRY MCSymmetry
INVARIANTS TypeOK TreeOK NoGap ListingComplete
PROPERTY Restored
CHECK_DEADLOCK FALSE
