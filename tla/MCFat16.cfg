\* Files on a small disk, with one power loss.
CONSTANTS
    NUM_FATS = 2
    MaxCluster = 4
    ROOT_ENTRIES = 2
    a = a
    b = b
    c = c
    Names <- Files
    SectorSize = 2
    SectorsPerCluster = 2
    Bytes = {"zero", "p", "q", "r"}
    Contents <- MCContents
    MaxLosses = 1
SPECIFICATION Spec
SYMMETRY Symmetry
INVARIANTS TypeOK Intact ChainsApart FatsAgree NoLeak
