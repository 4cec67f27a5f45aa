\* Every output of up to three units, read in any chunks.
CONSTANTS
    MarkerLen = 3
    Overlap = 2
    FullLines = 2
    FullChars = 2
    SideLines = 1
    SideChars = 1
    MaxOut = 3
SPECIFICATION Spec
CHECK_DEADLOCK FALSE
INVARIANTS
    ScanIsExact
    ShownIsOutput
