SPECIFICATION Spec
CONSTANTS
    Regions = {us, bg}
    Loads = {l1, l2}
    None = None
    Faults = {"usersFail", "newsFails", "readFails"}
    MaxReads = 1
    MaxBlocks = 0
SYMMETRY Symmetry
INVARIANTS
    TypeOK
    TapOpensShownRow
    NewsOfRegion
    HiddenTableReturns
