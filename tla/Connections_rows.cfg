SPECIFICATION Spec
CONSTANTS
    People = {p, q}
    Faults = {"readFails", "elsewhere"}
    MaxDocs = 2
    MaxPending = 3
SYMMETRY Symmetry
INVARIANTS
    TypeOK
    RowOpensItsUser
    RowsAreCurrent
