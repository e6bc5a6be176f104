SPECIFICATION Spec
CONSTANTS
    Views = {v1, v2}
    Cells = {v1}
    Urls = {a, b}
    Uuids = {l1, l2}
    None = None
    MaxBlocks = 1
    MaxAsked = 2
SYMMETRY Symmetry
INVARIANTS
    TypeOK
    ShowsItsRow
    RunningIsCancellable
    RequestsAreDropped
    PicturesArrive
