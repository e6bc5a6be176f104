SPECIFICATION Spec
CONSTANTS
    me = me
    ann = ann
    Me = me
    Others = {ann, bob}
    Posts <- MCPosts
    Author <- MCAuthor
    InLimit = 1
    Faults = {"queryFails"}
    MaxPending = 4
    MaxPosts = 3
INVARIANTS
    TypeOK
    RowsAreInArray
    FeedIsComplete
