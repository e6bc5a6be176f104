SPECIFICATION Spec
CONSTANTS
    me = me
    ann = ann
    Me = me
    Others = {ann, o2, o3, o4, o5, o6, o7, o8, o9, o10, o11}
    Posts <- MCPosts
    Author <- MCAuthor
    InLimit = 10
    Faults = {}
    MaxPending = 2
    MaxPosts = 3
INVARIANT InFilterWithinLimit
