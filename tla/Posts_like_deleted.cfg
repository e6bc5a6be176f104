SPECIFICATION Spec
CONSTANTS
    Users = {u1, u2}
    Devices = {d1, d2}
    Ids = {p1}
    NoUser = NoUser
    NoDoc = NoDoc
    Faults = {}
    MaxTaps = 3
INVARIANT LikeFindsItsPost
