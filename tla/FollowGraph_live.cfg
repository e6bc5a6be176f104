SPECIFICATION FairSpec
CONSTANTS
    Users = {u1, u2}
    Devices = {d1, d2}
    NoUser = NoUser
    Faults = {}
    PipelineLimit = 2
    MaxLane = 4
    MaxTaps = 2
PROPERTIES
    EventuallySettled
    ImplementsFollowRelation
