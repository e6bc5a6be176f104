SPECIFICATION Spec
CONSTANTS
    Users = {u1, u2}
    Devices = {d1, d2}
    NoUser = NoUser
    Faults = {"crash", "reject", "sharing"}
    PipelineLimit = 2
    MaxLane = 4
    MaxTaps = 2
SYMMETRY Symmetry
INVARIANTS
    TypeOK
    ReciprocalUnlessSuspect
    CommittedIsStored
    NobodyFollowsSelf
PROPERTIES
    SavedWritesSurvive
