SPECIFICATION Spec
CONSTANTS
    Users = {u1, u2, u3}
    Devices = {d1}
    NoUser = NoUser
    Faults = {"crash", "reject"}
    PipelineLimit = 2
    MaxLane = 4
    MaxTaps = 2
SYMMETRY Symmetry
PROPERTIES
    CrashTearsAtMostOnePair
