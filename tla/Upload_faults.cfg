SPECIFICATION Spec
CONSTANTS
    Users = {u1, u2}
    Kinds = {profilePicture, background}
    Names = {n1, n2}
    None = None
    Faults = {"crash", "stepFails", "readFails", "loadFails"}
    MaxUploads = 2
    MaxLoads = 1
INVARIANTS
    TypeOK
    ProfileHasPicture
    PictureIsOwn
    LatestWins
    PickIsKept
    HeaderIsProfile
PROPERTY
    EventuallyOnProfile
