SPECIFICATION Spec
CONSTANTS
    Users = {u1, u2, u3}
    Nobody = Nobody
    Faults = {"crash", "readFails"}
    MaxPending = 3
SYMMETRY Symmetry
INVARIANTS
    TypeOK
    UserIdIsSignedIn
    LoggedUserIsUserId
    AccountsHaveDocuments
