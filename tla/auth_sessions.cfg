SPECIFICATION Spec
CONSTANTS
    None = None
    Users = {u1}
    Clients = {c1, c2}
    Sessions = {s1, s2}
    Threshold = 2
    LockoutMinutes = 2
    Timeouts = {1, 2}
    MaxTime = 4
    MaxRevision = 3
SYMMETRY Symmetry
INVARIANTS
    LockFollowsCounter
PROPERTIES
    LockHolds
    RotationReachesClients
