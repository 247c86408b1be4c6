SPECIFICATION Spec
CONSTANTS
    Users = {u1, u2}
    Admins = {u1}
    Active = {u1, u2}
    Workers = {w1}
    HasCache = TRUE
    RedisFails = FALSE
    DbFails = FALSE
    AnswersLost = FALSE
    Restarts = FALSE
    MaxVersion = 3
    MaxQueue = 2
INVARIANTS
    VerdictIsCurrent
    RotatedNeverAccepted
    RoleIsExact
PROPERTIES
    RowDecides
