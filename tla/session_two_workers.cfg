SPECIFICATION FairSpec
CONSTANTS
    Users = {u1}
    Admins = {}
    Active = {u1}
    Workers = {w1, w2}
    HasCache = TRUE
    RedisFails = TRUE
    DbFails = TRUE
    AnswersLost = TRUE
    Restarts = TRUE
    MaxVersion = 2
    MaxQueue = 1
PROPERTIES
    CopyBecomesCurrent
