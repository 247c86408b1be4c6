SPECIFICATION FairSpec
CONSTANTS
    u1 = u1
    u2 = u2
    s1 = s1
    s2 = s2
    Users = {u1, u2}
    Streams = {s1, s2}
    OwnerOf <- MCOwnerOf
    Restarts = TRUE
    MaxPublished = 3
INVARIANTS
    OwnInOrder
    NoGaps
PROPERTIES
    OpenStreamIsTold
    ClosedLeaves
