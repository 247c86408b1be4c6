SPECIFICATION FairSpecAll
CONSTANTS
    a = a
    u = u
    p1 = p1
    t = t
    Users = {a, u}
    Admins = {a}
    Projects = {p1}
    Teams = {t}
    TeamOf <- MCTeamOf
    Offered = {"backend_dev"}
    Workers = {w1, w2}
    Responders = {w1, w2}
    DbFails = TRUE
    AnswersLost = TRUE
    Restarts = TRUE
    MaxInvitations = 1
    Streams = {s1}
    OwnerOf <- MCOwnerOf
    MaxPublished = 4
INVARIANTS
    ToldMeansMember
PROPERTIES
    InviterIsTold
