SPECIFICATION FairSpec
CONSTANTS
    a = a
    u = u
    p1 = p1
    p2 = p2
    q = q
    s = s
    t = t
    Users = {a, u}
    Admins = {a}
    Projects = {p1}
    Teams = {t}
    TeamOf <- MCTeamOf
    Offered = {"admin", "backend_dev", "viewer"}
    Workers = {w1, w2}
    Responders = {w1}
    DbFails = TRUE
    AnswersLost = TRUE
    Restarts = TRUE
    MaxInvitations = 2
INVARIANTS
    MembershipIsInvited
    DecidedByOwnRole
PROPERTIES
    AnsweredOnce
    RoleBecomesCurrent
