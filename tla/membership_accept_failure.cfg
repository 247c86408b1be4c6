SPECIFICATION Spec
CONSTANTS
    a = a
    u = u
    p1 = p1
    p2 = p2
    q = q
    s = s
    t = t
    Users = {a, u}
    Admins = {a}
    Projects = {p1, q}
    Teams = {s, t}
    TeamOf <- MCTeamOf
    Offered = {"admin", "backend_dev", "viewer"}
    Workers = {w1}
    Responders = {w1}
    DbFails = TRUE
    AnswersLost = FALSE
    Restarts = FALSE
    MaxInvitations = 2
INVARIANTS
    AcceptedIsMember
