SPECIFICATION FairSpec
CONSTANTS
    Ids = {e1}
    Types = {"REST", "SOAP"}
    Payloads = {x}
    Users = {"admin"}
    RoleOf <- MCRoleOf
    Workers = {w1, w2}
    Absent = Absent
    PoolSize = 3
    DbFails = TRUE
    Restarts = TRUE
INVARIANTS
    OnlyOwnTypeHasDetails
    OwnTypeHasDetails
    DetailsHaveEndpoint
    LookupFindsConnection
PROPERTIES
    PublishKeepsDetails
    UpdateAnswered
