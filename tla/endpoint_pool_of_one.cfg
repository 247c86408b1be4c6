SPECIFICATION FairSpec
CONSTANTS
    Ids = {e1}
    Types = {"REST", "SOAP"}
    Payloads = {x}
    Users = {"backend_dev"}
    RoleOf <- MCRoleOf
    Workers = {w1}
    Absent = Absent
    PoolSize = 1
    DbFails = FALSE
    Restarts = FALSE
PROPERTIES
    UpdateAnswered
CHECK_DEADLOCK FALSE
