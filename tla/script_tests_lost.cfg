SPECIFICATION Spec
CONSTANTS
    Envs = {e1}
    Values = {v1}
    NoValue = NoValue
    Readers = {executor}
    Executor = executor
    DbFails = FALSE
    RedisFails = FALSE
    Restarts = FALSE
    MaxWrites = 1
    MaxQueue = 1
    ScriptValues = {x}
    Statuses = {200, 404}
    Timeout = 1
    MaxTests = 1
INVARIANTS
    TestsReported
