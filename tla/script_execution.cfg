SPECIFICATION Spec
CONSTANTS
    Envs = {e1, e2}
    Values = {v1}
    NoValue = NoValue
    Readers = {executor, other}
    Executor = executor
    DbFails = TRUE
    RedisFails = TRUE
    Restarts = TRUE
    MaxWrites = 2
    MaxQueue = 1
    ScriptValues = {x}
    Statuses = {200}
    Timeout = 1
    MaxTests = 1
INVARIANTS
    ScriptSeesOwnResponse
    InterruptedOnlyLate
    ScriptReadsItsEnvironment
PROPERTIES
    ServesHistory
    CopyBecomesCurrent
    ScriptEnds
