SPECIFICATION SpecAll
CONSTANTS
    old = old
    new = new
    Files = {1, 2, 3}
    Rank <- MCRank
    Release <- MCRelease
    Engines = {old, new}
    Server = new
    Names = {root, admin}
    Workers = {w1, w2}
    DbFails = TRUE
    Restarts = TRUE
INVARIANTS
    TypeOK
    UpMeansMigrated
    ListedIsSkipped
    AdminIsThere
    CreatedOnce
PROPERTIES
    KeepsHistory
    NeverGoesBack
    StoredInSchema
