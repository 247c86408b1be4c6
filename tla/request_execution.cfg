SPECIFICATION Spec
CONSTANTS
    NumKeys = 2
    EndpointTexts <- MCEndpointTexts
    Globals <- MCGlobals
    Environments <- MCEnvironments
    OverrideSets <- MCOverrideSets
    ScriptTexts <- MCScriptTexts
    MaxSets = 2
INVARIANTS
    LeftoverExplained
    DynamicExplained
    FlatIsSimultaneous
    Precedence
PROPERTIES
    ExecutionEnds
CHECK_DEADLOCK FALSE
