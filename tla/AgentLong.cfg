CONSTANTS
    Initial <- NewOrRestored
    MaxRounds = 3
    CutCap = 1
    FullCap = 1
    MaxTools = 1
    NumModes = 1
    HooksDeny = TRUE
    EmptyAnswers = FALSE
    ToolsMayThrow = TRUE
    MaxRuns = 1
    MaxToggles = 2
SPECIFICATION Spec
INVARIANTS
    TypeOK
    RolesAlternate
PROPERTY ContinuationsAreCounted
CHECK_DEADLOCK FALSE
