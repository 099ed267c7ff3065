CONSTANTS
    Initial <- NewSession
    MaxRounds = 1
    CutCap = 0
    FullCap = 0
    MaxTools = 1
    NumModes = 0
    HooksDeny = FALSE
    EmptyAnswers = FALSE
    ToolsMayThrow = FALSE
    MaxRuns = 2
    MaxToggles = 0
    MaxCrashes = 1
    Keeps = {1}
    CompactMidTools = FALSE
    CompactMidRepair = FALSE
    MaxCompacts = 1
SPECIFICATION CompactSpec
INVARIANTS
    CompactTypeOK
    SendIsValid
    NoGhostWork
    ResultsAreTrue
    CheckpointIsRestored
CHECK_DEADLOCK FALSE
