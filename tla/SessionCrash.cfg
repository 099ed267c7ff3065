CONSTANTS
    Initial <- NewSession
    MaxRounds = 1
    CutCap = 0
    FullCap = 0
    MaxTools = 2
    NumModes = 1
    HooksDeny = TRUE
    EmptyAnswers = FALSE
    ToolsMayThrow = TRUE
    MaxRuns = 2
    MaxToggles = 1
    MaxCrashes = 1
SPECIFICATION SessionSpec
INVARIANTS
    LogIsOrdered
    RestoredIsResumable
    WorkSurvivesCrash
    PromptSurvivesCrash
CHECK_DEADLOCK FALSE
