SPECIFICATION Spec
CONSTANTS
    IdleTimeout = 2
    ThinkingTimeout = 3
    PreTimeout = 3
    HardTimeout = 4
    LateAuth = FALSE
    MaxOthers = 2
    MaxText = 2
    MaxCalls = 2
PROPERTIES CallsAreNotReplayed
