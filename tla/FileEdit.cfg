SPECIFICATION ESpec
CONSTANTS
    p1 = p1
    p2 = p2
    Proc = {p1, p2}
    None = None
    Task <- Calls
    ProcOf <- Home
    ToolOf <- Tools
    Wedges = TRUE
    MaxTries = 2
    MaxCalls = 1
    Initially = {0, 1}
INVARIANTS
    NoLostEdit
    LiveLockHasHolder
    ExclusiveUnlessCleared
CHECK_DEADLOCK FALSE
PROPERTIES CallSettles
