SPECIFICATION CSpec
CONSTANTS
    p1 = p1
    p2 = p2
    q1 = q1
    q2 = q2
    Proc = {p1, p2}
    None = None
    Task <- Agents
    ProcOf <- Host
    Provider = {q1, q2}
    ProviderOf <- Account
    Guarded <- Firsts
    MaxTries = 2
    MaxCalls = 1
    MaxExpiries = 2
INVARIANTS
    ExclusiveWhileAllLive
    LiveLockHasHolder
    RefusedOnlyAfterLoss
    StoreIsCurrent
PROPERTIES
    RefreshSettles
CHECK_DEADLOCK FALSE
