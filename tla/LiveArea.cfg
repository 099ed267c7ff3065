CONSTANTS
    Listeners <- Subscriptions
    EventOf <- ListensFor
    Coalesced = {"ask"}
    Throttled = {"meter"}
    Slots = {"quota"}
    MaxEmits = 3
    MaxTicks = 3
SPECIFICATION Spec
INVARIANTS
    SlotTypeOK
    CatchesUp
PROPERTIES
    ShownIsNewest
    SlotRefreshes
CHECK_DEADLOCK FALSE
