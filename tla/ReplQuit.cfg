SPECIFICATION Spec
CONSTANTS
    MaxTyped = 2
    MaxQueued = 2
    MaxRestarts = 0
INVARIANTS SubmitsSurviveExit
CHECK_DEADLOCK FALSE
