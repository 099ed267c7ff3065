SPECIFICATION Spec
CONSTANTS
    MaxTyped = 2
    MaxQueued = 3
    MaxRestarts = 1
INVARIANTS ReplTypeOK TurnIsAbortable NothingDropped
PROPERTIES EveryPromptMoves
CHECK_DEADLOCK FALSE
