SPECIFICATION Spec
CONSTANTS
    a = a
    b = b
    c = c
    d = d
    Steps <- MCSteps
    InitialSteps <- MCInitialSteps
    InitialDeps <- MCInitialDeps
    Missing = missing
    NoCheckpoint = NoCheckpoint
    Undoable <- MCUndoable
    MaxRetries = 1
    MaxReplans = 1
    Limit = 2
    MaxSessions = 2
    MaxRevised = 2
INVARIANT WorkInPlace
CHECK_DEADLOCK FALSE
