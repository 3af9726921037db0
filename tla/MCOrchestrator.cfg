SPECIFICATION Spec
CONSTANTS
    a = a
    b = b
    c = c
    d = d
    Steps <- MCSteps
    InitialSteps <- MCInitialSteps
    InitialDeps <- MCInitialDeps
    Missing = missing
    NoCheckpoint = NoCheckpoint
    Undoable <- MCUndoable
    MaxRetries = 1
    MaxReplans = 1
    Limit = 2
    MaxSessions = 2
    MaxRevised = 2
INVARIANTS
    RunsAfterDependencies
    CrashLosesNothing
    
PROPERTIES
    CompletedStaysDone
    AbortStops
    ImplementsDurablePlan
    SessionEnds
CHECK_DEADLOCK FALSE
