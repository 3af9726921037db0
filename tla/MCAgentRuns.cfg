SPECIFICATION Spec
CONSTANTS
    A = A
    Agents = {A}
    NoRun = NoRun
    MaxRuns = 4
    MaxRoots = 2
    MaxConcurrent = 2
    MaxActive = 2
    MaxTotal = 2
    MaxToolCalls = 2
INVARIANTS
    TreeWithinBudget
    BlockedOnlyInKnots
PROPERTIES
    CancelStopsTree
    ServedOrKnotted
CHECK_DEADLOCK FALSE
