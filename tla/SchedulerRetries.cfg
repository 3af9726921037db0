SPECIFICATION Spec
CONSTANTS
    na = na
    nb = nb
    nc = nc
    nd = nd
    git = git
    db = db
    Nodes <- MCNodes
    Resources <- MCResources
    MaxParallel = 2
    AddedAt <- MCAddedAt
    Plans <- MCPlans
INVARIANT RetriesTaken
CHECK_DEADLOCK FALSE
