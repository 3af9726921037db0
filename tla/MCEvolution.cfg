SPECIFICATION Spec
CONSTANTS
    e1 = e1
    e2 = e2
    Base0 = Base0
    t1 = t1
    t2 = t2
    Exps = {e1, e2}
    Base = Base0
    ParentOf <- MCParentOf
    Tasks = {t1, t2}
    Nobody = Nobody
    Policy = "required-for-production"
INVARIANTS
    ServedWasEarned
    PolicyEnforced
    StoreKeepsUp
    WorktreeDies
PROPERTIES
    RollbackTrue
CHECK_DEADLOCK FALSE
