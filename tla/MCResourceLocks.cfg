SPECIFICATION Spec
CONSTANTS
    c1 = c1
    c2 = c2
    c3 = c3
    c4 = c4
    ra = ra
    rb = rb
    Calls <- MCCalls
    Resources <- MCResources
INVARIANTS
    TablesAgree
    ChainAlive
PROPERTIES
    ServedInOrder
    EveryWaiterLeaves
    ImplementsAllocator
CHECK_DEADLOCK FALSE
