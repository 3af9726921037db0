SPECIFICATION Spec
CONSTANTS
    k1 = k1
    k2 = k2
    c1 = c1
    c2 = c2
    Keys = {k1, k2}
    Callers = {c1, c2}
    MaxServers = 1
    MaxStarts = 3
INVARIANTS
    NoStrayServer
PROPERTIES
    DocumentsKept
    AcquiresEnd
CHECK_DEADLOCK FALSE
