SPECIFICATION Spec
CONSTANTS
    c1 = c1
    c2 = c2
    c3 = c3
    c4 = c4
    k1 = k1
    k2 = k2
    t1 = t1
    Calls <- MCCalls
    Keys = {k1, k2}
    Tools = {t1}
    Nobody = nobody
    KeyOf <- MCKeyOf
    ToolOf <- MCToolOf
    Required = {k1, k2}
    MaxConcurrent = 1
    MaxQueueDepth = 1
    MaxCrashes = 1
INVARIANTS
    OneExecutionAtATime
CHECK_DEADLOCK FALSE
