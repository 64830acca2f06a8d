SPECIFICATION QueueSpec
CONSTANTS
    TxId = {t1, t2}
    Priorities <- MCPriorities
    MaxQueueDepth = 5
    MaxInflight = 2
    MaxClock = 1
INVARIANT AdmissionBoundsWork
PROPERTY ServesByPriority
CHECK_DEADLOCK FALSE
