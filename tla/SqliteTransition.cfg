SPECIFICATION Spec
CONSTANTS
    c1 = c1
    c2 = c2
    c3 = c3
    p1 = p1
    p2 = p2
    Calls <- MCCalls
    Processes <- MCProcesses
    ProcessOf <- MCProcessOf
    Requests <- MCRequests
    MayAsk <- MCMayAsk
    InitialRows <- MCInitialRows
    MaxCalls = 2
    None = None
    NoRequest = NoRequest
    Free = Free
CHECK_DEADLOCK FALSE
INVARIANTS
    TypeOK
PROPERTIES
    ImplementsContract
    ChangedHandoffsResolve
    CallsEnd
