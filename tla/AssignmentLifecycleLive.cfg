SPECIFICATION FairSpec
CONSTANTS
    Assignments = {a1}
    Workers = {w1}
    ClaimIds = {c1, c2}
    Coordinations = {k1}
    Editors = {}
    HostTimes = {0}
    LeaseTTL = 2
    BackwardClock = FALSE
    MaxNow = 5
    MaxStamp = 5
    Absent = Absent
    NoClaim = NoClaim
    NoWorker = NoWorker
    NoRef = NoRef
    HostRef = HostRef
    NoSnapshot = NoSnapshot
PROPERTY
    ReservationEnds
