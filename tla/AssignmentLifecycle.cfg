SPECIFICATION Spec
CONSTANTS
    Assignments = {a1}
    Workers = {w1, w2}
    ClaimIds = {c1, c2}
    Coordinations = {k1, k2}
    Editors = {e1}
    HostTimes = {0, 3}
    LeaseTTL = 2
    BackwardClock = TRUE
    MaxNow = 4
    MaxStamp = 4
    Absent = Absent
    NoClaim = NoClaim
    NoWorker = NoWorker
    NoRef = NoRef
    HostRef = HostRef
    NoSnapshot = NoSnapshot
SYMMETRY Symmetry
INVARIANTS
    TypeOK
    ClaimStateValid
    StampsOrdered
    PreparationOwned
    SingleStarter
    LeaseDecided
    FenceHolderNeverRefused
    NoLostEdit
PROPERTIES
    RevisionsAdvance
    FenceNeverReturns
    StartedNeverRequeued
    ImplementsFencedWork
