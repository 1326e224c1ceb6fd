SPECIFICATION Spec
CONSTANTS
    Handoffs = {h1}
    Assignments = {a1, a2}
    WorkItems = {w1}
    Roles = {r1}
    Keys = {k1, k2}
    Sources = {}
    Senders = {}
    Texts = {x1}
    BackwardClock = FALSE
    MaxNow = 1
    MaxStamp = 4
    None = None
    Absent = Absent
    NoAnswer = NoAnswer
SYMMETRY Symmetry
INVARIANTS
    OneAnswerPerKey
    OneFollowUpPerRevision
