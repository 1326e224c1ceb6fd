SPECIFICATION Spec
CONSTANTS
    Handoffs = {h1}
    Assignments = {a1}
    WorkItems = {w1}
    Roles = {r1}
    Keys = {}
    Sources = {}
    Senders = {r1}
    Texts = {x1}
    BackwardClock = FALSE
    MaxNow = 1
    MaxStamp = 3
    None = None
    Absent = Absent
    NoAnswer = NoAnswer
SYMMETRY Symmetry
INVARIANT
    DismissalNeverBlocked
