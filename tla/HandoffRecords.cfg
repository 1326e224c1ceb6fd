SPECIFICATION Spec
CONSTANTS
    Handoffs = {h1}
    Assignments = {a1}
    WorkItems = {w1, w2}
    Roles = {r1}
    Keys = {k1}
    Sources = {a1}
    Senders = {}
    Texts = {x1}
    BackwardClock = TRUE
    MaxNow = 2
    MaxStamp = 3
    None = None
    Absent = Absent
    NoAnswer = NoAnswer
SYMMETRY Symmetry
INVARIANTS
    TypeOK
    AnswerHolds
    WorkRefsAlive
PROPERTIES
    HandoffRevisionsAdvance
