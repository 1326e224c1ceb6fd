SPECIFICATION MemorySpec
CONSTANTS
    Candidates = {c1, c2}
    Entries = {e1, e2, e3}
    Contents = {x1, x2}
    Reviewers = {p1, p2}
    None = None
    Missing = Missing
    NoResolution = NoResolution
    NoAnswer = NoAnswer
SYMMETRY Symmetry
INVARIANTS
    MemoryTypeOK
    PromotionsAgree
    PromotionHolds
