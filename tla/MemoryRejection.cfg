SPECIFICATION MemorySpec
CONSTANTS
    Candidates = {c1}
    Entries = {e1, e2}
    Contents = {x1, x2}
    Reviewers = {p1, p2}
    None = None
    Missing = Missing
    NoResolution = NoResolution
    NoAnswer = NoAnswer
SYMMETRY Symmetry
INVARIANT
    RejectedWithoutMemory
