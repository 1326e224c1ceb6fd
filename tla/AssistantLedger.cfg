SPECIFICATION Spec
CONSTANTS
    t1 = t1
    c1 = c1
    c2 = c2
    s1 = s1
    s2 = s2
    Proposals = {p1}
    Targets <- MCTargets
    Bodies <- MCBodies
    Imports <- MCImports
    Servers <- MCServers
    Callers <- MCCallers
    MaxAttempts = 2
    MaxEffects = 5
    NoTarget = NoTarget
    NoResult = NoResult
    Absent = Absent
    Idle = Idle
    Free = Free
SYMMETRY Symmetry
INVARIANTS
    TypeOK
    LedgerTellsAttempts
    LedgersImportable
PROPERTIES
    RepeatApplyProtection
