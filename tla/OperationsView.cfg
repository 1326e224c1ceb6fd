SPECIFICATION Spec
CONSTANTS
    None = None
    marker = marker
    owner = owner
    Editors <- MCEditors
    PatchOf <- MCPatchOf
    PatchedItem = "w1"
    Split <- MCSplit
    InitialRows <- MCInitialRows
    Changes <- MCChanges
    MaxChanges = 2
CHECK_DEADLOCK FALSE
INVARIANTS
    AnswersHold
PROPERTIES
    PatchKeepsTheRest
