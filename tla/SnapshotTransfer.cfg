SPECIFICATION Spec
CONSTANTS
    None = None
    SourceRows <- MCSourceRows
    TargetRows <- MCTargetRows
    Changes <- MCChanges
    MaxChanges = 2
    MaxExports = 2
CHECK_DEADLOCK FALSE
INVARIANTS
    TypeOK
    ImportSound
    RefusalExplained
