SPECIFICATION Spec
CONSTANTS
    r1 = r1
    r2 = r2
    r3 = r3
    s1 = s1
    k1 = k1
    here = here
    RootIds <- MCRootIds
    SourceIds <- MCSourceIds
    Skills <- MCSkills
    Paths <- MCPaths
    HostProjects <- MCHostProjects
    FileSets <- MCFileSets
    Inactive = Inactive
    Guide = Guide
    Plain = Plain
    Descriptions = {"edited", "declared", ""}
    Blank = ""
    FileDescription = "declared"
    SkillInputs <- MCSkillInputs
    Unset = Unset
    Callers <- MCCallers
    p1 = p1
    p2 = p2
    Edits <- MCEdits
    MaxCalls = 2
    NoRoot = NoRoot
    Absent = Absent
    Idle = Idle
SYMMETRY Symmetry
INVARIANTS
    TypeOK
    DefaultRootIsRoot
    RootIdsUnique
PROPERTIES
    LostOnlyToOverlap
    DiscoveryReconciles
CHECK_DEADLOCK FALSE
