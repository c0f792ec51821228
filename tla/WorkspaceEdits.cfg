CONSTANTS
    a = a
    b = b
    c = c
    None = None
    Files <- MCFiles
    Versions <- MCVersions
    Hierarchy <- MCHierarchy
    Invalid <- MCInvalid
    Symbols <- MCSymbols
    Uses <- MCUses
    InitialTables <- MCTables
    Edits <- MCEdits
    MaxFiles = 2
    MaxMessages = 4
SPECIFICATION Spec
CHECK_DEADLOCK FALSE
INVARIANTS
    TypeOK
    TypecheckerHasTheFiles
    SlowPathCanBeUndone
    FastPathIsEnough
    EpochIsPending
