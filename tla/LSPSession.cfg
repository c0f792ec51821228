SPECIFICATION Spec
CONSTANTS
    Files = {f}
    Contents = {c, empty}
    Empty = empty
    None = none
    MaxEvents = 3
\* The session ends when the client leaves.
CHECK_DEADLOCK FALSE
INVARIANTS
    TypeOK
    ServerHasTheText
    IndexerHasTheFiles
    NothingLeftBehind
PROPERTIES
    Stops
