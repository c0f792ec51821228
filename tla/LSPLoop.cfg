SPECIFICATION Spec
CONSTANTS
    f0 = f0
    f1 = f1
    Files <- MCFiles
    StratumOf <- MCStratumOf
    LastStratum = 1
    MaxMessages = 4
\* The session ends when the client leaves.
CHECK_DEADLOCK FALSE
INVARIANTS
    TypeOK
    SlotOwned
    PreemptsLiveSlowPath
    LastRunDefersNothing
    UndoStateMatches
    EpochsAdvance
    NoMessageLost
