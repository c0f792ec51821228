SPECIFICATION FairSpec
CONSTANTS
    f0 = f0
    f1 = f1
    Files <- MCFiles
    StratumOf <- MCStratumOf
    LastStratum = 1
    MaxMessages = 3
\* The session ends when the client leaves.
CHECK_DEADLOCK FALSE
PROPERTIES
    SlowPathEnds
    ScheduledTaskSettles
    DrainsUnlessWakeupMissed
