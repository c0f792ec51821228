SPECIFICATION FairSpec
CONSTANTS
    f0 = f0
    f1 = f1
    Files <- MCFiles
    StratumOf <- MCStratumOf
    LastStratum = 1
    MaxMessages = 3
CHECK_DEADLOCK FALSE
PROPERTY Drains
