CONSTANTS
    w1 = w1
    w2 = w2
    Workers = {w1, w2}
    NumFiles = 2
    Cap = 0
    LastStratum = 1
    StratumOf <- TwoStrata
    MaxErrors = 0
    MaxEdits = 2
SPECIFICATION FairSpec
CHECK_DEADLOCK FALSE
PROPERTY
    RunsEnd
