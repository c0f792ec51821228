CONSTANTS
    w1 = w1
    w2 = w2
    Workers = {w1}
    NumFiles = 2
    Cap = 0
    LastStratum = 0
    StratumOf <- OneStratum
    MaxErrors = 1
    MaxEdits = 2
SPECIFICATION Spec
CHECK_DEADLOCK FALSE
INVARIANT EditorShowsTruthAfterCancel
