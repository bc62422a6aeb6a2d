CONSTANT
    MaxRecords = 3
SPECIFICATION LiveFairSpec
INVARIANTS EndIsNoError
CHECK_DEADLOCK FALSE
