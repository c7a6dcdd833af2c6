SPECIFICATION EntrySpec
CONSTANTS
    Null = Null
    Bad = Bad
    MaxInstances = 3
    MaxSaves = 3
INVARIANTS
    FlushIsFinal
CHECK_DEADLOCK FALSE
