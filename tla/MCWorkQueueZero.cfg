SPECIFICATION Spec
CONSTANTS
    big = big  small = small
    File = {big, small}
    Slow = {small}
    ThreadCounts = {0}
    Selections <- AnySelection
    FileSize <- Bytes
    FileTests <- TestCount
    LargeFile = 4
INVARIANTS AllAccounted
CHECK_DEADLOCK FALSE
