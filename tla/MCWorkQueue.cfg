SPECIFICATION FairSpec
CONSTANTS
    big = big  small = small
    File = {big, small}
    Slow = {small}
    ThreadCounts = {1, 2}
    Selections <- AnySelection
    FileSize <- Bytes
    FileTests <- TestCount
    LargeFile = 4
INVARIANTS NoTestTwice ReportComplete
PROPERTIES RunEnds
CHECK_DEADLOCK FALSE
