SPECIFICATION Spec
CONSTANTS
    Prep = 2
    InitRoom = 4
    Word = 64
    ExtraBuf = 4
    MaxRead = 8
    MaxAppend = 4
    MaxWaiting = 2
    MaxSent = 11
CHECK_DEADLOCK FALSE
INVARIANTS BeginningDelivered OnlyFullReadsHurt
PROPERTY StreamSpec
