SPECIFICATION FairSpec
CONSTANTS
    ReplySize = 3
    SendSpace = 2
    MaxOutput = 4
CHECK_DEADLOCK FALSE
INVARIANTS InterestInSync WokenForWork
PROPERTY RepliesWritten
