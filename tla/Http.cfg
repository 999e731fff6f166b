SPECIFICATION Spec
CONSTANTS
    Options = {o1, o2}
    Wild = Wild
    MaxHeaders = 2
    Reads <- MCReads
CHECK_DEADLOCK FALSE
INVARIANTS ReplyAgrees WholeVoteCounted
PROPERTY BallotSpec
