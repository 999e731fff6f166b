SPECIFICATION FairSpec
CONSTANTS
    NumClients = 2
    MaxRequests = 3
CHECK_DEADLOCK FALSE
INVARIANTS FailuresReported AllAreCounted
PROPERTY BenchReturns
