SPECIFICATION Spec
CONSTANTS
    NumLoops = 2
    s1 = s1
    f1 = f1
    x1 = x1
    z1 = z1
    Sent = {s1, f1, z1}
    VoteOption <- MCVoteOption
    RedisCapacity = 2
    ReplicaUp = TRUE
    Faults <- AllFaults
INVARIANTS AtMostOnce PagesBehindDatabase
PROPERTY TallySpec
