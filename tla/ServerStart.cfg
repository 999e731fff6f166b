SPECIFICATION FairSpec
CONSTANTS
    NumLoops = 3
    MysqlConns = 3
    RedisConns = 2
    MaxClients = 1
    Faults = {"mysql", "master", "replica", "thread", "mset", "reply"}
CHECK_DEADLOCK FALSE
INVARIANTS PopFinds NeverNull KeysMissedEarly
PROPERTIES PoolSpecs StartReturns
