SPECIFICATION FairSpec
CONSTANTS
    p1 = p1
    p2 = p2
    t1 = t1
    t2 = t2
    t3 = t3
    t4 = t4
    Producers <- MCProducers
    Tasks <- MCTasks
    MayQuit = TRUE
INVARIANT NoLostWakeup
PROPERTIES MailboxSpec EveryTaskRuns QuitStops
