SPECIFICATION FairSpec
CONSTANTS
    c1 = c1
    c2 = c2
    Conns = {c1, c2}
    NumLoops = 1
    WheelSize = 2
    QueueBound = 2
CHECK_DEADLOCK FALSE
INVARIANTS CallbacksSafe TimerExact DestroyAssert OnlySilentExpire
PROPERTIES ServiceSpec ResetsAreCollected
