SPECIFICATION FairSpec
CONSTANTS
    Heap = {1, 2, 3, 4, 5, 6, 7, 8, 9}
    BufferSize = 3
    MaxBuffers = 3
    MaxMessages = 9
CHECK_DEADLOCK FALSE
INVARIANTS SparesReady NoSharing AllAccountedFor StopKeepsItsDebt
PROPERTIES JournalSpec EveryMessageWritten
