\* Two nodes and three publish tasks; cap 1, so that the slot fills up.
CONSTANTS
    a = a
    b = b
    boot = boot
    tick = tick
    tickB = tickB
    Nodes <- MCNodes
    Tasks <- MCTasks
    Owner <- MCOwner
    Cached = {boot}
    Storage = {s1, s2}
    Nobody = Nobody
    MaxRecords = 1
    Retries = 1
    Word = 3
SPECIFICATION FairSpec
INVARIANTS
    TypeOK
    FreshPutIsCounted
    WaiterIsQueued
    CapExceededOnlyByMisled
PROPERTIES
    TasksEnd
    MeetsSlotContract
CHECK_DEADLOCK FALSE
