\* A put after a failed lookup.
CONSTANTS
    a = a
    b = b
    boot = boot
    tick = tick
    tickB = tickB
    Nodes <- MCNodes
    Tasks <- MCTasks
    Owner <- MCOwner
    Cached = {boot}
    Storage = {s1, s2}
    Nobody = Nobody
    MaxRecords = 1
    Retries = 1
    Word = 3
SPECIFICATION Spec
INVARIANTS
    PutIsCounted
CHECK_DEADLOCK FALSE
