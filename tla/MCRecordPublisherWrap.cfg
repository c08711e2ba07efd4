\* The largest number of retries a usize can hold.
CONSTANTS
    a = a
    b = b
    boot = boot
    tick = tick
    tickB = tickB
    Nodes <- MCNodes
    Tasks <- MCTasks
    Owner <- MCOwner
    Cached = {boot}
    Storage = {s1, s2}
    Nobody = Nobody
    MaxRecords = 1
    Retries = 1
    Word = 2
SPECIFICATION Spec
INVARIANTS
    OkMeansAcked
CHECK_DEADLOCK FALSE
