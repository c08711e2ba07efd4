\* The life of a topic in every configuration.
CONSTANTS
    MaxHandles = 2
SPECIFICATION FairSpec
INVARIANTS
    TypeOK
    HandleKeepsAlive
    WorkersAfterJoin
    OkMeansWorkers
PROPERTIES
    StaysReleased
    LastHandleEndsAll
    CancelEndsTasks
    WorkersComeUp
    NewReturns
CHECK_DEADLOCK FALSE
