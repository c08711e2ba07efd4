\* The bootstrap task under all four configurations of its startup options.
CONSTANTS
    self = self
    a = a
    b = b
    junk = junk
    Self = self
    Keys <- MCKeys
    EndpointIds <- MCEndpointIds
    Records <- MCRecords
    NoCache = NoCache
    MaxMinute = 2
    MaxBacks = 2
SPECIFICATION FairSpec
INVARIANTS
    TypeOK
    PublishOncePerMinute
    OlderWindowOnlyFirst
    CachedForSameMinute
    AtMostOneIntrusion
    NeverJoinsSelf
PROPERTIES
    MeetsContract
    JoinedStops
    KeepsPublishing
CHECK_DEADLOCK FALSE
