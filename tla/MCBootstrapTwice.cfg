\* Two publications in one minute.
CONSTANTS
    self = self
    a = a
    b = b
    junk = junk
    Self = self
    Keys <- MCKeys
    EndpointIds <- MCEndpointIds
    Records <- MCRecords
    NoCache = NoCache
    MaxMinute = 1
    MaxBacks = 0
SPECIFICATION Spec
INVARIANTS
    NeverTwiceInAMinute
CHECK_DEADLOCK FALSE
