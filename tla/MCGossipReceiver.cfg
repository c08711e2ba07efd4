\* Two handles, more events than a channel or the hash window holds.
CONSTANTS
    orig = orig
    dup = dup
    p = p
    m1 = m1
    m2 = m2
    Handles <- MCHandles
    First = orig
    Peers = {p}
    Messages = {m1, m2}
    ChannelCap = 1
    MaxMessageHashes = 2
    MaxEvents = 3
SPECIFICATION FairSpec
INVARIANTS
    TypeOK
    NoLostWakeup
    HashWindow
PROPERTIES
    MeetsContract
    JoinedOkIsEarned
    NobodyHangs
CHECK_DEADLOCK FALSE
