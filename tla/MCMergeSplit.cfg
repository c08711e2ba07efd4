\* Two pairs that bootstrapped apart heal once both relay messages.
CONSTANTS
    n1 = n1
    n2 = n2
    p1 = p1
    p2 = p2
    d = d
    ZeroPeer = ZeroPeer
    ZeroHash = ZeroHash
    Nodes = {n1, n2, p1, p2}
    Mortal = {}
    Publishers = {p1}
    BubbleMergers = {}
    OverlapMergers = {n1}
    Messages = {x, y}
    FirstLinks <- Pairs
    MinNeighbors = 1
    MaxJoinPeers = 1
    MaxRecords = 1
    MaxRecordPeers = 1
    MaxMessageHashes = 1
    MaxLag = 1
    MaxTicks = 1
    MaxFaults = 1
SPECIFICATION FairSpec
INVARIANTS
    TypeOK
    OverlapHasEvidence
PROPERTIES
    SplitHeals
