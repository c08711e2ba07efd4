\* The records an overlap merge joins on.
CONSTANTS
    n1 = n1
    n2 = n2
    p1 = p1
    p2 = p2
    d = d
    ZeroPeer = ZeroPeer
    ZeroHash = ZeroHash
    Nodes = {n1, p1, d}
    Mortal = {d}
    Publishers = {p1}
    BubbleMergers = {}
    OverlapMergers = {n1}
    Messages = {x, y}
    FirstLinks <- Chain
    MinNeighbors = 2
    MaxJoinPeers = 1
    MaxRecords = 1
    MaxRecordPeers = 1
    MaxMessageHashes = 1
    MaxLag = 0
    MaxTicks = 2
    MaxFaults = 1
SPECIFICATION Spec
INVARIANTS
    OverlapJoinsOverlapping
