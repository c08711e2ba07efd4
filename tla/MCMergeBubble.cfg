\* A bubble of two nodes, one of which publishes, heals.
CONSTANTS
    n1 = n1
    n2 = n2
    p1 = p1
    p2 = p2
    d = d
    ZeroPeer = ZeroPeer
    ZeroHash = ZeroHash
    Nodes = {n1, n2, p1, d}
    Mortal = {d}
    Publishers = {n1, d, p1}
    BubbleMergers = {n1}
    OverlapMergers = {}
    Messages = {}
    FirstLinks <- PairOnChain
    MinNeighbors = 3
    MaxJoinPeers = 1
    MaxRecords = 2
    MaxRecordPeers = 3
    MaxMessageHashes = 1
    MaxLag = 0
    MaxTicks = 1
    MaxFaults = 0
SPECIFICATION FairSpec
INVARIANTS
    TargetsAreOtherNodes

    
