CONSTANTS
    Block <- MCBlock
    Genesis = "g"
    None = "none"
    Header <- MCHeader
    Proof <- MCOnes
    MTP <- MCZeros
    Target <- MCOnes
    FutureDrift = 2
    OrphanLimit = 9
    TreeInterval = 3
    SafeDepth = 2
    LaunchDate = 99
    LastCheckpoint = 3
    MaxTipAge = 8
    ChainWork = 0
    StartTime = 1
    MaxTime = 1
    Peer = {"p1", "p2"}
    Following <- MCFollowing
    MaxHeaders = 2
    MaxInbox = 1
SPECIFICATION SyncSpec
PROPERTIES SyncsHeaders HonestPeersKept
CHECK_DEADLOCK FALSE
