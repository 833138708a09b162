CONSTANTS
    Block <- MCBlock
    Genesis = "g"
    None = "none"
    Header <- MCHeader
    Proof <- MCProofs
    MTP <- MCMTP
    Target <- MCTargets
    FutureDrift = 2
    OrphanLimit = 2
    TreeInterval = 3
    SafeDepth = 2
    LaunchDate = 0
    LastCheckpoint = 3
    MaxTipAge = 16
    ChainWork = 600
    StartTime = 20
    MaxTime = 21
SPECIFICATION Spec
INVARIANTS MainChain MostWork HeadersConnected OrphanIndex
PROPERTIES SafeRootSurvives ReorganizeAsCoded
