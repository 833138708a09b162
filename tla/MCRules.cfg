CONSTANTS
    Base = 4
    Digits = 8
    WordBits = 2
    BnSize = 3
    Timespan = 3
    Window = 3
    Spacing = 2
    MinActual = 1
    MaxActual = 24
    Bits = 351
    Limit = 496
    TargetReset = FALSE
    NoRetargetting = FALSE
    MaxHeight = 8
    MaxGap = 4
    MaxHashes = 64
    HashesSize = 2048
    Dense = 2000
    MaxTip = 1000000000
    KeyBits = 3
    Resource = {"data"}
    MaxNames = 3
    MaxPointers = 1
    PointerLimit = 8
    MaxRecords = 3
    Usable = {"s1", "s2", "s3"}
    Useless = {"x"}
    MaxSeeds = 5
SPECIFICATION Spec
INVARIANTS RetargetSound NumbersExact LocatorFits
           ProofExact MessagesExact SeedsTaken
CHECK_DEADLOCK FALSE
