CONSTANTS
    Source = {a1, a2, a3, o1, o2, o3, o4, o5, o6}
    Addr = {a1, a2, a3}
    Old = {o1, o2, o3, o4, o5, o6}
    BadKey = {a3}
    Unusable = {}
    OtherPort = {a2}
    SampleLimit = 7
    Enough = 5
    MaxOffset = 3
    Near = 2
    Sample <- SampleValues
    AddrMax = 2
    MaxRefs = 2
    Retries = 1
    MaxFailures = 2
    MaxAttempts = 2
    Minute = 0
    TenMinutes = 1
    TwentyMinutes = 1
    Hour = 1
    Day = 2
    Penalty = 1
    FiveDays = 1
    Earliest = 3
    MinFail = 1
    Horizon = 2
    BanTime = 1
    Word = 4096
    Start = 8
    MaxClock = 9
    MapKey = {"a", "b", "c", "d"}
    MapVal <- MapValues
    Hash <- HashValues
    MaxBuckets = 16
SPECIFICATION Spec
INVARIANTS HonestMajority IndexExact MapExact
 
CHECK_DEADLOCK FALSE
