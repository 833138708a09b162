SPECIFICATION MCSpec
CONSTANTS
    Family = "A"
    r1 = r1
    r2 = r2
    Req <- MCReq
    Question <- MCQuestion
    Tld <- MCTld
    Absent = Absent
    Empty = Empty
    Bad = Bad
    Values <- MCValues
    Icann <- MCIcann
    Blacklist = {"eth", "bit"}
    Limit = 1
    CacheTime = 2
    PoolTime = 1
SYMMETRY Symmetry
INVARIANTS
    CacheSound
    
CHECK_DEADLOCK FALSE
