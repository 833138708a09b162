CONSTANTS
    Usable = {"s1", "s2", "s3"}
    Useless = {"x"}
SPECIFICATION SeedsSpec
INVARIANT AllSeedsAdded
