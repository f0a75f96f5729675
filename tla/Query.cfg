\* Four requests, which may all overlap.
SPECIFICATION FairSpec
CONSTANTS
    Stats <- MCStats
    NoStat = 0
    MaxQueries = 4
INVARIANT NoneLost
PROPERTIES EveryReported
CHECK_DEADLOCK FALSE
