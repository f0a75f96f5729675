\* Four requests with three sequence numbers.
SPECIFICATION FairSpec
CONSTANTS
    Stats <- MCStats
    NoStat = 0
    Seqs = 3
    MaxSends = 4
INVARIANTS Genuine
PROPERTIES OverlooksOnlyDuplicates ReportedOnce StopEnds PushAnswered IsFifo
CHECK_DEADLOCK FALSE
