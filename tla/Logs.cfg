\* Fair goroutines, two callers and a follower whose peer need not read.
SPECIFICATION FairSpec
CONSTANTS
    w1 = w1
    w2 = w2
    f1 = f1
    Writers = {w1, w2}
    Followers = {f1}
    Buffer = 1
    MaxLines = 6
INVARIANTS DropsExact NoSendOnClosed
PROPERTIES WriteReturns FollowerEnds
CHECK_DEADLOCK FALSE
