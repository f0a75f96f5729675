\* The reader and the writer of one follower both close it.
SPECIFICATION Spec
CONSTANTS
    w1 = w1
    w2 = w2
    f1 = f1
    Writers = {w1}
    Followers = {f1}
    Buffer = 1
    MaxLines = 2
INVARIANTS CloseIsSafe
CHECK_DEADLOCK FALSE
