\* A main loop that may stay away for longer than the TTL.
SPECIFICATION FairSpec
CONSTANTS
    a = a
    b = b
    p = p
    q = q
    Ids = {a, b}
    Params = {p, q}
    Never = Never
    NoKey = NoKey
    Configs <- MCConfigs
    Period = 2
    MaxTime = 8
    MaxBusy = 4
    MaxPushes = 2
    MaxFaults = 1
    MaxStarts = 2
INVARIANTS StoredIsCurrent KeepAlive DeadUnlisted
PROPERTIES PushArrives
CHECK_DEADLOCK FALSE
