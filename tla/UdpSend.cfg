\* Pushes and a stop at any point of the clock.
SPECIFICATION FairSpec
CONSTANTS
    Counts = {0, 2}
    Rates = {0, 1}
    MaxPackets = 3
    MaxPushes = 2
    MaxReports = 1
INVARIANTS NeverTooMany CountExact StopBounds
PROPERTIES StopEnds
CHECK_DEADLOCK FALSE
