\* A stop before the first packet.
SPECIFICATION Spec
CONSTANTS
    Counts = {0, 2, 3}
    Rates = {0, 1}
    MaxPackets = 4
    MaxPushes = 0
    MaxReports = 0
INVARIANTS StopIsFinal
CHECK_DEADLOCK FALSE
