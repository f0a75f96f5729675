\* Two senders over a network that loses, duplicates and reorders.
SPECIFICATION RecvSpec
CONSTANTS
    a = a
    b = b
    IDs = {a, b}
    MaxSeq = 2
    MaxDups = 1
    MaxTicks = 2
SYMMETRY Symmetry
INVARIANTS Accounting Conservation
CHECK_DEADLOCK FALSE
