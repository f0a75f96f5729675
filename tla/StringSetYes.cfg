\* Slices of up to three strings out of four.
SPECIFICATION Spec
CONSTANTS
    Values <- MCValues
    MaxLen = 3
INVARIANTS YesIsRight
CHECK_DEADLOCK FALSE
