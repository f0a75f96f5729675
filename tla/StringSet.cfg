\* Slices of up to three strings out of four.
SPECIFICATION Spec
CONSTANTS
    Values <- MCValues
    MaxLen = 3
INVARIANTS NoIsRight YesUpToLast
CHECK_DEADLOCK FALSE
