\* Eight bits, and numbers of up to four digits: 255 ends in a 5 as 2^64 - 1 does.
SPECIFICATION Spec
CONSTANTS
    Max = 255
    MaxLength = 4
INVARIANTS
    Exact
\* the bound on the length ends every behaviour
CHECK_DEADLOCK FALSE
