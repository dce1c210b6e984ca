\* 155 points: the sample at 0 is rounded to just below it.
SPECIFICATION Spec
CONSTANTS
    Settings = {155}
    DefaultPoints = 155
    AtZero <- Below
    AtOne = {0}
INVARIANTS
    WithinCapacity
CHECK_DEADLOCK FALSE
