\* Up to 43 points: samples on 0 and on 1, beside them, and no sample between
\* them; x at 0 rounded to 0 or above.
SPECIFICATION Spec
CONSTANTS
    Settings <- SmallSettings
    DefaultPoints = 10
    AtZero = {0, 1}
    AtOne <- AnySide
INVARIANTS
    TypeOK
    WithinCapacity
    NoBlueWall
    LeftToRight
\* the loop ends
CHECK_DEADLOCK FALSE
