\* Two lines of any kind, cut into chunks in every way.
SPECIFICATION Spec
CONSTANTS
    Words = {"a"}
    Numbers = {"0", "1", "2"}
    Inputs <- AllInputs
    MaxInputs = 2
INVARIANTS
    TypeOK
    NothingHeldBack
PROPERTIES
    KeepsFifo
\* the bound on lines ends every behaviour
CHECK_DEADLOCK FALSE
