\* One connection, every kind of line, ids that collide.
SPECIFICATION Spec
CONSTANTS
    MaxClients = 1
    MaxLines = 3
    RequestIds = {1, 2}
    Lines <- FullAlphabet
INVARIANTS
    TypeOK
    ExactlyOnce
    PendingOwned
    SuccessMeansAccepted
PROPERTIES
    RunInOrder
\* the bounds on connections and lines end every behaviour
CHECK_DEADLOCK FALSE
