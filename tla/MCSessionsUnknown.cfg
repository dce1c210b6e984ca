\* What the comment on TC-35 says, against the code.
SPECIFICATION Spec
CONSTANTS
    MaxClients = 1
    MaxLines = 1
    RequestIds = {1}
    Lines <- FullAlphabet
INVARIANTS
    UnknownTypeNotImplemented
CHECK_DEADLOCK FALSE
