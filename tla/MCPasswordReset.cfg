\* Two accounts whose resets interleave; tokens that expire.
SPECIFICATION Spec
CONSTANTS
    Users = {u1, u2}
    Lifetime = 2
    MaxTime = 2
    MaxTokens = 3
SYMMETRY UserSymmetry
INVARIANTS
    TypeOK
    OnlyNewestActive
    ReplacedBySuccessor
    ToldIsTrue
PROPERTIES
    AuditTrail
    KeepsPolicy
