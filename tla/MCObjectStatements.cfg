\* Both classes, every order of calls that makes buffers grow.
SPECIFICATION Spec
CONSTANTS
    Objects <- MCObjects
    Values <- MCValues
    Length <- MCLength
    Initial = 1
    MaxRows = 2
INVARIANTS
    TypeOK
    BindingsCurrent
PROPERTIES
    KeepsObjects
