\* What the README says of the dates of a token, against the code.
SPECIFICATION ServerSpec
CONSTANTS
    MaxTokens = 2
    MaxLate = 1
    MaxFaults = 1
PROPERTIES
    AuditTrail
