\* The commands the README gives for a first test.
SPECIFICATION Spec
CONSTANTS
    Words = {"register", "calculate", "docker_user", "secret123", "Docker", "User",
             "docker_user@example.com"}
    Numbers = {"0", "1", "2", "3"}
    Inputs <- ReadmeInputs
    MaxInputs = 2
INVARIANTS
    ExampleAccepted
CHECK_DEADLOCK FALSE
