\* Two connections: completions that outlive their session, ids in both.  Only
\* the event loop is fair.
SPECIFICATION FairSpec
CONSTANTS
    MaxClients = 2
    MaxLines = 2
    RequestIds = {1}
    Lines <- CoreAlphabet
INVARIANTS
    AuthenticatedIffAccepted
PROPERTIES
    KeepsPromise
    EventuallySettled
\* the bounds on connections and lines end every behaviour
CHECK_DEADLOCK FALSE
