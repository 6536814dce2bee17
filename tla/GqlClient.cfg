\* errorHandler against the behaviour its comments describe.
CONSTANTS
    MaxErrors = 3
    u1 = u1
    u2 = u2
    ServerUris <- MCServerUris
SPECIFICATION Spec
\* Each response is handled once; the client is built once.
CHECK_DEADLOCK FALSE
INVARIANTS
    TypeOK
    ErrorHandlerMatchesExpected
