\* A script of test t1 while t2 uses the storage helpers: safety of the
\* branch choice and of the return, and termination under fair page
\* and driver steps.
CONSTANTS
    t1 = t1
    t2 = t2
    Tests <- MCTests
    Self <- MCSelf
SPECIFICATION Spec
\* The run stops: login() returns and the tests may stop calling helpers.
CHECK_DEADLOCK FALSE
INVARIANTS
    TypeOK
    FailsOnlyAfterEarlyCheck
    ReturnsSignedIn
PROPERTIES
    LoginEnds
