\* Checks one claim of the code's comments against the code, with test t1
\* calling login() while t2 uses the storage helpers.
CONSTANTS
    t1 = t1
    t2 = t2
    Tests <- MCTests
    Self <- MCSelf
SPECIFICATION Spec
CHECK_DEADLOCK FALSE
INVARIANTS
    SignedInAsRequestedAccount
