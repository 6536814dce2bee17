\* Checks one claim of the helper's name against the code.
CONSTANTS
    t1 = t1
    t2 = t2
    Tests <- MCTests
SPECIFICATION Spec
INVARIANTS
    DestroySessionEndsSession
