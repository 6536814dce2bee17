\* Checks the redirect of a key holder when the mount effect runs again.
CONSTANTS
    Subs <- MCOneSub
    Runs <- MCTwoRuns
    LeavesMidSubmit = TRUE
SPECIFICATION Spec
CHECK_DEADLOCK FALSE
PROPERTIES
    KeyHolderNeverSubmits
