\* Checks one claim of the code's comments or the spec against the code.
CONSTANTS
    Subs <- MCSubs
    Runs <- MCOneRun
    LeavesMidSubmit = TRUE
SPECIFICATION Spec
CHECK_DEADLOCK FALSE
INVARIANTS
    ResetHereNeverReportedExpired
