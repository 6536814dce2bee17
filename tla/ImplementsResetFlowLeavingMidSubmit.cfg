\* The refinement of ResetFlow when the user may follow the banner link to
\* the recovery-key page while a reset is in flight.
CONSTANTS
    Subs <- MCOneSub
    Runs <- MCOneRun
    LeavesMidSubmit = TRUE
SPECIFICATION Spec
CHECK_DEADLOCK FALSE
PROPERTIES
    ImplementsResetFlow
