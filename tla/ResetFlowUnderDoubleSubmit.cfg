\* The same refinement with a second click while the first call is in flight.
CONSTANTS
    Subs <- MCSubs
    Runs <- MCOneRun
    LeavesMidSubmit = FALSE
SPECIFICATION Spec
CHECK_DEADLOCK FALSE
PROPERTIES
    ImplementsResetFlow
