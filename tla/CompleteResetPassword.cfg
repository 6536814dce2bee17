\* The flow of the page: safety and liveness under fair network answers,
\* with two onSubmit calls and two runs of the mount effect.
CONSTANTS
    Subs <- MCSubs
    Runs <- MCTwoRuns
    LeavesMidSubmit = TRUE
SPECIFICATION Spec
\* The flow may stop: the user need not submit, and a hard navigation ends
\* the page.
CHECK_DEADLOCK FALSE
INVARIANTS
    TypeOK
    ExpiredOnlyWhenTokenUnusable
    SuccessOnlyAfterReset
PROPERTIES
    SpinnerEventuallyResolves
