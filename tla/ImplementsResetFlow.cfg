\* The page refines the view sequence of the spec (module ResetFlow), and a
\* key holder is redirected before any submission, with one onSubmit call
\* and one effect run, for a user who follows the banner link only when no
\* reset is in flight.
CONSTANTS
    Subs <- MCOneSub
    Runs <- MCOneRun
    LeavesMidSubmit = FALSE
SPECIFICATION Spec
CHECK_DEADLOCK FALSE
PROPERTIES
    KeyHolderNeverSubmits
    ImplementsResetFlow
