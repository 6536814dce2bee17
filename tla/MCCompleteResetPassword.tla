----------------------- MODULE MCCompleteResetPassword -----------------------
(* Model-checking instance of CompleteResetPassword: two onSubmit calls,   *)
(* enough for a retry after an error and for a second click while the     *)
(* first call is in flight.                                                *)
EXTENDS CompleteResetPassword

MCSubs == {1, 2}

\* One onSubmit call: the flow without a second click.
MCOneSub == {1}

\* One run of the mount effect: its dependencies keep their identity.
MCOneRun == {1}

\* The mount effect runs a second time while the page is mounted.
MCTwoRuns == {1, 2}
=============================================================================
