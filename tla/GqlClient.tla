------------------------------- MODULE GqlClient -------------------------------
(***************************************************************************)
(* The GraphQL client of fxa-settings (src/lib/gql.ts): errorHandler, the  *)
(* onError link that sends the user to sign in again, and the memoised     *)
(* createApolloClient.                                                     *)
(*                                                                         *)
(* A pathname is abstracted to the snippets it contains, since the code    *)
(* only tests pathname.includes(...).  A GraphQL error is its message; a   *)
(* network error is its statusCode ("status401", ...), "noStatus" for one without a          *)
(* statusCode field (a failed fetch), or "none".                           *)
(***************************************************************************)
EXTENDS Naturals, Sequences, SequencesExt

CONSTANTS
    MaxErrors,   \* the longest list of GraphQL errors enumerated
    ServerUris   \* the URIs createApolloClient may be called with

ASSUME MaxErrors \in Nat

Messages == {"Invalid token", "Must verify", "Other"}
NetworkErrors == {"none", "noStatus", "status401", "status500"}
Snippets == {"settings", "confirm_signup_code"}
Paths == SUBSET Snippets
Replaces == {"none", "/signin_token_code", "/signin"}
NoClient == "noClient"

\* pagesRequiringAuthentication
pagesRequiringAuthentication == {"settings"}

\* Mutant: `return` after setting reauth, so errors after an "Invalid token"
\* are not looked at.
RECURSIVE ScanErrorsStopOnInvalid(_, _, _)
ScanErrorsStopOnInvalid(errs, reauth, path) ==
    IF errs = <<>> THEN [mustVerify |-> FALSE, reauth |-> reauth]
    ELSE CASE Head(errs) = "Invalid token" ->
                [mustVerify |-> FALSE, reauth |-> TRUE]
           [] Head(errs) = "Must verify" /\ "confirm_signup_code" \notin path ->
                [mustVerify |-> TRUE, reauth |-> reauth]
           [] OTHER ->
                ScanErrorsStopOnInvalid(Tail(errs), reauth, path)

\* The loop over graphQLErrors: it sets reauth on "Invalid token" and
\* returns from the handler on "Must verify" off confirm_signup_code.
RECURSIVE ScanErrors(_, _, _)
ScanErrors(errs, reauth, path) ==
    IF errs = <<>> THEN [mustVerify |-> FALSE, reauth |-> reauth]
    ELSE CASE Head(errs) = "Invalid token" ->
                ScanErrors(Tail(errs), TRUE, path)
           [] Head(errs) = "Must verify" /\ "confirm_signup_code" \notin path ->
                [mustVerify |-> TRUE, reauth |-> reauth]
           [] OTHER ->
                ScanErrors(Tail(errs), reauth, path)

\* Mutant: on reauth the page is reloaded (location.replace(pathname))
\* instead of being sent to /signin.
errorHandlerReloads(errs, net, path) ==
    LET scan == ScanErrors(errs, FALSE, path)
        reauth == scan.reauth \/ net = "status401"
    IN  IF scan.mustVerify
        THEN [replace |-> "/signin_token_code", logged |-> FALSE]
        ELSE IF reauth /\ pagesRequiringAuthentication \cap path # {}
        THEN [replace |-> "pathname", logged |-> FALSE]
        ELSE [replace |-> "none", logged |-> ~reauth]

\* errorHandler: the location.replace it performs and whether it logs.
errorHandler(errs, net, path) ==
    LET scan == ScanErrors(errs, FALSE, path)
        reauth == scan.reauth \/ net = "status401"
        currentPageRequiresAuthentication ==
            pagesRequiringAuthentication \cap path # {}
    IN  IF scan.mustVerify
        THEN [replace |-> "/signin_token_code", logged |-> FALSE]
        ELSE IF reauth /\ currentPageRequiresAuthentication
        THEN [replace |-> "/signin", logged |-> FALSE]
        ELSE [replace |-> "none", logged |-> ~reauth]

(* What the handler is for, stated without the loop: a session that must  *)
(* be verified goes to the token-code page (except on confirm_signup_code, *)
(* which handles it itself); an invalid session on a page that needs one   *)
(* goes to sign-in; other errors are logged.                               *)
ExpectedOutcome(errs, net, path) ==
    LET mustVerify == Contains(errs, "Must verify")
                      /\ "confirm_signup_code" \notin path
        invalid == Contains(errs, "Invalid token") \/ net = "status401"
    IN  IF mustVerify
        THEN [replace |-> "/signin_token_code", logged |-> FALSE]
        ELSE IF invalid /\ "settings" \in path
        THEN [replace |-> "/signin", logged |-> FALSE]
        ELSE [replace |-> "none", logged |-> ~invalid]

VARIABLES
    response,   \* the failed operation's errors, network error and page
    handled,    \* errorHandler has run on it
    outcome,    \* what errorHandler did
    client      \* apolloClientInstance: the URI it was built for

vars == <<response, handled, outcome, client>>

Responses == [errs : SeqOf(Messages, MaxErrors), net : NetworkErrors,
              path : Paths]

TypeOK ==
    /\ response \in Responses
    /\ handled \in BOOLEAN
    /\ outcome \in [replace : Replaces, logged : BOOLEAN]
    /\ client \in {NoClient} \cup ServerUris

Init ==
    /\ response \in Responses
    /\ handled = FALSE
    /\ outcome = [replace |-> "none", logged |-> FALSE]
    /\ client = NoClient

\* The onError link runs errorHandler on a failed operation.
HandleError ==
    /\ ~handled
    /\ handled' = TRUE
    /\ outcome' = errorHandler(response.errs, response.net, response.path)
    /\ UNCHANGED <<response, client>>

\* createApolloClient(uri): the first call builds the client; later calls
\* return it, whatever uri they pass.
createApolloClient(uri) ==
    /\ client' = IF client = NoClient THEN uri ELSE client
    /\ UNCHANGED <<response, handled, outcome>>

Next ==
    \/ HandleError
    \/ \E uri \in ServerUris : client # uri /\ createApolloClient(uri)

Spec == Init /\ [][Next]_vars

-----------------------------------------------------------------------------
\* errorHandler does what its comments say for every list of errors, in
\* whatever order they come: the early return on "Must verify" and the
\* reauth flag of the loop never make the outcome depend on the order.
ErrorHandlerMatchesExpected ==
    handled =>
        outcome = ExpectedOutcome(response.errs, response.net, response.path)
=============================================================================
