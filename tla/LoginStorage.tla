----------------------------- MODULE LoginStorage -----------------------------
(***************************************************************************)
(* The localStorage helpers of LoginPage (functional-tests/pages/login.ts, *)
(* lines 566-639), run by tests that share one browser storage state.      *)
(*                                                                         *)
(* Each test owns one account, named by the test.  The storage key         *)
(* __fxa_storage.accounts maps account ids to stored records; a record's   *)
(* email is the account's own email ("exact"), the same in upper case      *)
(* ("upper"), or missing ("absent").  Each page.evaluate runs at once in   *)
(* the page; an `await` between two of them lets other tests run.          *)
(***************************************************************************)
EXTENDS FiniteSets, TLC

CONSTANTS
    Tests       \* the tests sharing the storage state, one account each

EmailForms == {"exact", "upper", "absent"}
NoAccount == "none"

\* The email address of account t: a string, never equal to an account id.
EmailOf(t) == <<"email", t>>
DestroyPcs == {"idle", "awaitDestroy"}

VARIABLES
    accounts,       \* __fxa_storage.accounts: id -> [email]
    currentUid,     \* __fxa_storage.currentAccountUid
    live,           \* accounts whose session token the auth server accepts
    destroyPc,      \* destroyPc[t]: where destroySession of test t is
    destroying,     \* destroying[t]: the account whose token t read
    destroyed,      \* tests whose destroySession returned, with a record of
                    \* their account stored when it read, since they signed in
    denormalized    \* tests whose denormalizeStoredEmail returned on an
                    \* exact stored email, since that record was written

vars == <<accounts, currentUid, live, destroyPc, destroying,
          destroyed, denormalized>>

TypeOK ==
    /\ DOMAIN accounts \subseteq Tests
    /\ \A a \in DOMAIN accounts : accounts[a] \in [email : EmailForms]
    /\ currentUid \in Tests \cup {NoAccount}
    /\ live \subseteq Tests
    /\ destroyPc \in [Tests -> DestroyPcs]
    /\ destroying \in [Tests -> Tests \cup {NoAccount}]
    /\ destroyed \subseteq Tests /\ denormalized \subseteq Tests

\* A stored record for account a is rewritten: what was checked of the
\* old one no longer holds.
Rewritten(a) ==
    /\ destroyed' = destroyed \ {a}
    /\ denormalized' = denormalized \ {a}

-----------------------------------------------------------------------------
(* The content server (not under src/): a sign-in in the app stores the    *)
(* account with its email next to the other stored accounts.               *)
SignInViaApp(t) ==
    /\ accounts' = (t :> [email |-> "exact"]) @@ accounts
    /\ currentUid' = t
    /\ live' = live \cup {t}
    /\ Rewritten(t)
    /\ UNCHANGED <<destroyPc, destroying>>

\* clearCache: the content server's /clear route empties localStorage;
\* clearCookies and the wait change nothing modelled here.
clearCache(t) ==
    /\ accounts' = <<>>
    /\ currentUid' = NoAccount
    /\ denormalized' = {}
    /\ UNCHANGED <<live, destroyPc, destroying, destroyed>>

\* Mutant: the record is keyed by the account's email instead of its uid.
useCredentialsKeyedByEmail(t) ==
    /\ accounts' = EmailOf(t) :> [email |-> "absent"]
    /\ currentUid' = t
    /\ live' = live \cup {t}
    /\ destroyed' = destroyed \ {t}
    /\ denormalized' = {}
    /\ UNCHANGED <<destroyPc, destroying>>

\* useCredentials: the evaluate replaces the whole accounts map by one
\* record {sessionToken, uid}, without the email, for a session the test
\* created through the auth API.
useCredentials(t) ==
    /\ accounts' = t :> [email |-> "absent"]
    /\ currentUid' = t
    /\ live' = live \cup {t}
    /\ destroyed' = destroyed \ {t}
    /\ denormalized' = {}
    /\ UNCHANGED <<destroyPc, destroying>>

\* getAccountFromFromLocalStorage: Object.values(accounts).find with
\* x.email === email, for the email of account t.
FoundAccount(t) ==
    IF t \in DOMAIN accounts /\ accounts[t].email = "exact" THEN t
    ELSE NoAccount

\* destroySession, first step: the stored account is read; without a
\* sessionToken nothing is sent and the call returns.
destroySessionRead(t) ==
    /\ destroyPc[t] = "idle"
    /\ IF FoundAccount(t) # NoAccount
       THEN /\ destroyPc' = [destroyPc EXCEPT ![t] = "awaitDestroy"]
            /\ destroying' = [destroying EXCEPT ![t] = FoundAccount(t)]
            /\ UNCHANGED destroyed
       ELSE /\ destroyed' = IF t \in DOMAIN accounts THEN destroyed \cup {t}
                              ELSE destroyed
            /\ UNCHANGED <<destroyPc, destroying>>
    /\ UNCHANGED <<accounts, currentUid, live, denormalized>>

\* destroySession, second step: auth.sessionDestroy with the token read.
destroySessionAnswer(t) ==
    /\ destroyPc[t] = "awaitDestroy"
    /\ live' = live \ {destroying[t]}
    /\ destroyPc' = [destroyPc EXCEPT ![t] = "idle"]
    /\ destroying' = [destroying EXCEPT ![t] = NoAccount]
    /\ destroyed' = destroyed \cup {t}
    /\ UNCHANGED <<accounts, currentUid, denormalized>>

\* denormalizeStoredEmail(email): the evaluate's parameter, named uid,
\* receives the email and is compared with the account ids; the map is
\* written back.
denormalizeStoredEmail(t) ==
    /\ accounts' = [a \in DOMAIN accounts |->
                      IF a = EmailOf(t)
                         /\ accounts[a].email = "exact"
                      THEN [email |-> "upper"] ELSE accounts[a]]
    /\ denormalized' = IF t \in DOMAIN accounts /\ accounts[t].email = "exact"
                       THEN denormalized \cup {t} ELSE denormalized
    /\ UNCHANGED <<currentUid, live, destroyPc, destroying, destroyed>>

-----------------------------------------------------------------------------
Init ==
    /\ accounts = <<>>
    /\ currentUid = NoAccount
    /\ live = {}
    /\ destroyPc = [t \in Tests |-> "idle"]
    /\ destroying = [t \in Tests |-> NoAccount]
    /\ destroyed = {}
    /\ denormalized = {}

\* Every test may call any helper at any time: the tests run in parallel.
Next ==
    \E t \in Tests :
        \/ SignInViaApp(t)
        \/ clearCache(t)
        \/ useCredentials(t)
        \/ destroySessionRead(t)
        \/ destroySessionAnswer(t)
        \/ denormalizeStoredEmail(t)

Spec == Init /\ [][Next]_vars

-----------------------------------------------------------------------------
(***************************************************************************)
(* Properties                                                              *)
(***************************************************************************)

\* destroySession(email) ends the session whose token the storage holds
\* for that account: once it returns, the account is signed out at the
\* auth server.
DestroySessionEndsSession ==
    \A t \in destroyed : t \notin live

\* denormalizeStoredEmail(email) stores the email of that account in
\* upper case.
DenormalizeUppercasesEmail ==
    \A t \in denormalized : t \in DOMAIN accounts => accounts[t].email = "upper"
=============================================================================
