---------------------------- MODULE LoginSession ----------------------------
(***************************************************************************)
(* A test calling a script of LoginPage (login(), fillOutEmailFirstSignIn, *)
(* fillOutFirstSignUp) while the other tests of the run use                *)
(* the helpers of login.ts on the browser storage they share.  The page    *)
(* of module LoginPage reads that storage (its cachedAccount is derived    *)
(* from the accounts of module LoginStorage), and a sign-in on the page    *)
(* writes it.                                                              *)
(*                                                                         *)
(* The test Self sets up with the storage helpers, loads the page and      *)
(* awaits the script; once it has returned it may call the helpers         *)
(* again.  The other tests call their helpers at any time.                 *)
(***************************************************************************)
EXTENDS TLC

CONSTANTS
    Tests,      \* the tests sharing the storage state
    Self        \* the test that calls the script

ASSUME Self \in Tests

VARIABLES
    ctx, screen, landingAccount, filled, pending, armed, navFired, pc, nav,
    signedInAs, checkedEarly,                          \* LoginPage
    accounts, currentUid, live, destroyPc, destroying, destroyed,
    denormalized,                                      \* LoginStorage
    phase       \* "setup" before the test loads the page, then "login"

loginVars == <<ctx, screen, landingAccount, filled, pending, armed, navFired,
               pc, nav, signedInAs, checkedEarly>>
storageVars == <<accounts, currentUid, live, destroyPc, destroying,
                 destroyed, denormalized>>
vars == <<loginVars, storageVars, phase>>

Storage == INSTANCE LoginStorage

\* The account the content server offers to continue with: the current
\* account of the storage, when its record is stored.
CachedAccountOf ==
    IF currentUid \in DOMAIN accounts
    THEN IF currentUid = Self THEN "self" ELSE "other"
    ELSE "none"

Page == INSTANCE LoginPage WITH cachedAccount <- CachedAccountOf

TypeOK ==
    /\ Page!TypeOK
    /\ Storage!TypeOK
    /\ phase \in {"setup", "login"}

-----------------------------------------------------------------------------
\* A helper of login.ts called by test t on the shared storage.
StorageStep(t) ==
    \/ Storage!SignInViaApp(t)
    \/ Storage!clearCache(t)
    \/ Storage!useCredentials(t)
    \/ Storage!destroySessionRead(t)
    \/ Storage!destroySessionAnswer(t)
    \/ Storage!denormalizeStoredEmail(t)

\* Self calls its helpers before it loads the page and after login() has
\* returned; the other tests call theirs at any time.
TestHelper(t) ==
    /\ t = Self => (phase = "setup" \/ pc \in {"done", "failed"})
    /\ StorageStep(t)
    /\ UNCHANGED <<loginVars, phase>>

\* Self's awaited helpers have returned; it loads the page and calls
\* the script.
StartLogin ==
    /\ phase = "setup"
    /\ destroyPc[Self] = "idle"
    /\ phase' = "login"
    /\ UNCHANGED <<loginVars, storageVars>>

\* A step of the page or of login() that leaves the storage alone.
InPage(A) ==
    /\ phase = "login"
    /\ A
    /\ UNCHANGED <<storageVars, phase>>

\* The page processes a click.  Signing in with the password, or
\* confirming a sign-up, stores Self's account as the current one;
\* continuing a cached session writes nothing.
PageNavigate ==
    /\ phase = "login"
    /\ Page!Navigate
    /\ IF Page!NextScreen(screen, pending) = "loggedIn" /\ screen # "cached"
       THEN Storage!SignInViaApp(Self)
       ELSE UNCHANGED storageVars
    /\ UNCHANGED phase

Init ==
    /\ Storage!Init
    /\ Page!Init
    /\ phase = "setup"

Next ==
    \/ StartLogin
    \/ PageNavigate
    \/ InPage(Page!Render)
    \/ InPage(Page!isCachedLogin) \/ InPage(Page!isSigninHeader)
    \/ InPage(Page!setEmail) \/ InPage(Page!setPassword)
    \/ InPage(Page!setCode) \/ InPage(Page!clickUseRecoveryCode)
    \/ InPage(Page!setVPassword) \/ InPage(Page!setAge)
    \/ InPage(Page!waitForEmail)
    \/ InPage(Page!SubmitClick) \/ InPage(Page!SubmitClickResolved)
    \/ InPage(Page!SubmitNavigated)
    \/ InPage(Page!ActionTimeout)
    \/ \E t \in Tests : TestHelper(t)

\* auth.sessionDestroy always settles, so an awaited destroySession returns.
DestroyAnswered(t) ==
    /\ Storage!destroySessionAnswer(t)
    /\ UNCHANGED <<loginVars, phase>>

\* Self's setup is a finite sequence of awaited helpers, so it goes on to
\* call login(); StartLogin is disabled while a destroySession is awaited,
\* hence strong fairness.  The page renders and processes each click;
\* the test runs its steps; sessionDestroy answers.  No test need call a
\* helper.
Fairness ==
    /\ SF_vars(StartLogin)
    /\ \A t \in Tests : WF_vars(DestroyAnswered(t))
    /\ WF_vars(PageNavigate)
    /\ WF_vars(InPage(Page!Render))
    /\ WF_vars(InPage(Page!isCachedLogin)) /\ WF_vars(InPage(Page!isSigninHeader))
    /\ WF_vars(InPage(Page!setEmail)) /\ WF_vars(InPage(Page!setPassword))
    /\ WF_vars(InPage(Page!setCode)) /\ WF_vars(InPage(Page!clickUseRecoveryCode))
    /\ WF_vars(InPage(Page!setVPassword)) /\ WF_vars(InPage(Page!setAge))
    /\ WF_vars(InPage(Page!waitForEmail))
    /\ WF_vars(InPage(Page!SubmitClick)) /\ WF_vars(InPage(Page!SubmitClickResolved))
    /\ WF_vars(InPage(Page!SubmitNavigated))
    /\ WF_vars(InPage(Page!ActionTimeout))

Spec == Init /\ [][Next]_vars /\ Fairness

-----------------------------------------------------------------------------
(***************************************************************************)
(* Properties                                                              *)
(***************************************************************************)

\* Why a script fails on a missing element.  login() fails only when it
\* chose its branch (isCachedLogin, isSigninHeader) while the page was
\* still loading: on a rendered page its three branches cover every
\* landing screen, whatever the other tests wrote to the storage.  The
\* sign-in and sign-up scripts, which have no such branch, fail only when
\* another test's session made the page land on the cached-login screen.
FailsOnlyAfterEarlyCheck ==
    pc = "failed" =>
        IF ctx.call = "login" THEN checkedEarly ELSE landingAccount # "none"

\* When a script returns, the page has signed in or shows the TOTP step
\* (fillOutFirstSignUp without verify: the confirmation-code form), unless
\* the caller passed waitForNavOnSubmit = false: every awaited submit()
\* returns only after its click navigated.
ReturnsSignedIn ==
    pc = "done" =>
        \/ IF ctx.call = "fillOutFirstSignUp" /\ ~ctx.verify
           THEN screen = "signupCode"
           ELSE screen \in {"loggedIn", "totp"}
        \/ ~ctx.waitForNavOnSubmit /\ ~ctx.recoveryCode

\* The script always ends, returning or failing, while other tests keep
\* writing the storage: every submit() that waits for a navigation gets
\* it, because the framenavigated listener is registered before the click
\* is dispatched.
LoginEnds ==
    <>(phase = "login" /\ pc \in {"done", "failed"})

\* The comment of login()'s cached branch: the user is already signed in
\* and only continues.  So a script called with an email never signs in
\* another test's account.
SignedInAsRequestedAccount ==
    signedInAs \in {"none", "self"}

\* The comment at the top of login(): the page may show the email-first,
\* the password or the cached-login screen, and login() handles each.  So
\* login() never fails for want of an element.  (The sign-in and sign-up
\* scripts make no such claim.)
LoginNeverTimesOut ==
    ctx.call = "login" => pc # "failed"
=============================================================================
