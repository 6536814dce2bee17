------------------------------ MODULE LoginPage ------------------------------
(***************************************************************************)
(* The sign-in and sign-up scripts of LoginPage (functional-tests/pages/   *)
(* login.ts): login(), fillOutEmailFirstSignIn() and fillOutFirstSignUp()  *)
(* with fillOutSignUpCode(), against the browser page they drive.          *)
(*                                                                         *)
(* The test (the driver) awaits one Playwright call per step.  The page    *)
(* is the environment: it renders a landing screen chosen by the browser   *)
(* storage, and each click it processes may navigate to another screen.    *)
(* Playwright semantics kept here: page.isVisible() answers at once (its   *)
(* timeout option is ignored); fill() and click() wait for their element   *)
(* and fail only when it never comes; waitForEvent('framenavigated')       *)
(* catches only navigations that happen after it was registered.           *)
(* cachedAccount is the signed-in account of the browser storage; no step  *)
(* here writes it.  Module LoginSession composes this module with the      *)
(* storage that parallel tests share (LoginStorage).                       *)
(***************************************************************************)
EXTENDS TLC

Screens == {"loading", "cached", "signin", "emailFirst", "totp",
            "recoveryCode", "signup", "signupCode", "loggedIn"}
Accounts == {"none", "self", "other"}
Pcs == {"isCachedLogin", "isSigninHeader", "setEmail", "emailSubmit",
        "setPassword", "passwordSubmit", "useRecoveryCode", "setCode",
        "codeSubmit", "cachedSubmit", "setVPassword", "setAge",
        "signupSubmit", "waitForEmail", "signupCodeSubmit", "done", "failed"}
Calls == {"login", "fillOutEmailFirstSignIn", "fillOutFirstSignUp"}
Fields == {"email", "password", "vpassword", "age", "codeInput"}
NavPhases == {"idle", "clicked", "awaitingNav"}
Clicks == {"none", "submit", "useRecoveryCode"}

\* The selectors of login.ts present on each screen.
Elements ==
    "loading" :> {} @@
    "cached" :> {"useLoggedIn", "submit"} @@
    "signin" :> {"signinHeader", "password", "submit"} @@
    "emailFirst" :> {"email", "submit"} @@
    "totp" :> {"useRecoveryCode", "submit"} @@
    "recoveryCode" :> {"codeInput", "submit"} @@
    "signup" :> {"password", "vpassword", "age", "submit"} @@
    "signupCode" :> {"codeInput", "submit"} @@
    "loggedIn" :> {}

\* The script called, its arguments and the account, fixed for one call.
Contexts == [call : Calls,
             emailKnown : BOOLEAN,          \* email in the URL, or Sync
             hasTotp : BOOLEAN,             \* the account has TOTP
             recoveryCode : BOOLEAN,        \* a recoveryCode is passed
             waitForNavOnSubmit : BOOLEAN,
             verify : BOOLEAN]              \* fillOutFirstSignUp's verify

VARIABLES
    ctx,            \* the script's arguments and the account
    cachedAccount,  \* the signed-in account in the shared browser storage
    screen,         \* what the page shows
    landingAccount, \* the account the cached-login screen offers
    filled,         \* fields filled on the current screen
    pending,        \* a click the page has not processed yet
    armed,          \* a waitForEvent('framenavigated') is registered
    navFired,       \* that listener has caught a navigation
    pc,             \* the step of login() the test is at
    nav,            \* the phase of the current submit()
    signedInAs,     \* the account the page signed in
    checkedEarly    \* a visibility check ran while the page was loading

vars == <<ctx, cachedAccount, screen, landingAccount, filled, pending, armed,
          navFired, pc, nav, signedInAs, checkedEarly>>
pageVars == <<screen, landingAccount, filled, pending, signedInAs>>

TypeOK ==
    /\ ctx \in Contexts
    /\ cachedAccount \in Accounts /\ landingAccount \in Accounts
    /\ screen \in Screens
    /\ filled \subseteq Fields
    /\ pending \in Clicks
    /\ {armed, navFired, checkedEarly} \subseteq BOOLEAN
    /\ pc \in Pcs
    /\ nav \in NavPhases
    /\ signedInAs \in Accounts

-----------------------------------------------------------------------------
(* The page, from the content server (not under src/).                     *)

\* A sign-up test signs up a fresh address; the others use an account.
AccountExists == ctx.call # "fillOutFirstSignUp"

\* The password form of a known email: sign-in, or sign-up of a new one.
PasswordForm == IF AccountExists THEN "signin" ELSE "signup"

\* The landing screen: a cached session offers "Continue"; a known email
\* asks for the password; otherwise the email-first form.
Landing ==
    IF cachedAccount # "none" THEN "cached"
    ELSE IF ctx.emailKnown THEN PasswordForm ELSE "emailFirst"

Render ==
    /\ screen = "loading"
    /\ screen' = Landing
    /\ landingAccount' = cachedAccount
    /\ UNCHANGED <<ctx, filled, pending, armed, navFired, pc,
                   nav, signedInAs, checkedEarly>>

\* The screen a processed click leads to; the same screen when the form
\* is not complete and nothing navigates.
NextScreen(scr, click) ==
    CASE scr = "cached" /\ click = "submit" -> "loggedIn"
      [] scr = "emailFirst" /\ click = "submit" /\ "email" \in filled ->
            PasswordForm
      [] scr = "signin" /\ click = "submit" /\ "password" \in filled ->
            IF ctx.hasTotp THEN "totp" ELSE "loggedIn"
      [] scr = "totp" /\ click = "useRecoveryCode" -> "recoveryCode"
      [] scr = "recoveryCode" /\ click = "submit" /\ "codeInput" \in filled ->
            "loggedIn"
      [] scr = "signup" /\ click = "submit" /\
         {"password", "vpassword", "age"} \subseteq filled -> "signupCode"
      [] scr = "signupCode" /\ click = "submit" /\ "codeInput" \in filled ->
            "loggedIn"
      [] OTHER -> scr

\* The page processes the pending click; a navigation fires
\* framenavigated, which a registered listener catches.
Navigate ==
    /\ pending # "none"
    /\ LET nxt == NextScreen(screen, pending) IN
       /\ screen' = nxt
       /\ filled' = IF nxt # screen THEN {} ELSE filled
       /\ navFired' = (navFired \/ (armed /\ nxt # screen))
       /\ signedInAs' =
            CASE nxt = "loggedIn" /\ screen = "cached" -> landingAccount
              [] nxt = "loggedIn" -> "self"
              [] OTHER -> signedInAs
    /\ pending' = "none"
    /\ UNCHANGED <<ctx, landingAccount, armed, pc, nav,
                   checkedEarly>>

-----------------------------------------------------------------------------
(* The test: the steps of login() (lines 112-142), of                      *)
(* fillOutEmailFirstSignIn() (105-110) and of fillOutFirstSignUp() with    *)
(* fillOutSignUpCode() (192-222).                                          *)

\* The first step of each script: login() checks for a cached session;
\* fillOutFirstSignUp() enters the email only when enterEmail, which its
\* callers pass as false when the page already knows the email.
StartPc ==
    CASE ctx.call = "login" -> "isCachedLogin"
      [] ctx.call = "fillOutFirstSignUp" /\ ctx.emailKnown -> "setPassword"
      [] OTHER -> "setEmail"

\* isCachedLogin and isSigninHeader: page.isVisible answers at once.
CheckVisible(from, el, ifVisible, ifNot) ==
    /\ pc = from
    /\ pc' = IF el \in Elements[screen] THEN ifVisible ELSE ifNot
    /\ checkedEarly' = (checkedEarly \/ screen = "loading")
    /\ UNCHANGED <<ctx, pageVars, armed, navFired, nav>>

isCachedLogin ==
    CheckVisible("isCachedLogin", "useLoggedIn", "cachedSubmit",
                 "isSigninHeader")

isSigninHeader ==
    CheckVisible("isSigninHeader", "signinHeader", "setPassword", "setEmail")

\* setEmail, setPassword, setCode and the fills of fillOutFirstSignUp:
\* page.fill waits for its field.
Fill(from, field, to) ==
    /\ pc = from
    /\ field \in Elements[screen]
    /\ filled' = filled \cup {field}
    /\ pc' = to
    /\ UNCHANGED <<ctx, screen, landingAccount, pending, armed,
                   navFired, nav, signedInAs, checkedEarly>>

\* clickUseRecoveryCode: page.click, without waiting for a navigation.
clickUseRecoveryCode ==
    /\ pc = "useRecoveryCode"
    /\ "useRecoveryCode" \in Elements[screen]
    /\ pending' = "useRecoveryCode"
    /\ pc' = "setCode"
    /\ UNCHANGED <<ctx, screen, landingAccount, filled, armed,
                   navFired, nav, signedInAs, checkedEarly>>

\* Mutant: the email-first branch goes on to setPassword without submit().
setEmailNoSubmit == Fill("setEmail", "email", "setPassword")

setEmail == Fill("setEmail", "email", "emailSubmit")
setPassword ==
    Fill("setPassword", "password",
         IF AccountExists THEN "passwordSubmit" ELSE "setVPassword")
setVPassword == Fill("setVPassword", "vpassword", "setAge")
setAge == Fill("setAge", "age", "signupSubmit")
setCode ==
    Fill("setCode", "codeInput",
         IF AccountExists THEN "codeSubmit" ELSE "signupCodeSubmit")

\* fillOutSignUpCode: target.email.waitForEmail polls the mailbox for the
\* code, which the server sent when it processed the sign-up form.
waitForEmail ==
    /\ pc = "waitForEmail"
    /\ pc' = "setCode"
    /\ UNCHANGED <<ctx, pageVars, armed, navFired, nav, checkedEarly>>

\* The calls of submit(waitForNav) in the scripts, and where each returns.
SubmitSite ==
    "cachedSubmit" :> [waitForNav |-> TRUE, next |-> "done"] @@
    "emailSubmit" :> [waitForNav |-> TRUE, next |-> "setPassword"] @@
    "passwordSubmit" :>
        [waitForNav |-> ctx.waitForNavOnSubmit,
         next |-> IF ctx.recoveryCode THEN "useRecoveryCode" ELSE "done"] @@
    "codeSubmit" :> [waitForNav |-> TRUE, next |-> "done"] @@
    "signupSubmit" :>
        [waitForNav |-> TRUE,
         next |-> IF ctx.verify THEN "waitForEmail" ELSE "done"] @@
    "signupCodeSubmit" :> [waitForNav |-> ctx.waitForNavOnSubmit,
                           next |-> "done"]

\* Mutant: the cached branch continues with clickSignIn(), a click on
\* SUBMIT_USER_SIGNED_IN instead of submit().
SubmitClickSignedIn ==
    /\ pc \in DOMAIN SubmitSite
    /\ nav = "idle"
    /\ "submit" \in Elements[screen]
    /\ armed' = SubmitSite[pc].waitForNav
    /\ navFired' = FALSE
    /\ pending' = IF pc = "cachedSubmit" THEN "useLoggedIn" ELSE "submit"
    /\ nav' = "clicked"
    /\ UNCHANGED <<ctx, screen, landingAccount, filled, pc,
                   signedInAs, checkedEarly>>

\* submit(): the framenavigated listener is registered before the click is
\* dispatched; the click waits for the submit button.
SubmitClick ==
    /\ pc \in DOMAIN SubmitSite
    /\ nav = "idle"
    /\ "submit" \in Elements[screen]
    /\ armed' = SubmitSite[pc].waitForNav
    /\ navFired' = FALSE
    /\ pending' = "submit"
    /\ nav' = "clicked"
    /\ UNCHANGED <<ctx, screen, landingAccount, filled, pc,
                   signedInAs, checkedEarly>>

\* Mutant: submit() does not return waitForNavigation, so it resolves with
\* the click.
SubmitClickResolvedNoWait ==
    /\ nav = "clicked"
    /\ nav' = "idle" /\ pc' = SubmitSite[pc].next
    /\ UNCHANGED <<ctx, pageVars, armed, navFired, checkedEarly>>

\* Mutant: waitForEvent('framenavigated') is called after `await click()`:
\* a navigation that came before it is missed.
SubmitClickResolvedLateListener ==
    /\ nav = "clicked"
    /\ IF SubmitSite[pc].waitForNav
       THEN /\ nav' = "awaitingNav" /\ armed' = TRUE /\ navFired' = FALSE
            /\ UNCHANGED pc
       ELSE /\ nav' = "idle" /\ pc' = SubmitSite[pc].next
            /\ UNCHANGED <<armed, navFired>>
    /\ UNCHANGED <<ctx, pageVars, checkedEarly>>

\* The awaited click resolves: submit() returns, or waits for the navigation.
SubmitClickResolved ==
    /\ nav = "clicked"
    /\ IF SubmitSite[pc].waitForNav
       THEN nav' = "awaitingNav" /\ UNCHANGED pc
       ELSE nav' = "idle" /\ pc' = SubmitSite[pc].next
    /\ UNCHANGED <<ctx, pageVars, armed, navFired, checkedEarly>>

\* The listener resolves: `return waitForNavigation`.
SubmitNavigated ==
    /\ nav = "awaitingNav"
    /\ navFired
    /\ armed' = FALSE
    /\ navFired' = FALSE
    /\ nav' = "idle"
    /\ pc' = SubmitSite[pc].next
    /\ UNCHANGED <<ctx, pageVars, checkedEarly>>

\* The element the current step waits for.
Awaited ==
    CASE pc = "setEmail" -> "email"
      [] pc = "setPassword" -> "password"
      [] pc = "setVPassword" -> "vpassword"
      [] pc = "setAge" -> "age"
      [] pc = "setCode" -> "codeInput"
      [] pc = "useRecoveryCode" -> "useRecoveryCode"
      [] pc \in DOMAIN SubmitSite /\ nav = "idle" -> "submit"
      [] OTHER -> "none"

\* Nothing more will change on the page by itself.
Quiescent == screen # "loading" /\ pending = "none"

\* Playwright's action timeout: the awaited element never comes.
ActionTimeout ==
    /\ Quiescent
    /\ Awaited # "none"
    /\ Awaited \notin Elements[screen]
    /\ pc' = "failed"
    /\ UNCHANGED <<ctx, pageVars, armed, navFired, nav,
                   checkedEarly>>

-----------------------------------------------------------------------------
\* The calls the tests make: a recovery code only for a TOTP account and
\* only to login(); fillOutEmailFirstSignIn() starts at the email-first
\* form and always waits; a sign-up account is new, so has no TOTP, and
\* without verify its waitForNavOnSubmit is not used.
CallContexts ==
    {c \in Contexts :
        /\ c.recoveryCode => c.call = "login" /\ c.hasTotp
        /\ c.verify => c.call = "fillOutFirstSignUp"
        /\ c.call = "fillOutEmailFirstSignIn" =>
               ~c.emailKnown /\ c.waitForNavOnSubmit
        /\ c.call = "fillOutFirstSignUp" =>
               ~c.hasTotp /\ (~c.verify => c.waitForNavOnSubmit)}

Init ==
    /\ ctx \in CallContexts
    /\ cachedAccount \in Accounts
    /\ screen = "loading"
    /\ landingAccount = "none"
    /\ filled = {}
    /\ pending = "none"
    /\ armed = FALSE
    /\ navFired = FALSE
    /\ pc = StartPc
    /\ nav = "idle"
    /\ signedInAs = "none"
    /\ checkedEarly = FALSE

\* A step of the page or of login(); none of them writes the storage.
Step ==
    \/ Render \/ Navigate
    \/ isCachedLogin \/ isSigninHeader
    \/ setEmail \/ setPassword \/ setCode \/ clickUseRecoveryCode
    \/ setVPassword \/ setAge \/ waitForEmail
    \/ SubmitClick \/ SubmitClickResolved \/ SubmitNavigated
    \/ ActionTimeout

\* Alone, the storage stays as it was when the page was loaded; module
\* LoginSession lets other tests write it during the call.
Next == Step /\ UNCHANGED cachedAccount

\* The test runs its steps, and the page renders and processes each click.
Fairness ==
    /\ WF_vars(Render) /\ WF_vars(Navigate)
    /\ WF_vars(isCachedLogin) /\ WF_vars(isSigninHeader)
    /\ WF_vars(setEmail) /\ WF_vars(setPassword) /\ WF_vars(setCode)
    /\ WF_vars(clickUseRecoveryCode)
    /\ WF_vars(setVPassword) /\ WF_vars(setAge) /\ WF_vars(waitForEmail)
    /\ WF_vars(SubmitClick) /\ WF_vars(SubmitClickResolved)
    /\ WF_vars(SubmitNavigated)
    /\ WF_vars(ActionTimeout)

Spec == Init /\ [][Next]_vars /\ Fairness

=============================================================================
