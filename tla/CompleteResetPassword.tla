------------------------- MODULE CompleteResetPassword -------------------------
(***************************************************************************)
(* The /complete_reset_password page of fxa-settings                       *)
(* (pages/ResetPassword/CompleteResetPassword/index.tsx): the mount effect *)
(* that checks the reset link and the recovery key, the submission of the *)
(* new password, and the branch on the integration type after it.          *)
(*                                                                         *)
(* Every `await` of the code ends an action: one action is the arrival of  *)
(* one network answer plus all the synchronous code that runs after it     *)
(* until the next `await`.  The auth server is the environment: it owns    *)
(* the single-use reset token and answers each request, and any answer may *)
(* be replaced by a network error.                                         *)
(***************************************************************************)
EXTENDS Naturals, FiniteSets

CONSTANTS
    Subs,   \* identities of the onSubmit calls the user may start (a bound)
    Runs,   \* identities of the runs of the mount effect (a bound)
    LeavesMidSubmit \* the user may follow the banner link while a reset
                    \* is in flight

ASSUME Subs \subseteq Nat /\ Subs # {}
ASSUME Runs \subseteq Nat /\ 1 \in Runs
ASSUME LeavesMidSubmit \in BOOLEAN

IntegrationTypes == {"SyncDesktop", "SyncBasic", "OAuth", "Web"}
SyncTypes == {"SyncDesktop", "SyncBasic"}
LinkStatuses == {"unvalidated", "valid", "expired", "damaged"}
Routes == {"complete_reset_password", "account_recovery_confirm_key",
           "reset_password_verified"}
\* Full page loads: the TOTP step, the relying party, and the reload of the
\* recovery-key page by its own form.
HardTargets == {"none", "signin_totp_code", "relier",
                "account_recovery_confirm_key"}
Banners == {"none", "recoveryKeyError", "submitError"}
EffectPcs == {"notStarted", "awaitStatus", "awaitRecoveryKey", "finished"}
SubStages == {"unsent", "awaitReset", "awaitChecks", "awaitOAuth", "settled"}
Replies == {"none", "ok", "invalidToken"}
TokenStates == {"unused", "used", "expired"}

\* What the page is given and what the account is: fixed for one page load.
Contexts == [integration : IntegrationTypes,
             lostRecoveryKey : BOOLEAN,   \* location.state?.lostRecoveryKey
             hasRecoveryKey : BOOLEAN,    \* the account has a recovery key
             hasTotp : BOOLEAN]           \* the account has TOTP enabled

VARIABLES
    ctx,                \* the page's inputs and the account (never change)
    linkStatus,         \* LinkValidator's state, written through setLinkStatus
    route,              \* the in-app route
    hardNav,            \* target of a full page load ("none" while on the app)
    showLoadingSpinner, \* useState(true)
    bannerMessage,      \* useState()
    pageViewLogged,     \* logPageViewEvent(viewName) has been sent
    effect,             \* effect[r]: where run r of the mount effect is
    sub,                \* sub[s]: progress of onSubmit call s and its reply
    token,              \* the server's state of the password-forgot token
    committed,          \* the onSubmit calls whose reset the server applied
    firefoxNotified,    \* notifyFirefoxOfLogin was called
    oauthData,          \* OAuth state is in local/session storage
    originalTab         \* the original-tab marker is in storage

vars == <<ctx, linkStatus, route, hardNav, showLoadingSpinner, bannerMessage,
          pageViewLogged, effect, sub, token, committed, firefoxNotified,
          oauthData, originalTab>>
uiVars == <<showLoadingSpinner, bannerMessage, pageViewLogged>>
storageVars == <<firefoxNotified, oauthData, originalTab>>

TypeOK ==
    /\ ctx \in Contexts
    /\ linkStatus \in LinkStatuses
    /\ route \in Routes
    /\ hardNav \in HardTargets
    /\ showLoadingSpinner \in BOOLEAN
    /\ bannerMessage \in Banners
    /\ pageViewLogged \in BOOLEAN
    /\ effect \in [Runs -> EffectPcs]
    /\ sub \in [Subs -> [stage : SubStages, reply : Replies]]
    /\ token \in TokenStates
    /\ committed \subseteq Subs
    /\ {firefoxNotified, oauthData, originalTab} \subseteq BOOLEAN

-----------------------------------------------------------------------------
(* The component is mounted while its route is shown and LinkValidator     *)
(* renders it, i.e. the link is neither expired nor damaged.  After a hard *)
(* navigation the document is unloading and nothing runs any more.         *)
OnApp == hardNav = "none"
Mounted ==
    /\ route = "complete_reset_password"
    /\ linkStatus \in {"unvalidated", "valid"}
FormShown == Mounted /\ ~showLoadingSpinner

\* setLinkStatus is LinkValidator's state setter: a no-op once its route
\* has been left.
SetLinkStatus(st) ==
    linkStatus' = IF route = "complete_reset_password" THEN st ELSE linkStatus

\* A state setter of this component is a no-op once it is unmounted.
SetBannerMessage(b) ==
    bannerMessage' = IF Mounted THEN b ELSE bannerMessage

renderCompleteResetPassword ==
    /\ showLoadingSpinner' = FALSE
    /\ pageViewLogged' = TRUE

\* Mutant: the `await` before renderCompleteResetPassword is dropped, so the
\* form renders while the recovery-key lookup is still in flight.
handleRecoveryKeyStatusNoAwait(r) ==
    IF ~ctx.lostRecoveryKey
    THEN /\ effect' = [effect EXCEPT ![r] = "awaitRecoveryKey"]
         /\ renderCompleteResetPassword
    ELSE /\ effect' = [effect EXCEPT ![r] = "finished"]
         /\ renderCompleteResetPassword

\* Mutant: renderCompleteResetPassword is called inside the `if`, only after
\* a lookup.
handleRecoveryKeyStatusRenderInIf(r) ==
    IF ~ctx.lostRecoveryKey
    THEN /\ effect' = [effect EXCEPT ![r] = "awaitRecoveryKey"]
         /\ UNCHANGED <<showLoadingSpinner, pageViewLogged>>
    ELSE /\ effect' = [effect EXCEPT ![r] = "finished"]
         /\ UNCHANGED <<showLoadingSpinner, pageViewLogged>>

handleRecoveryKeyStatus(r) ==
    IF ~ctx.lostRecoveryKey
    THEN /\ effect' = [effect EXCEPT ![r] = "awaitRecoveryKey"]
         /\ UNCHANGED <<showLoadingSpinner, pageViewLogged>>
    ELSE /\ effect' = [effect EXCEPT ![r] = "finished"]
         /\ renderCompleteResetPassword

(* checkPasswordForgotToken: the answer of account.resetPasswordStatus.    *)
(* The server says valid only for an unused token; any request may fail.   *)
checkPasswordForgotToken(r) ==
    /\ OnApp
    /\ effect[r] = "awaitStatus"
    /\ \/ /\ token = "unused"
          /\ SetLinkStatus("valid")
          /\ handleRecoveryKeyStatus(r)
       \/ /\ token # "unused"
          /\ SetLinkStatus("expired")
          /\ effect' = [effect EXCEPT ![r] = "finished"]
          /\ UNCHANGED <<showLoadingSpinner, pageViewLogged>>
       \/ /\ SetLinkStatus("damaged")      \* the status request threw
          /\ effect' = [effect EXCEPT ![r] = "finished"]
          /\ UNCHANGED <<showLoadingSpinner, pageViewLogged>>
    /\ UNCHANGED <<ctx, route, hardNav, bannerMessage, sub, token, committed,
                   storageVars>>

\* Mutant: the key holder is sent to /account_recovery_reset_password, the
\* route the header comment names for a reset started with a key.
checkForRecoveryKeyAndNavigateWrongRoute(answer) ==
    /\ route' = IF answer = "hasKey" THEN "account_recovery_reset_password"
                ELSE route
    /\ IF answer = "error" THEN SetBannerMessage("recoveryKeyError")
       ELSE UNCHANGED bannerMessage

\* The answer of account.hasRecoveryKey: "hasKey", "noKey" or "error".
checkForRecoveryKeyAndNavigate(answer) ==
    /\ route' = IF answer = "hasKey" THEN "account_recovery_confirm_key"
                ELSE route
    /\ IF answer = "error" THEN SetBannerMessage("recoveryKeyError")
       ELSE UNCHANGED bannerMessage

\* The continuation of handleRecoveryKeyStatus after the awaited lookup.
RecoveryKeyAnswer(r) ==
    /\ OnApp
    /\ effect[r] = "awaitRecoveryKey"
    /\ \E answer \in {IF ctx.hasRecoveryKey THEN "hasKey" ELSE "noKey",
                      "error"} :
          checkForRecoveryKeyAndNavigate(answer)
    /\ renderCompleteResetPassword
    /\ effect' = [effect EXCEPT ![r] = "finished"]
    /\ UNCHANGED <<ctx, linkStatus, hardNav, sub, token, committed, storageVars>>

-----------------------------------------------------------------------------
(* onSubmit.  The form passes loading={false}, so the submit button stays  *)
(* enabled while a call is in flight: the user may start another call.     *)
(* Calls start in the order of their identities.                           *)
Submit(s) ==
    /\ OnApp
    /\ FormShown
    /\ sub[s].stage = "unsent"
    /\ \A t \in Subs : t < s => sub[t].stage # "unsent"
    /\ sub' = [sub EXCEPT ![s].stage = "awaitReset"]
    /\ UNCHANGED <<ctx, linkStatus, route, hardNav, uiVars, effect, token,
                   committed, storageVars>>

\* The auth server handles account.completeResetPassword: the token is
\* single-use.  The reply travels back in CompleteResetAnswer.
ServerCompleteReset(s) ==
    /\ OnApp
    /\ sub[s].stage = "awaitReset"
    /\ sub[s].reply = "none"
    /\ IF token = "unused"
       THEN /\ token' = "used"
            /\ committed' = committed \cup {s}
            /\ sub' = [sub EXCEPT ![s].reply = "ok"]
       ELSE /\ sub' = [sub EXCEPT ![s].reply = "invalidToken"]
            /\ UNCHANGED <<token, committed>>
    /\ UNCHANGED <<ctx, linkStatus, route, hardNav, uiVars, effect, storageVars>>

\* Mutant: the errno test is dropped and every error means an expired link.
onSubmitErrorAnyExpired(s, err) ==
    /\ sub' = [sub EXCEPT ![s].stage = "settled"]
    /\ SetLinkStatus("expired")
    /\ UNCHANGED bannerMessage

\* The catch block of onSubmit, for an error of the given errno class.
onSubmitError(s, err) ==
    /\ sub' = [sub EXCEPT ![s].stage = "settled"]
    /\ IF err = "invalidToken"
       THEN SetLinkStatus("expired") /\ UNCHANGED bannerMessage
       ELSE SetBannerMessage("submitError") /\ UNCHANGED linkStatus

\* The answer to completeResetPassword reaches the page: the server's reply,
\* or a network error whether or not the server applied the reset.
CompleteResetAnswer(s) ==
    /\ OnApp
    /\ sub[s].stage = "awaitReset"
    /\ \/ /\ sub[s].reply = "ok"
          /\ sub' = [sub EXCEPT ![s].stage = "awaitChecks"]
          /\ UNCHANGED <<linkStatus, bannerMessage>>
       \/ /\ sub[s].reply = "invalidToken"
          /\ onSubmitError(s, "invalidToken")
       \/ onSubmitError(s, "other")
    /\ UNCHANGED <<ctx, route, hardNav, showLoadingSpinner, pageViewLogged,
                   effect, token, committed, storageVars>>

alertSuccessAndNavigate ==
    /\ SetBannerMessage("none")
    /\ route' = "reset_password_verified"

\* Mutant: `case SyncBasic:` gets its own `break` instead of falling through
\* to notifyFirefoxOfLogin.
IntegrationRouterSyncBasicBreaks(s, sessionIsVerified, hasTotp) ==
    CASE ctx.integration = "SyncDesktop" ->
            /\ firefoxNotified' = TRUE
            /\ alertSuccessAndNavigate
            /\ sub' = [sub EXCEPT ![s].stage = "settled"]
            /\ UNCHANGED hardNav
      [] ctx.integration = "OAuth" /\ hasTotp ->
            /\ hardNav' = "signin_totp_code"
            /\ sub' = [sub EXCEPT ![s].stage = "settled"]
            /\ UNCHANGED <<route, bannerMessage, firefoxNotified>>
      [] ctx.integration = "OAuth" /\ sessionIsVerified ->
            /\ sub' = [sub EXCEPT ![s].stage = "awaitOAuth"]
            /\ UNCHANGED <<route, hardNav, bannerMessage, firefoxNotified>>
      [] ctx.integration = "Web" /\ hasTotp ->
            /\ hardNav' = "signin_totp_code"
            /\ sub' = [sub EXCEPT ![s].stage = "settled"]
            /\ UNCHANGED <<route, bannerMessage, firefoxNotified>>
      [] OTHER ->
            /\ alertSuccessAndNavigate
            /\ sub' = [sub EXCEPT ![s].stage = "settled"]
            /\ UNCHANGED <<hardNav, firefoxNotified>>

\* The switch on integration.type after the two session checks.
IntegrationRouter(s, sessionIsVerified, hasTotp) ==
    CASE ctx.integration \in SyncTypes ->
            /\ firefoxNotified' = TRUE
            /\ alertSuccessAndNavigate
            /\ sub' = [sub EXCEPT ![s].stage = "settled"]
            /\ UNCHANGED hardNav
      [] ctx.integration = "OAuth" /\ hasTotp ->
            /\ hardNav' = "signin_totp_code"
            /\ sub' = [sub EXCEPT ![s].stage = "settled"]
            /\ UNCHANGED <<route, bannerMessage, firefoxNotified>>
      [] ctx.integration = "OAuth" /\ sessionIsVerified ->
            /\ sub' = [sub EXCEPT ![s].stage = "awaitOAuth"]
            /\ UNCHANGED <<route, hardNav, bannerMessage, firefoxNotified>>
      [] ctx.integration = "Web" /\ hasTotp ->
            /\ hardNav' = "signin_totp_code"
            /\ sub' = [sub EXCEPT ![s].stage = "settled"]
            /\ UNCHANGED <<route, bannerMessage, firefoxNotified>>
      [] OTHER ->
            /\ alertSuccessAndNavigate
            /\ sub' = [sub EXCEPT ![s].stage = "settled"]
            /\ UNCHANGED <<hardNav, firefoxNotified>>

(* Promise.all of isSessionVerifiedAuthClient and hasTotpAuthClient.  Each *)
(* returns false when its request fails, so hasTotp may be false for an    *)
(* account with TOTP.                                                      *)
SessionChecksAnswer(s) ==
    /\ OnApp
    /\ sub[s].stage = "awaitChecks"
    /\ \E sessionIsVerified \in BOOLEAN, hasTotp \in {ctx.hasTotp, FALSE} :
          IntegrationRouter(s, sessionIsVerified, hasTotp)
    /\ UNCHANGED <<ctx, linkStatus, showLoadingSpinner, pageViewLogged, effect,
                   token, committed, oauthData, originalTab>>

\* The answer of finishOAuthFlowHandler, or its failure.
FinishOAuthFlowAnswer(s) ==
    /\ OnApp
    /\ sub[s].stage = "awaitOAuth"
    /\ \/ /\ oauthData' = FALSE
          /\ sub' = [sub EXCEPT ![s].stage = "settled"]
          /\ IF originalTab
             THEN /\ originalTab' = FALSE
                  /\ hardNav' = "relier"
                  /\ UNCHANGED <<route, bannerMessage>>
             ELSE /\ alertSuccessAndNavigate
                  /\ UNCHANGED <<originalTab, hardNav>>
          /\ UNCHANGED linkStatus
       \/ /\ onSubmitError(s, "other")
          /\ UNCHANGED <<route, hardNav, oauthData, originalTab>>
    /\ UNCHANGED <<ctx, showLoadingSpinner, pageViewLogged, effect, token,
                   committed, firefoxNotified>>

(* The token stops being usable outside this page: the reset is completed *)
(* in another tab or browser, or the token expires.                        *)
TokenInvalidatedElsewhere ==
    /\ OnApp
    /\ token = "unused"
    /\ token' \in {"used", "expired"}
    /\ UNCHANGED <<ctx, linkStatus, route, hardNav, uiVars, effect, sub,
                   committed, storageVars>>

(* The effect runs again when one of its dependencies (lines 162-171)   *)
(* changes identity while the page is mounted.  There is no cleanup: the  *)
(* earlier runs go on, and the new run starts checkPasswordForgotToken    *)
(* without showing the spinner again.  Runs start in identity order.      *)
EffectRerun(r) ==
    /\ OnApp
    /\ Mounted
    /\ effect[r] = "notStarted"
    /\ \A q \in Runs : q < r => effect[q] # "notStarted"
    /\ effect' = [effect EXCEPT ![r] = "awaitStatus"]
    /\ UNCHANGED <<ctx, linkStatus, route, hardNav, uiVars, sub, token,
                   committed, storageVars>>

(* The banner set when the recovery-key lookup failed holds a Link to     *)
(* /account_recovery_confirm_key (lines 142-151), shown with the form.     *)
(* Following it is an in-app navigation; in-flight calls of onSubmit go   *)
(* on.  Under ~LeavesMidSubmit the user follows it only with no reset in   *)
(* flight.                                                                 *)
FollowRecoveryKeyLink ==
    /\ OnApp
    /\ FormShown
    /\ bannerMessage = "recoveryKeyError"
    /\ LeavesMidSubmit \/ \A s \in Subs : sub[s].stage \in {"unsent", "settled"}
    /\ route' = "account_recovery_confirm_key"
    /\ UNCHANGED <<ctx, linkStatus, hardNav, uiVars, effect, sub, token,
                   committed, storageVars>>

(* AccountRecoveryConfirmKey: isLinkExpired is never passed, so it renders *)
(* its form.  Neither button has a handler and the form no onSubmit, so    *)
(* both submit it natively: a full load of the same page, with the query   *)
(* (the link's token, code and email) replaced by the form's data.         *)
AccountRecoveryConfirmKeySubmit ==
    /\ OnApp
    /\ route = "account_recovery_confirm_key"
    /\ hardNav' = "account_recovery_confirm_key"
    /\ UNCHANGED <<ctx, linkStatus, route, uiVars, effect, sub, token,
                   committed, storageVars>>

-----------------------------------------------------------------------------
Init ==
    /\ ctx \in Contexts
    /\ linkStatus = "unvalidated"
    /\ route = "complete_reset_password"
    /\ hardNav = "none"
    /\ showLoadingSpinner = TRUE
    /\ bannerMessage = "none"
    /\ pageViewLogged = FALSE
    /\ effect = [r \in Runs |-> IF r = 1 THEN "awaitStatus" ELSE "notStarted"]
    /\ sub = [s \in Subs |-> [stage |-> "unsent", reply |-> "none"]]
    /\ token \in {"unused", "used", "expired"}
    /\ committed = {}
    /\ firefoxNotified = FALSE
    /\ oauthData = (ctx.integration = "OAuth")
    /\ originalTab \in BOOLEAN

\* The answers of the network: the server and the browser eventually answer
\* each request, with a result or an error.
Answers ==
    \/ \E r \in Runs : checkPasswordForgotToken(r) \/ RecoveryKeyAnswer(r)
    \/ \E s \in Subs :
          \/ ServerCompleteReset(s)
          \/ CompleteResetAnswer(s)
          \/ SessionChecksAnswer(s)
          \/ FinishOAuthFlowAnswer(s)

Next ==
    \/ Answers
    \/ \E s \in Subs : Submit(s)
    \/ TokenInvalidatedElsewhere
    \/ \E r \in Runs : EffectRerun(r)
    \/ FollowRecoveryKeyLink
    \/ AccountRecoveryConfirmKeySubmit

\* The user and the other tabs need never act; the network answers every
\* request it was sent (fetch settles with a response or an error).
Fairness ==
    /\ \A r \in Runs :
          WF_vars(checkPasswordForgotToken(r)) /\ WF_vars(RecoveryKeyAnswer(r))
    /\ \A s \in Subs :
          /\ WF_vars(ServerCompleteReset(s))
          /\ WF_vars(CompleteResetAnswer(s))
          /\ WF_vars(SessionChecksAnswer(s))
          /\ WF_vars(FinishOAuthFlowAnswer(s))

Spec == Init /\ [][Next]_vars /\ Fairness

-----------------------------------------------------------------------------
(* The view the user sees: a hard navigation leaves the app; an in-app     *)
(* route other than this page wins; on this page LinkValidator shows the   *)
(* expired or damaged view, else the component shows its spinner or its   *)
(* form (lines 308-368).                                                   *)
ViewOf ==
    CASE hardNav = "account_recovery_confirm_key" -> "recoveryKey"
      [] hardNav # "none" -> hardNav
      [] route = "account_recovery_confirm_key" -> "recoveryKey"
      [] route = "reset_password_verified" -> "verified"
      [] linkStatus \in {"expired", "damaged"} -> linkStatus
      [] showLoadingSpinner -> "loading"
      [] OTHER -> "form"

Abstract == INSTANCE ResetFlow WITH view <- ViewOf

-----------------------------------------------------------------------------
(***************************************************************************)
(* Properties                                                              *)
(***************************************************************************)

\* A user whose recovery key was found is sent to the recovery-key page
\* before they can submit a new password here: the redirect of
\* checkForRecoveryKeyAndNavigate never follows a submission of onSubmit.
\* (Following the banner link after a submission is another step.)
KeyHolderNeverSubmits ==
    [][(\E r \in Runs : RecoveryKeyAnswer(r))
       /\ route' = "account_recovery_confirm_key" /\ route # route'
       => \A s \in Subs : sub[s].stage = "unsent"]_vars

\* The page shows "link expired" (setLinkStatus(expired) in
\* checkPasswordForgotToken or in the INVALID_TOKEN branch of onSubmit's
\* catch) only when the server no longer accepts the token: a network
\* error never ends the flow as an expired link.
ExpiredOnlyWhenTokenUnusable ==
    linkStatus = "expired" => token # "unused"

\* The success page (alertSuccessAndNavigate) is reached only after the
\* server applied a reset sent by this page, and for a Sync integration
\* only after the browser was given the new credentials
\* (notifyFirefoxOfLogin).
SuccessOnlyAfterReset ==
    route = "reset_password_verified" =>
        /\ committed # {}
        /\ ctx.integration \in SyncTypes => firefoxNotified

\* The loading spinner of the mount effect always ends: the chain
\* checkPasswordForgotToken, handleRecoveryKeyStatus,
\* renderCompleteResetPassword reaches the form, or the link is shown as
\* expired or damaged, whatever the recovery-key lookup answers.
SpinnerEventuallyResolves ==
    <>(~showLoadingSpinner \/ linkStatus \in {"expired", "damaged"})

\* The page implements the view sequence of the spec (module ResetFlow):
\* every step of the code moves the user along an allowed edge, and the
\* spinner always gives way to another view.
ImplementsResetFlow == Abstract!Spec

\* The comment on onSubmit's catch: INVALID_TOKEN means the link expired or
\* the reset was completed in another tab or browser.  So a reset applied
\* for this page is never reported as an expired link.
ResetHereNeverReportedExpired ==
    committed # {} => linkStatus # "expired"

\* An account with TOTP is sent to the TOTP step, never straight back to
\* the relying party by the OAuth branch of onSubmit.
TotpNeverBypassed ==
    hardNav = "relier" => ~ctx.hasTotp

\* The complete-reset-password page view (renderCompleteResetPassword) is
\* logged only for a user who stays on that page, not for one redirected
\* to the recovery-key page.
PageViewOnlyForShownForm ==
    pageViewLogged => route = "complete_reset_password"

=============================================================================
