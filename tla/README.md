# TLA+ models of the fxa password-reset flow and its functional-test helpers

This directory holds TLA+ models of the parts of this repository that
have state and concurrency worth model checking. Each model is checked
with TLC. The repository is mostly UI components, test page objects and
fixtures. The piece with the most asynchronous control flow is the
`/complete_reset_password` page, modelled in full. The functional-test
page object `LoginPage` and the `MetricsObserver` request listener are
modelled too: parallel tests, a browser page and shared storage make them
concurrent as well.

## 1. Inventory

| Component | Source | State | Operations | Status |
|---|---|---|---|---|
| CompleteResetPassword page | `fxa-settings/src/pages/ResetPassword/CompleteResetPassword/index.tsx` | `showLoadingSpinner`, `bannerMessage`; the async chain of the mount effect; each in-flight `onSubmit` | mount effect (`checkPasswordForgotToken` → `handleRecoveryKeyStatus` → `checkForRecoveryKeyAndNavigate` → `renderCompleteResetPassword`), `onSubmit` (complete reset, `Promise.all` of the session/TOTP checks, the switch on `integration.type`, `finishOAuthFlowHandler`, the catch), `alertSuccessAndNavigate` | modelled |
| LinkValidator (parent) and the auth server | not under `src/` (spec §4.1, §6) | `linkStatus`; the single-use reset token | `setLinkStatus`; the server answers `resetPasswordStatus`, `hasRecoveryKey`, `completeResetPassword` | partly modelled, from the spec, as the environment |
| Browser storage | `storage-utils` (not under `src/`) | OAuth state, original-tab marker | `clearOAuthData`, `isOriginalTab`, `clearOriginalTab` | modelled as two booleans |
| GraphQL client | `fxa-settings/src/lib/gql.ts` | module-level `apolloClientInstance` | `errorHandler`, `createApolloClient` | modelled (`GqlClient`) |
| LoginPage page object | `functional-tests/pages/login.ts` | the browser page, its localStorage | `login`, `fillOutEmailFirstSignIn`, `fillOutFirstSignUp`, `fillOutSignUpCode`, the storage helpers | partly modelled (`LoginPage`, `LoginStorage`, composed in `LoginSession`): the getters and the one-call helpers are left out |
| MetricsObserver | `functional-tests/lib/metrics.ts` | `rawEvents`, the registered listeners | `startTracking`, the `request` handler | modelled (`MetricsObserver`) |
| generalizedReactApp grouping rule | `fxa-content-server/.../generalized-react-app.js` | none | `choose` | not modelled: its base class is not under `src/` |
| AccountRecoveryConfirmKey page | `pages/AccountRecoveryConfirmKey/index.tsx` | none of its own | the native submission of its form | modelled, in `CompleteResetPassword` |
| Presentational components | `components/App/*` | none | render only | not modelled |
| AccountEventsManager | only its test is under `src/` | none | none | not modelled |
| Tests, mocks, stories, stripe index | various | none | none | not modelled |

### How the parts interact

`LinkValidator` renders `CompleteResetPassword` and passes it
`setLinkStatus`. When the status becomes `expired` or `damaged`, the
parent renders another view and the page unmounts. The page calls the
auth server through `account`:

1. `resetPasswordStatus` checks the token.
2. `hasRecoveryKey` looks up a recovery key.
3. `completeResetPassword` applies the reset.
4. `isSessionVerifiedAuthClient` and `hasTotpAuthClient` run after the reset.
5. `finishOAuthFlowHandler` is called for OAuth.

The page leaves in one of two ways:

- In-app navigation (`navigate`, `navigateWithoutRerender`) to `/account_recovery_confirm_key` or `/reset_password_verified`.
- A hard navigation (a full page load) to the TOTP step or to the relying party.

### What is hard

All of this runs on one JavaScript thread, but every `await` is a point
where other events can come first:

- **Double submission.** The form gets `loading={false}`, so a second
  click can start a second `onSubmit` while the first is in flight.
- **Lost responses.** The server may apply a reset and the response may
  still be lost.
- **Partial failure.** After the reset succeeded, the session and TOTP
  checks turn a failure into `false`, and `finishOAuthFlowHandler` can fail.
- **Continuations after navigation.** Code that runs after `navigate()` can
  still log the page view and call `setLinkStatus`. State setters of an
  unmounted component do nothing.
- **Stale token check.** The token was checked at page load. Another tab
  can use it, or it can expire, before the user submits.
- **Ordering.** The spinner must stay up until the recovery-key lookup has
  answered.

### Properties that make the page correct

- A user whose recovery key is found is redirected before they can
  submit (spec §4.2).
- The expired view appears only when the server really refuses the token.
  A network error never produces it.
- The success page appears only after a reset the server applied. For Sync,
  the browser must also have been given the new credentials.
- The spinner always ends (spec §4.2, "the user is never blocked").
- The catch's comment says INVALID_TOKEN comes from expiry or another
  tab. So a reset this page applied should never be shown as expired.
- A TOTP account always goes through the TOTP step (spec §4.4).

## 2. Plan

1. **`CompleteResetPassword`** (done): the page and its environment. Runs:
   `crp_flow` plus three violation runs.
2. **`ResetFlow`** (done): the abstract view sequence of spec §2, §4 and
   §7. `CompleteResetPassword` maps onto it through `ViewOf` with
   `INSTANCE ResetFlow WITH view <- ViewOf`. The page refines it when
   there is one submission. With a second click in flight, the refinement
   is violated. That is a finding.
3. **Effect re-run** (done): `EffectRerun` re-runs the mount effect, bounded
   by the constant `Runs`. This is the hazard at index.tsx:162.
4. **`GqlClient`** (done): `errorHandler` and `createApolloClient`.
5. **`LoginPage`** (done): `login()` and the sign-in and sign-up scripts
   as a state machine over the page they drive, and `LoginStorage`, the
   localStorage helpers under parallel tests.
6. **`MetricsObserver`** (done): the request listener as a `RECURSIVE`
   operator, checked against a reference.
7. **`LoginSession`** (done): `LoginPage` composed with `LoginStorage`.
   The page reads the storage that the other tests write.
8. **`AccountRecoveryConfirmKey`** (done): the native submission of its
   form, and the banner link that leads to it from the reset page.
9. **Next:** the key page's real submit, once its button handlers (TODOs
   today) are written.

## 3. Modules and runs

### `CompleteResetPassword.tla`, with `MCCompleteResetPassword.tla`

Each action is the arrival of one network answer plus all the synchronous
code that runs after it, up to the next `await`. Microtasks do not
interleave with other events, so each continuation is atomic.

**State.** The variables hold the following:

- `ctx`: the integration type, `location.state.lostRecoveryKey`, and whether the account has a recovery key and TOTP. It is fixed for the page load, and `Init` enumerates every combination.
- `linkStatus`: LinkValidator's status.
- `route` and `hardNav`: where the page is.
- `showLoadingSpinner`, `bannerMessage` and `pageViewLogged`: what the page shows and has logged.
- `effect`: the program counter of the mount effect.
- `sub`: the progress of each `onSubmit` call and the server's reply to it.
- `token` and `committed`: the server's token state and the calls whose reset it applied.
- `firefoxNotified`, `oauthData` and `originalTab`: the browser side effects.

**Actions.** Each action corresponds to code in `index.tsx`:

| Action | Code |
|---|---|
| `checkPasswordForgotToken` | lines 102-116 |
| `RecoveryKeyAnswer` (with `checkForRecoveryKeyAndNavigate` and `renderCompleteResetPassword`) | lines 117-160 |
| `Submit` | the form's `onSubmit`, lines 344-363 |
| `CompleteResetAnswer` (with `onSubmitError`) | lines 181-203 and 282-295 |
| `SessionChecksAnswer` (with `IntegrationRouter`) | lines 204-281 |
| `FinishOAuthFlowAnswer` | lines 242-263 |
| `FollowRecoveryKeyLink` | the user follows the `Link` in the banner of a failed lookup, lines 142-151 |
| `AccountRecoveryConfirmKeySubmit` | `AccountRecoveryConfirmKey/index.tsx`, lines 18-79: either button submits the form natively |
| `ServerCompleteReset`, `TokenInvalidatedElsewhere` | the server (from the spec) |

**The recovery-key page.** `AccountRecoveryConfirmKey` is reached by the
redirect or by the banner link. Its form has no `onSubmit`, and neither
button has a handler (both are TODOs). Either click is a native form
submission: a full load of the same page, with the query (the link's
token, code and email) replaced by the form's data. The model records it
as the hard navigation `account_recovery_confirm_key`. Nothing on that
page leads back to `/complete_reset_password` with `lostRecoveryKey`,
although the comment at lines 95-99 describes such a link.

**The user leaving mid-submit.** The constant `LeavesMidSubmit` says
whether the user may follow the banner link while an `onSubmit` call is
in flight. The continuation of that call is not dropped when the page
unmounts. It still calls `alertSuccessAndNavigate`, or makes the TOTP or
relier hard navigation.

**Effect re-run.** The effect's dependency list (lines 162-171) includes
`account`, `navigate` and `location.search`. If one of them changes
identity while the page is mounted, the effect runs again, and it has no
cleanup. `effect` is a function from the runs `Runs` to their program
counters. `EffectRerun(r)` starts run `r` while the page is mounted, and
each run's answers are actions of their own. The new run does not show
the spinner again.

**Bounds.** `Subs = {1, 2}` allows two `onSubmit` calls. That is enough
for a retry after an error banner and for a second click while the first
call is in flight. `Runs = {1, 2}` allows one re-run of the effect, which
is enough for a second check chain to race the first. Every other input is a small finite set, enumerated in
`Init`. `LeavesMidSubmit` is `TRUE` in every run except `crp_refines_flow`.

**Fairness.** There is weak fairness on every network answer. `fetch`
always settles, with a response or an error. There is no fairness on the
user (they may never submit) or on other tabs.

**Deadlock.** `CHECK_DEADLOCK FALSE`. The flow really stops: after a hard
navigation, or once the user stops submitting.

| Run | cfg | Expect | What it shows |
|---|---|---|---|
| `crp_flow` | `CompleteResetPassword.cfg` | pass | With two `onSubmit` calls and two effect runs, `ExpiredOnlyWhenTokenUnusable`, `SuccessOnlyAfterReset` and `SpinnerEventuallyResolves` hold over every context, token state, network failure, double submission and re-run (104,792 states), with the user free to follow the banner link at any time. |
| `crp_refines_flow` | `ImplementsResetFlow.cfg` | pass | With one `onSubmit` call and one effect run (`MCOneSub`, `MCOneRun`), and a user who follows the banner link only with no reset in flight (`LeavesMidSubmit = FALSE`): the redirect of a key holder never follows a submission (`KeyHolderNeverSubmits`, an action property on the redirect step), every step moves the user along an edge of `ResetFlow`, and the spinner always gives way (`ImplementsResetFlow`). |
| `crp_reset_reported_expired` | `ResetHereNeverReportedExpired.cfg` | violation | A reset applied by this page is shown as an expired link. Two ways: a second click while the first call is in flight, or a retry after a lost response or a failed `finishOAuthFlowHandler`. |
| `crp_totp_bypassed` | `TotpNeverBypassed.cfg` | violation | When `hasTotpAuthClient` fails it returns `false`. The OAuth branch then finishes the flow and redirects to the relier without the TOTP step. |
| `crp_leave_mid_submit` | `ImplementsResetFlowLeavingMidSubmit.cfg` | violation | The same refinement with `LeavesMidSubmit = TRUE`. The lookup fails and the user submits. While the reset is in flight, the user follows the banner link to the recovery-key page. The reset's continuation then navigates to `/reset_password_verified`, which is not an edge out of the recovery-key view. Spec §5 says the continuation of an unmounted component is dropped. |
| `crp_rerun_redirect_mid_submit` | `KeyHolderNeverSubmitsUnderRerun.cfg` | violation | The first recovery-key lookup fails, so the form is shown and the user submits. A re-run of the effect then finds the key and navigates to `/account_recovery_confirm_key` while the submission is in flight. |

Two more configurations state what the code does not do but are not among
the runs: with two calls in flight the page does not refine `ResetFlow`
(`ResetFlowUnderDoubleSubmit.cfg`: the loser shows the expired view, then
the winner navigates to the success page), and `renderCompleteResetPassword`
logs a page view after the redirect to the recovery-key page
(`PageViewOnlyForShownForm.cfg`). TLC finds both violated.

Each property of `crp_flow` and `crp_refines_flow` has a mutant that breaks it:

- A dropped `await` before rendering breaks `KeyHolderNeverSubmits`.
- Rendering only inside the `if` breaks `SpinnerEventuallyResolves`.
- A dropped errno test in the catch breaks `ExpiredOnlyWhenTokenUnusable`.
- A `break` after `case SyncBasic:` breaks `SuccessOnlyAfterReset`.
- Rendering before the lookup answers breaks `ImplementsResetFlow`: the
  form is followed by the recovery-key page.
- Navigating a key holder to a route the page does not know breaks
  `TypeOK`.

### `ResetFlow.tla`

This is the abstract specification, written from the spec rather than
the code. It has one variable, `view`, and three actions:

- `LinkChecked` moves from the spinner to the form, the recovery-key page,
  the expired view or the damaged view.
- `ResetAnswered` moves from the form to the success page, the TOTP step,
  the relier or the expired view.
- `RecoveryKeyLinkFollowed` moves from the form to the recovery-key page
  (spec §4.2: the banner of a failed lookup links there). There is
weak fairness on `LinkChecked` only.

### `GqlClient.tla`, with `MCGqlClient.tla`

This module models `gql.ts`.

- **`ScanErrors`** is a `RECURSIVE` operator. It is the `for` loop over
  `graphQLErrors`, including the `return` on "Must verify" when the page
  is not `confirm_signup_code`.
- **`errorHandler`** combines that loop with the 401 test and the
  `pagesRequiringAuthentication` test. It returns the `location.replace`
  target (the `redirect_to` suffix is dropped) and whether it logs.
- **Pathnames** are abstracted to the set of snippets they contain.
  `includes()` is the only test the code makes on them.
- **`ExpectedOutcome`** is the reference definition. It is written from the
  code's comments without a loop.
- **`HandleError`** is one failed operation reaching the `onError` link.
  `createApolloClient` acts on the memoised instance.

| Run | cfg | Expect | What it shows |
|---|---|---|---|
| `gql_error_handler` | `GqlClient.cfg` | pass | For every page and every list of up to three errors (`MaxErrors = 3`), with every kind of network error, `errorHandler` matches `ExpectedOutcome`. The early return and the `reauth` flag never make the outcome depend on the order of the errors. |

Three errors are enough for each message to come before and after each
other one. The mutants:

- A `return` after "Invalid token" breaks `ErrorHandlerMatchesExpected`.
- A reload instead of `/signin` breaks `TypeOK`.

### `LoginPage.tla`

This module models four scripts of `functional-tests/pages/login.ts` and
the helpers they call:

- `login()` (lines 112-142);
- `fillOutEmailFirstSignIn()` (105-110);
- `fillOutFirstSignUp()` with `fillOutSignUpCode()` (192-222).

The test, called the driver, awaits one Playwright call per step. The page
is the environment. `ctx.call` says which script runs. `CallContexts`
holds the argument sets the tests pass.

**The page.** It starts `loading` and renders a landing screen:

- the cached-login screen if the shared storage holds a signed-in account;
- otherwise the password form if the email is known (`PasswordForm`:
  sign-in, or sign-up for a new address);
- otherwise the email-first screen.

Each click the page processes may navigate to the next screen
(`Navigate`, `NextScreen`). The sign-up form goes to the confirmation-code
form, and that form goes to signed in. The page's behaviour is not under
`src/`, so these definitions are marked spec-modelled. This module never
writes `cachedAccount`. Alone, `Next` keeps it fixed. `LoginSession`
derives it from the shared storage.

**The driver.** `pc` is where the script is. `StartPc` is its first step:
`isCachedLogin` for `login()`, and `setEmail` or, when `enterEmail` is
false, `setPassword` for the others.

- `isCachedLogin` and `isSigninHeader` are `CheckVisible` steps.
- `setEmail`, `setPassword`, `setVPassword`, `setAge` and `setCode` are
  `Fill` steps. A fill waits for its field.
- `waitForEmail` is the mailbox poll of `fillOutSignUpCode`.
- `clickUseRecoveryCode` clicks without waiting for a navigation.
- `submit(waitForNav)` is three actions:
  - `SubmitClick` registers the `framenavigated` listener, then
    dispatches the click.
  - `SubmitClickResolved` runs when the awaited click resolves.
  - `SubmitNavigated` runs when the listener fires.
- `SubmitSite` says, for each call of `submit()` in the scripts, whether
  it waits and where the script goes next.

**Playwright semantics** assumed:

- `isVisible` answers at once, and its `timeout` option is ignored.
- `fill` and `click` wait for their element. `ActionTimeout` fails the
  call only when the page is quiescent and the element is missing.
- `waitForEvent` sees only the navigations that happen after it is
  registered.

### `LoginStorage.tla`, with `MCLoginStorage.tla`

This module models the localStorage helpers (lines 553-639). Parallel
tests share the storage.

**State.**

- `accounts` maps account ids to a stored record. Each record keeps only
  the form of its email: exact, upper case, or absent.
- `currentUid` is `__fxa_storage.currentAccountUid`.
- `live` holds the sessions the auth server accepts.
- `destroyPc` and `destroying` are the two steps of `destroySession`. An
  `await` separates the read from `sessionDestroy`.
- `destroyed` and `denormalized` record which calls returned.

**Actions.** `clearCache`, `useCredentials`, `destroySessionRead` with
`FoundAccount` (`getAccountFromFromLocalStorage`), `destroySessionAnswer`
and `denormalizeStoredEmail`. A sign-in through the app
(`SignInViaApp`) stores the account with its email.

`MCLoginStorage` runs the helpers alone, with two tests and symmetry over
them.

| Run | cfg | Expect | What it shows |
|---|---|---|---|
| `storage_destroy_noop` | `DestroySessionEndsSession.cfg` | violation | `useCredentials` stores no email. `destroySession(email)` then finds nothing and returns, and the session stays live. |

`DenormalizeUppercasesEmail.cfg` is not among the runs, but TLC finds it
violated. The evaluate parameter `uid` receives the email and is compared
with account ids, so no stored email is ever upper-cased. It is a
one-call bug that a unit test reaches.

### `LoginSession.tla`, with `MCLoginSession.tla`

This module composes the page with the storage, following the comment at
lines 117-118: "playwright shares the storage state". It uses
`INSTANCE LoginStorage` and
`INSTANCE LoginPage WITH cachedAccount <- CachedAccountOf`. The variables
are shared by name. `CachedAccountOf` is the current account of the
storage, when its record is stored. It is `self` for the test `Self`, and
`other` for another test.

**Actions.**

- `phase` is `setup` while `Self` runs its own helpers. `StartLogin` loads
  the page and calls the script. It is disabled while an awaited
  `destroySession` of `Self` is in flight.
- `TestHelper(t)` is one storage helper of test `t`. Other tests call
  theirs at any time. `Self` calls its helpers only in setup or after the
  script has returned.
- `InPage(A)` is a page or driver step, which leaves the storage alone.
- `PageNavigate` is the page processing a click. A sign-in with the
  password, or a confirmed sign-up, stores `Self`'s account. Continuing a
  cached session stores nothing.

**Fairness.**

- Strong fairness on `StartLogin`. The setup is a finite sequence of
  awaited helpers, but `StartLogin` is disabled while one of them is in
  flight.
- Weak fairness on `DestroyAnswered(t)`: `sessionDestroy` always settles.
- Weak fairness on the page's render and navigation, and on every driver
  step.
- No fairness on the other tests' helpers, which need never be called.

**Bounds.** `MCLoginSession` has two tests, `t1` (that is, `Self`) and
`t2`. There is no symmetry, because `Self` is distinguished. Every
argument set of the three scripts is combined with every storage that the
setup can reach: 119,806 states in about 20 seconds. The run ends once
the script has returned, so deadlock is not checked.

| Run | cfg | Expect | What it shows |
|---|---|---|---|
| `login_session` | `LoginSession.cfg` | pass | `FailsOnlyAfterEarlyCheck`: `login()` fails on a missing element only if it chose its branch while the page was loading; the sign-in and sign-up scripts fail only on a cached-login landing. `ReturnsSignedIn`: a script returns only after its awaited submits navigated. `LoginEnds`: it always ends, while the other test writes the storage. |
| `login_times_out` | `LoginNeverTimesOut.cfg` | violation | `isCachedLogin` and `isSigninHeader` answer before the page renders. `login()` takes the email-first branch, and `setEmail` times out on the password or cached-login screen the page then shows. The comment at lines 118-119 says every landing screen is handled. `LoginNeverTimesOut` is about `login()` only. The other scripts fail on a cached landing (`FailsOnlyAfterEarlyCheck`), and no comment says they handle one. |
| `login_wrong_account` | `SignedInAsRequestedAccount.cfg` | violation | `t2` stores its session, the page offers to continue as `t2`, and `login(email)` clicks Continue without comparing accounts. `Self` ends up signed in as another test's account. |

The mutants:

- A listener registered after `await click()` breaks `LoginEnds`.
- A `submit()` that does not wait for the navigation breaks
  `ReturnsSignedIn`.
- An email-first branch without its `submit()` breaks
  `FailsOnlyAfterEarlyCheck`.
- The cached branch clicking the signed-in button breaks `TypeOK`.
- A record keyed by email breaks `TypeOK`.

### `MetricsObserver.tla`, with `MCMetricsObserver.tla`

**Data.**

- `RequiredFields` is `REQUIRED_FIELDS_BY_EVENT_TYPE_MAP`.
- Each field of `requestBody.data` is abstracted to `absent`, `null`, a
  defined value, or `with-account` (for `checkoutType` only).
- `Datas` holds the data sets in which at most one field of `DataFields`
  is missing or null.

**The listener.**

- `ForEvents` is a `RECURSIVE` operator for the `for` loop over
  `requestBody.events`:
  - each event is merged with the data;
  - an untracked type is skipped;
  - a failing `expect` throws, keeping what was already pushed.
- `Emit` runs every registered listener in turn. A throw ends the emit.
- `startTracking` adds a listener each time it is called, up to
  `MaxListeners`.
- `PageSendsRequest` is one request reaching the listeners.

**The reference.** `ExpectedAppended` is written without loops:

- the tracked events, found with `SelectSeq`;
- repeated once per listener, with `FoldLeft`, when every event passes;
- otherwise cut before the first failing event, with `SubSeq` and `Min`.

**Bounds.** Four event types: two subscription-create types, one
plan-change type and one untracked type. Five deviating fields, up to two
events per request, and two listeners (2,526 states).

| Run | cfg | Expect | What it shows |
|---|---|---|---|
| `metrics_handler` | `MetricsObserver.cfg` | pass | `RecordsExpectedEvents`: the listeners push exactly the reference's events. Each tracked event is pushed once per listener, in order, cut at the first failing expect. |

`WithAccountEventsHaveUid.cfg` shows that a `with-account` event with a
null uid is recorded, because `toBeDefined` accepts `null`. TLC finds it
violated. The comment at line 110 does not say whether `null` counts as a
uid, so it is not among the runs.

The mutants:

- Pushing the event before its expects breaks `RecordsExpectedEvents`.
- Pushing the event base breaks `TypeOK`.

## 4. Not modelled

- **Left out on purpose:** rendering, localisation, the password-strength
  form validation, logging wording, and the values of tokens and keys.
  Only whether a call happened matters to the properties.
- **Hard navigation** is modelled as the end of the document, with no
  continuations after it.
- **`navigateWithoutRerender`** is modelled as a route change. Its source
  is not under `src/`.
- **`login.ts` helpers that only wait for or read the page:** the
  getters and header checks, `unblock`, `fillOutSignInCode`, `setTotp`
  and `setNewPassword`, `getStorage` (which only logs) and
  `clearSessionStorage`. Each is one page call, or the fill-and-submit
  sequence already modelled, on a screen the model does not have. The screens and navigations of the content
  server are assumed, not read from code.
- **The storage a sign-up writes:** the content server is not under
  `src/`. `PageNavigate` stores the account when it reaches the
  signed-in screen, not at the unverified sign-up.
- **The Playwright semantics** listed under `LoginPage` are assumed, not
  checked against the library.
