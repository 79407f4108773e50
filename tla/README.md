# TLA+ models of SoW

SoW lets a business write a Statement of Work in a wizard and email it as a Word
document. It is a Go API (`backend/`), a React app (`web/`) and a static site
(`marketing/`), with WorkOS as identity provider, Resend for mail and PostgreSQL
for one table. This directory models the parts whose correctness depends on the
order of things: several tabs, several writers of a row, repeated requests,
calls that fail after they took effect, restarts, and a form of seven steps whose
values are checked three times.

| Module | What it is |
|---|---|
| `UserSync`, `UserMirror` | the `users` table and its three writers, and what the table is a mirror of |
| `WebSession`, `SessionUse` | the tabs of a browser over one session cookie, and what they may do with a session |
| `AuthFlows` | sign-in, sign-up, email verification, password reset |
| `EmailDelivery`, `EmailPromise` | emailing a document, and what that promises |
| `DeliveryCalls`, `DeliveryDialog`, `SowDialog` | the dialogs that ask for a document, in the app and on the marketing site |
| `AgreementWizard`, `DraftShelf` | drafts in localStorage and the eight-step wizard, and what the drafts are to the sender |
| `StepSchemas`, `StepForms` | the values of the steps with everything that checks them, and the forms a sender fills in |
| `MC*` | symmetry sets and other values for TLC |
| `*Proofs` | inductive invariants and theorems, for TLAPS |

Each `.cfg` is one run. Check a module with `tlc -config X.cfg MCX.tla`, a proof
with `tlapm XProofs.tla`.

## 1. The system

### Components, their state and operations

| Component | State | Operations | Modelled by |
|---|---|---|---|
| User records: `user-service.go`, `user-store.go`, `users.sql`, webhook and user controllers | table `users` | order-safe upsert, delete, get; webhook, `/v1/me`, session start | `UserSync` |
| Session client: `lib/auth/session.ts`, `stores/session.ts`; refresh, callback, logout of `auth-controller.go` | per tab: status, token, timer, refresh in flight; the cookie; the provider's rotating refresh token | bootstrap, refresh, adopt, sign out, storage event, Google callback | `WebSession` |
| Account flows: `auth-service.go`, `workos-client.go`, the pages under `features/auth` | provider accounts, codes, reset links; handlers and goroutines on their way; the page and step of a tab | sign in, sign up, verify, resend, forgot, reset | `AuthFlows` |
| Email delivery: `template-delivery-service.go`, `public-sow-configurator-service.go`, `mail/resend.go` | the map of pending keys, handlers, messages on the wire, Resend's keys | begin, wait, generate and send, finish | `EmailDelivery` |
| Agreement wizard: `features/agreements/store.ts`, list, organization and wizard pages | localStorage, each tab's copy, the page state | create, save a step, delete, walk, resume | `AgreementWizard` |
| Delivery dialogs: `template-delivery-dialog.tsx` and `delivery/api.ts` (web), `TemplateDeliveryDialog.tsx` (marketing) | step, acknowledgment, address, idempotency key, call in flight, last outcome | open, close, read, tick, edit, download, email, and a draft that changes underneath | `DeliveryDialog`, `SowDialog` over `DeliveryCalls` |
| Session cookie and OAuth state, key ring: `session/` | sealing keys | seal, open, rotate | planned |
| Access token middleware: `middleware/auth.go` | the JWKS cache | register, refresh, verify | planned |
| Template configuration: `schemas.ts`, `defaults.ts`, `configuration.ts`, `template-delivery-validation.go` | none | defaults, a schema per step, readiness, the API's checks | `StepSchemas` |
| Wizard fields and step forms: `components/`, `components/steps/`, organization page | a form's values, the text of a number input, the messages of the last Next | edit each field, tables with add, remove, drag and mark, the difficulty mix, Next and Back | `StepForms` |
| Marketing configurator's validation: `public-sow-configurator-validation.go` | none | validate what only the API checks | not modelled |
| Document generators | none | write a Word package | not planned: text and layout |
| HTTP boot, configuration, logging, metrics, health, mail wording, UI primitives, generated code, static pages | none that the rest depends on | | not modelled |

`PROJECT.json` lists every component with its files.

### How they interact

- A page of the account flows calls AuthService, which calls WorkOS one call at a
  time; the last step of a success is `startSession`, which upserts the row
  (`UserSync`) and seals the cookie (`WebSession`).
- Tabs share the cookie jar and a storage key that announces a sign-out; nothing
  else tells one tab of another.
- WorkOS tells the API of users by webhooks, at least once and in no order.
- The dialogs post to the email endpoints with an idempotency key; the service
  passes it on to Resend.
- The wizard talks to nobody: its drafts live in localStorage until a dialog
  sends one. A form is checked by its step's schema on Next; the whole draft by
  `contractConfiguration` when a document is asked for, and once more by the API.

### What is hard here, and what makes it correct

- **Interleaving without transactions.** A `/v1/me` or sign-in holds a snapshot
  of the provider's user while webhooks write newer ones. Rows must not go back,
  answers must be as fresh as what the request itself read, and rows must
  converge.
- **Answers out of order.** Refreshes, sign-ins and sign-outs of several tabs
  settle in any order over one cookie. Tabs must keep renewing, pages must not
  load for ever, ended sessions must leave the tabs.
- **Calls that fail after taking effect.** Account creation, code exchange and
  password reset are each followed by a second call. A visitor must not be told
  that a code or a link is no good when something else failed, and nobody without
  an account may be mailed.
- **Duplicates and retries.** One key must make at most one email, and every
  waiting duplicate must be answered.
- **Dialogs that wait.** While a call is out the draft may change and a click may come
  before the next render. A dialog must not claim what is not so, send what was not
  acknowledged, mail twice for one wish, or stay shut when no call is out.
- **State in three copies.** The wizard shows page state over memory over
  localStorage. Steps must be saved in order and a saved step must stay saved.
- **One rule in several places.** Values pass a schema one step at a time, are counted
  by `documentReadiness`, checked again as a whole, and validated by code written
  a second time in Go. What is accepted at one place must be accepted at the next,
  also after an earlier step was changed.
- **Fields that depend on each other.** One of the rows is the final one, three shares
  add up, a number input keeps a text of its own, a field disappears with its value.

## 2. Modules and code

A model keeps the code's control (calls, guards, early returns, what is written
in which order) and abstracts its data. `map` in `PROJECT.json` names the lines
of each definition.

### UserSync and UserMirror

A row is the revision it was copied from and that revision's `updated_at`; two
revisions may carry the same one. Every SQL statement and provider call is an
action: `MeGet`, `MeGetUser`, `Upsert`, `Reread`, `Return` are the steps of
`/v1/me`; `StartSession` is where a sign-in begins with the user it was given;
`Deliver` is a webhook with its 200, `DeliverUnacknowledged` one whose 200 is lost
and that comes again. `Fail` is a database or provider error at any step.

`UserMirror` forgets the requests and the deliveries: a row is a copy of the account's
current revision or of an earlier one, is replaced by none that is older, and goes only
after the account did. Of an earlier revision it bounds the `updated_at` and does not
remember it. `UserSync` implements it (`MirrorsTheProvider`).

### WebSession and SessionUse

A call is three steps: sent with the cookie the jar has, served by the API,
settled in the tab, where Set-Cookie and the code after the `await` take effect.
`SendRenewal`, `ServeRenewal`, `RenewalSucceeds`/`RenewalFails`/`RenewalIsLost`
are `refresh` and `doRefresh`; a renewal records the status that `doRefresh` read
before its `await`. A page load is one step with its first refresh; a page is not
loaded again while a call of it is in flight, so the cookie that an abandoned call
may still bring is left out. A token is its session and its age: current, replaced
but within the provider's grace window, or stale. It is assumed that the window
outlasts a round trip. `MCWebSession` adds a counter of what users do, to bound it.

`SessionUse` forgets cookies, tokens and calls: sessions begin, are granted to a tab
while they live, end, and are dropped. `WebSession` implements it
(`SessionsAreUsedAsGranted`) with `inUse` the pairs of a tab and a session that the
tab holds or has an answer with on its way. A use that outlives its session is what
`WebSessionSignOut` shows; the refinement says that nothing worse happens.

### AuthFlows

A request is a record that goes through the calls of its handler (`call`), then
carries the answer (`reply`) until its page hears it. Each call has an action for
what it does when it takes effect, heard or unheard, and one for its refusals and
faults: `Created`/`SignUpRefused`, `AskedToVerify`/`Authenticated`/
`PasswordRefused`, `CodeAccepted`/`CodeRefused`, `Found`/`FindFailed`,
`LinkIssued`/`LinkRefused`, `ResetConfirmed`/`ResetRefused`, `Provision`.
"quota" stands for 401, 403, 408 and 429, "down" for 5xx, transport errors and
unusable answers. Goroutines are `jobs`; `Restart` drops them. A tab knows which
request its form waits for: leaving the page or the 20-second abort forgets it,
and the handler goes on (`Cancel` is a context that ends between two calls).

Assumed of the provider: it requires verified addresses; it refuses an account
only for a taken address or a weak password; accounts are not deleted meanwhile;
a pending token lives as long as its code; a confirmed reset verifies the
address, as `workos-client.go:175` says.

### EmailDelivery and EmailPromise

A request is a step counter in `Email`: refused, leading (`Lead`, `GenerateAndPost`,
`SendReturns`, `Finish`), following (`Follow`, `TakeResult`, `GiveUpWaiting`) or in
conflict. The template and the public service are the same protocol over a map
each. Messages wait on the wire and are accepted or rejected, also after the
sender gave up; `Restart` empties the map. Resend remembers a key for 24 hours,
within which the model stays. A panic of a generator is not modelled.

`EmailPromise` is what a caller may rely on: at most one email per key, success
told only for an email with the asker's own content. `EmailDelivery` implements it
with `mailed <- emails` and `told` computed from the step.

### DeliveryCalls, DeliveryDialog and SowDialog

`DeliveryCalls` is what the two dialogs share: the calls made so far, those still
awaited, those that were mailed. The API is not modelled again there: `Mail` and
`MailedFor` are the steps and the success of `EmailPromise`, which `EmailDelivery`
implements. So a call that was lost may be mailed later, and one with a key that
was mailed answers as before. Every call also records its attempt, and `agreed`
what the box was last ticked for; both are history that no action reads.

`DeliveryDialog` is the dialog of the app. `inFlightRef` and the rendered `pending`
are two variables, since React and the query library render later than the handler
sets the ref (`Render`): a second click in between finds the button enabled.
`Reconfigure` is a render with another fingerprint. `Downloaded`, `Emailed` and
`CallFails` are what follows the `await`. An address that is not well formed only
sets a message and is no step. Of the four resets of
`specs/005-gated-template-delivery/spec.md:57-58` the code makes three, and
`SendsOnlyWhatWasAcknowledged` is about those (section 4).

`SowDialog` is the dialog of the marketing site with email delivery enabled. The
configuration is its own first step; `ResetGate` is the function of that name,
which nearly every control calls. The page behind the modal is inert, so a trigger
opens it only when closed. `touched` is history: the calls made when the gate was
last reset or the address edited.

Left out of both: file names, focus, and the scroll position beyond "reached the
bottom".

### AgreementWizard and DraftShelf

`stored` is localStorage, `memory` each tab's zustand state, `page`, `form` and
`pending` the wizard's page state. `SetState` writes the tab's whole memory over
localStorage, as `persist` does. Each button and link is an action: `NextNew`,
`NextSaved`, `Back`, `EditFromReview`, `OpenNew`, `OpenDraft` (with `resumeStep`),
`ConfirmDelete`, `SaveOrganization`, `Reload`, `OpenAddress`. The values of a step
are one value. Left out: the browser's history, addresses with a step number,
refused writes. What a form holds and accepts is in `StepForms`.

`DraftShelf` forgets pages and memory: drafts are filled in from their first step on,
filled in again, and thrown away one at a time, beside the organization.
`AgreementWizard` implements it in one tab (`KeepsTheShelf`), with the shelf computed
from `stored`.

### StepSchemas and StepForms

`StepSchemas` has no variable. A step's values are a record: a field that some rule
is about is a field of the record, the other required texts and emails of a step are
the one field `texts`, blank or typed. `cureDays` stands for the five whole numbers of
the standard terms. The module's comment names the fields that are left out because
they repeat the rule of one that is there, among them the tables `limits`,
`difficultyCaps` and `extraExcludedSettings` of step 4. `AgreementIssues` to
`OrganizationIssues` are the fields a schema of `schemas.ts` refuses, `ApiAgreement`
to `ApiOrganization` those that `template-delivery-validation.go` refuses, each
translated from its own file. `ApiOnly` lists what only the API checks; it models
no code and is what `ApiRefusesOnlyTheGap` compares with. An emptied number is
`NaN`, as `parseNumberInput` makes it, and zod does not run a `superRefine` over it.

`StepForms` is one sender over one draft. `form` is the mounted form, `saved` what
Next stored, `kept` the values of steps left by Back, `inputs` the state of the
mix's three `NumberInput`s, `termsOpen` whether the standard terms of step 1 are
unfolded (`ToggleTerms`), `refusal` the fields the last Next refused. An action
is one event: a field's `onChange` (`EditText`, `EditNumber`, `ToggleCountry`,
`AppendRow`, `RemoveRow`, `MoveRow`, `MarkRow`, `TypeShare`, `DragThumbs`, ...),
offered by the step that shows the field (`EditAgreement` to `EditOrganization`),
`Submit` and `Refuse` for the two ends of `handleSubmit`, `Back`, the review's edit
links, the list's `resumeStep`, and `Deliver`, the request for the document with
both its checks. Shares are typed in halves, so that `Math.round` has something to
round. A table's prefilled rows are one row.

Left out: lengths of texts, fractions elsewhere, the fields named in `StepSchemas`,
the formats of emails, identifiers
and codes, how a picker filters its list, the order of countries, focus, and
react-hook-form's revalidation while a refused form is corrected (an edit takes
the messages off).

## 3. Runs

| Run | Bounds | Shows |
|---|---|---|
| `UserSync` | one user, two requests, three revisions, two repeated webhooks | types; `MirrorsTheProvider`, `AnswerNotOlderThanRemote`, `RefusalMeansDeleted`, `RowsConverge` |
| `UserSyncDeletion` | one request | **violated** `DeletedStaysDeleted` |
| `WebSession` | two tabs, two sessions, three steps of users, one fault, fair | types; `LoadSettles`, `KeepsRenewing`, `SessionsAreUsedAsGranted`, `EndedSessionsLeaveTheTabs`, `TabsAgreeWithTheCookie` |
| `WebSessionSignOut` | one tab, one session | **violated** `SignedOutStaysSignedOut` |
| `AuthFlows` | one tab, two requests, one address, a strong and a weak password, one code, one link | types; `CodeStepHasAnAccount`, `MailsOnlyToHolders`, `AnswersFitTheirForm`, `RefusalsAreTrue`, `SessionsAreEarned` |
| `EmailDelivery` | three requests, one key, two contents, one restart, fair | types; `OneLeaderPerKey`, `NoEntryLeaks`, `KeepsThePromise`, `FollowersAreAnswered` |
| `DeliveryDialog` | two openings, three calls, two complete and one incomplete configuration, two addresses | types; `OneKeyOneContent`, `ResendsAreOneEmail`, `AcceptedIsTrue`, `SendsOnlyWhatWasAcknowledged`, `ShutExactlyByACall` |
| `SowDialog` | the same | `OneEmailPerChange`, `SentIsTrue` |
| `AgreementWizard` | one tab, two drafts, three steps, two values | types; `StepsAreSavedInOrder`, `KeepsTheShelf` |
| `AgreementWizardTabs` | two tabs, one draft | **violated** `LastNextWins` |
| `AgreementWizardBack` | one tab, one draft | **violated** `SavedStepReopensAsSaved` |
| `StepForms` | fifteen senders of two or three fields each, a draft begun with 0, 2 or 7 steps | types; `ReadyFailsOnlyByDate`, `ApiRefusesOnlyTheGap`, `OneFinalRow`, `MixIsShown`, `RefusalsAreShown` |

Every property of a passing run has a mutant, an operator marked `\* Mutant:` beside
the definition it stands in for, under which the property fails. Some properties have
a theorem and no run of their own, to keep the runs few: `NoStaleOverwrite`,
`AnsweredUserIsStored` and `NoUpdateIsLost`; `NobodyWaitsInVain`; `LinksWorkOnce`;
`DraftsComeAndGoAsAsked`; `OneCallAtATime`; for the marketing dialog its types,
`CallsAreForWhatIsShown`, `WaitsExactlyForACall`,
`OneKeyOneContent` and `SendsOnlyWhatWasAcknowledged`; and those that an abstract module
states of itself. Add one to the `.cfg` of its module to see TLC agree.

### Why the bounds are enough to be interesting

- `UserSync`: users share nothing, so one is enough. Three revisions with equal or
  different `updated_at` allow a skip, an overwrite and a tie; two requests and
  webhooks are three writers at once.
- `WebSession`: two tabs race over the cookie, with two sessions, so that a tab may hold
  another session than the one in the jar. Three steps of users are two sign-ins and
  a sign-out, a load, a callback or an API call at any moments between them; timers,
  answers, storage events, other ends of sessions go on without limit. One fault is a
  lost answer, a provider failure, a failed callback or a failed revocation at any
  moment. The safety properties are proved for any number of all of these.
- `AuthFlows`: flows of different addresses meet in a tab only, and the form
  remembers one address. Two requests are a form's and one left behind by an
  abort, a left form or the resend button. With one code, "wrong" and "used"
  codes both occur. `MaxCodes` and `MaxLinks` cap what the provider issues.
- `EmailDelivery`: keys are independent of each other. Three requests are a
  leader, a follower and a conflict or a retry.
- `DeliveryDialog`, `SowDialog`: three calls are one, another for other content, and
  the first again; two openings let a key, a tick or an answer outlive its attempt.
  Two complete configurations mix up contents, the incomplete one is refused.
- `AgreementWizard`: the app's seven steps with values behave alike but for the
  first, which creates the draft, and the last, which leads to the review: three
  steps have one of each and one between.
- `StepForms`: `Edits` bounds which fields one sender may change, and which steps
  that sender may leave by Back; every set holds fields that one rule relates (the
  deposit with its amount, the effective date with the milestones, the mix) or
  steps that save after one another, and every field is in one of them. `Amount` is 0,
  a number in bounds and one at `MoneyLimit = 3`; `Day` has an earlier and a later date; `HalfShare` with
  `Total = 4` has none, a fraction, a share in bounds and one above. `MaxRows` is two
  rows, three for a table that may so grow past `RowLimit = 2`. `Start` is a new
  draft, one whose next step is the pricing, and a complete one, where every edit of
  an earlier step is a change under saved ones.

### Fairness

- `UserSync`: `WF` of delivering a user's pending webhook of each kind: WorkOS
  retries until a 200. Nothing is assumed of requests.
- `WebSession`: `WF` of answering and settling a call, of a timer, of a storage
  event, per tab: browsers fire every timer and settle every fetch they send, and an
  account call that is not answered is aborted after 20 seconds (`auth/api.ts:19-30`);
  a refresh is a plain `fetch` over a connection that the browser gives up on. Nothing
  is assumed of users; the liveness properties begin where users rest.
  `TabsAgreeWithTheCookie` also supposes that no call is in flight now and then: two
  tabs whose refreshes overlap for ever hand the jar back and forth (section 4).
- `EmailDelivery`: `WF` of each request's own steps: goroutines are scheduled, and
  `SendTimeout` bounds the wait for Resend. Nothing is assumed of Resend.
- The dialogs have no liveness property: the code gives their calls no time limit, so
  nothing says that an answer comes (section 4). `AuthFlows`, `AgreementWizard` and
  `StepForms` have none either.

Deadlock is checked everywhere but in `EmailDelivery`, which ends when every
request has its answer, in `WebSession`, which ends with nobody signed in and the
users' steps used up, and in the dialogs, which end closed when the openings are used
up.

## 4. Findings

1. **A deleted user comes back** (`UserSyncDeletion`). `user.deleted` leaves no trace,
   so an older event delivered again inserts the row once more. The service's
   comment says replayed and out-of-order deliveries are safe.
2. **Signed out and in again** (`WebSessionSignOut`). The timer's refresh is sent, the
   user signs out, the API serves the refresh and then ends the session, the tab is
   cleared, and then the refresh's answer comes: `doRefresh` does not look at the store
   after its `await` and signs the tab in with the token of the ended session.
3. **Two tabs undo each other** (`AgreementWizardTabs`). A Next writes the whole store
   its tab once read over what the other tab saved since, where
   `specs/002-create-agreement-form/spec.md:224-225` has the last Next win per step.
4. **Back brings back old values** (`AgreementWizardBack`). What Back kept of a step
   is shown, and saved, over what a later Next saved.

Met while modelling, and without a run of their own:

- Signing up again for an account that was never verified answers with a decoy token
  (`auth-service.go:162`); "Send a new code" then mails a real code, which the step
  refuses, though `specs/004-first-party-auth-forms/spec.md:318-320` has the step
  accept a correct code. In `AuthFlows` it is a `VerifyEmail` whose request has no
  account behind its token while `CodeIsLive`.
- A ready draft may be refused. Save step 3, then save step 1 again with a later
  effective date: `documentReadiness` (`readiness.ts:25`), which "reports whether a
  draft can render a document", still says ready, and `contractConfiguration` refuses
  it. `ReadyFailsOnlyByDate` says that this is the only way.
- A draft the app accepts may be refused by the API with a 400: a deposit amount
  stays in the form after "No" was chosen (`template-delivery-validation.go:155`), a
  multiplier may be 0, and the upper bounds of counts and tables are the API's alone.
  `ApiRefusesOnlyTheGap` says that nothing else is.
- A Next may be refused with nothing shown: unfold the standard terms of step 1, empty
  a number, fold them again (`step-agreement.tsx:77-152` unmounts them); or empty the
  deposit amount, then choose "No"; or the deletion window, likewise. The field is off
  the page and still holds `NaN`, which the schema refuses. FR-006
  (`specs/002-create-agreement-form/spec.md:267-269`) has each failing field show its
  message. `RefusalsAreShown` has these emptied numbers as its one exception.
- A table row left blank is refused as required; `specs/002-create-agreement-form/spec.md:218`
  says that it is dropped on Next.
- A deletion between the two statements of `UpsertIfNewer` makes it return no row,
  which `UpsertFromProvider` dereferences (`user-service.go:42`); `UserSync` has it
  as the request's end `"panicked"`. `user-store.go:49-50` says the stored row is
  returned.
- A 503 with a JSON body takes the branch of a refusal in `doRefresh`
  (`session.ts:56`), so an outage signs a tab out whose session is valid, against
  `specs/001-auth-landing-dashboard/spec.md:200-203`.
- A failure that is answered after the draft changed shows its alert under the new
  draft (`template-delivery-dialog.tsx:180-186, 218-223`), though a success does not,
  against `specs/005-gated-template-delivery/spec.md` ("changing configuration
  resets all disclaimer and delivery state").
- The marketing dialog throws its key away with any edit of the address, one that is
  undone included. `ResendsAreOneEmail`, which the app's dialog has, does not hold
  there; `OneEmailPerChange` does.
- An accepted email leaves the box ticked (`template-delivery-dialog.tsx:216-217`), so
  a second email or download needs no new acknowledgment, against
  `specs/005-gated-template-delivery/spec.md:57-58` ("Closing, reopening, completing
  delivery, or changing configuration resets all disclaimer and delivery state").
  `SendsOnlyWhatWasAcknowledged` keeps `agreed` over a completed delivery; it states the
  other three resets.
- A dialog may stay shut for as long as a call hangs, or is paused by the query library
  while the browser is offline: `delivery/api.ts:74-115` passes no signal, and Cancel and
  Escape are refused meanwhile. `auth/api.ts:19-20` gives the account calls a limit, "so a
  hung request answers instead of leaving the submit button disabled indefinitely".
- Two signed-in tabs with different live sessions, which a failed revocation can
  leave, hand the jar back and forth as long as their refreshes overlap each time:
  each refresh was sent with the cookie that the other has just replaced.

## 5. Proofs

TLAPS checks these for every value of the constants, from the assumptions named in
the modules (the `None` values are no member of their sets, bounds are naturals,
`Strong \subseteq Password`, `Complete \subseteq Config`, `Mine \in Email`, `NaN` and `Null` are no
numbers, there is a country).

| Module | Theorems | Inductive invariant |
|---|---|---|
| `UserSyncProofs` | `TypeCorrect`, `RowsNeverGoBack`, `AnsweredMeansStored`, `AnswersAreFresh`, `OnlyDeletionRefuses`, `UpdatesAreNotLost`, `MirrorKept` | That a row which made an upsert be skipped is still there and as new (`SkippedForNewer`), that only what happened is announced, and that requests are about users that exist or existed. Without the first, the second query of `UpsertIfNewer` may answer anything. For `MirrorKept` also that every row, snapshot and event is the account's current revision or an earlier one (`PastOnly`). |
| `WebSessionProofs` | `TypeCorrect`, `LoadingEnds`, `TabsKeepRenewing`, `SessionsAreGranted`, `NoTabInventsASession`, `EndedSessionsAreNotRenewed`, `OneCookieStays`, `InductiveInvariant` | A page at the loader has a refresh that began with that page (`LoaderHasItsRefresh`), so its loss also ends the loading. Success has a session (`SignedInSomewhere`), and every cookie, request and call is about a session that was begun (`SessionsWereBegun`): a sign-out with an old cookie can end nothing that never was. |
| `AuthFlowsProofs` | `TypeCorrect`, `CodeStepsHaveAccounts`, `OnlyHoldersAreMailed`, `FormsHearTheirAnswers`, `RefusalsHold`, `SessionsAreForHolders`, `LinksAreSpent`, `InductiveInvariant` | A pending answer is about an account holder and other answers fit their handler (`RequestsFit`), what a tab shows fits the requests it waits for (`TabsFit`), and no two forms wait for one request (`OwnRequests`): a slot is not reused while somebody listens. `SessionsAreForHolders` adds, for every call on its way, that it acts for an account (`HoldersOnly`) and that a call that can only bring a session has its address verified (`AllEarned`). |
| `EmailDeliveryProofs` | `TypeCorrect`, `DuplicatesAreSuppressed`, `KeysAreFreed`, `FollowersHaveALeader`, `PromiseKept`, `KeysMailOnce`, `SuccessIsOwn`, `AnswersAreFinal` | The map and the leaders agree, an entry that is open has its leader (`OpenIsLed`), a follower's leader asks for the same, and every sign of success on its way from Resend to a follower has its email (`SuccessIsMailed`). `PromiseKept` is the refinement of `EmailPromise`: each step maps to one of its steps or a stutter. |
| `DeliveryDialogProofs` | `TypeCorrect`, `OneCallHolds`, `KeysHold`, `AcceptedHolds`, `AcknowledgmentHolds`, `ResendsHold`, `ShutHolds`, `InductiveInvariant` | A call that is out holds `inFlightRef` and the dialog open, in its own attempt (`Flight`); a ticked box was ticked for what is shown (`TickFits`); `emailKeyRef` remembers what every call with its key asked for, and in which attempt (`KeysFit`). The last is why a success, which the API may owe to an earlier call with the key, is about this attempt. For `ResendsHold` also: a run of emails that ask for the same has one key, and `emailKeyRef` holds the key of the last email of an open attempt (`RunsFit`). |
| `SowDialogProofs` | `TypeCorrect`, `AnswersFindTheirCall`, `OneEmailHolds`, `SentHolds`, `KeysHold`, `AcknowledgmentHolds`, `WaitHolds`, `InductiveInvariant` | No call is out unless the controls are held back (`Flight`); what was sent with the present key is what is shown (`KeysFit`); every email since the last change went with it (`TouchedFits`), and a key is mailed once (`KeysMailOnce`). |
| `StepFormsProofs` | `TypeCorrect`, `NoTwoFinalRows`, `MixAlwaysShown`, `IncompleteOnlyByDate`, `ApiRefusesNothingElse`, `RefusalsShownOrBlank`, `RebalanceMovesTheNeighbourFirst` | Every value in a form, kept or saved has its type, one final row at most and shares that add up (`Good`), although a kept one need not pass its schema; a saved one passes it but for the effective date (`SavedGood`: `Issues` with no date). That is why only the date can fail later. A refusal is the issues of the form as it still is (`RefusalGood`). |
| `AgreementWizardProofs` | `TypeCorrect`, `OrderKept`, `DraftsAreRetained`, `ShelfKept`, `DraftsHaveNoGaps` | Under `OneTab`, memory is what is stored (`MemoryIsStored`), and the steps before the one shown are. `TypeCorrect` is of any number of tabs. |

`StepFormsProofs` first proves what moving, removing and inserting a row does to a
table, what a schema's acceptance means field by field, and that the defaults are
`Good`; then, step by step, that the API's issues of an accepted step are its
`ApiOnly`. These hold for every limit, table length and list of countries.

Each proof has a lemma per action or group of actions and combines them in a last
temporal step.

Four theorems are refinements: `PromiseKept`, `MirrorKept`, `SessionsAreGranted` and
`ShelfKept`. Each shows that the first states agree and that every step, under the
inductive invariant, is a step of the abstract module or a stutter. What follows from an
abstract module is proved of that module alone, without the code's variables, and
inherited: `KeysMailOnce`, `SuccessIsOwn` and `AnswersAreFinal`; `NoTabInventsASession`
and `EndedSessionsAreNotRenewed`; `DraftsHaveNoGaps`.

`OneTab` is a hypothesis of the wizard's theorems, and a necessary one: with two tabs
`StepsAreSavedInOrder` fails in five steps, when the other tab writes the older store it
was loaded with, and so does `KeepsTheShelf`; `AgreementWizardTabs` is the run that shows
two tabs. What `OneTab` allows is
every behaviour of a sender who keeps to one tab.

Liveness is checked by TLC only, since the prover does not reason about fairness. What
it rests on is proved where it is a safety property:

| Liveness (TLC) | Its safe half (proved) |
|---|---|
| `RowsConverge` | `UpdatesAreNotLost`: what a row is behind by is still to be delivered |
| `FollowersAreAnswered` | `FollowersHaveALeader`: a waiting duplicate's leader runs, or its result is there |
| `EndedSessionsLeaveTheTabs` | `EndedSessionsAreNotRenewed`: uses of an ended session only become fewer |
| `TabsAgreeWithTheCookie` | `OneCookieStays`: once the cookie and all calls are about one session, they stay so until the next sign-in, and no tab comes to hold another |

That the tabs keep a session at all has no simple invariant behind it. One would like
to say that the cookie of a live session is never past the grace window. TLC refutes this without any
failure: two tabs refresh at once, the slower answer overwrites the jar with a token that
was replaced meanwhile, and the window ends. The tabs then agree by losing the session.

Every invariant and every safety property of a passing run is proved.

## 6. Plan

In this order.

1. `Access`: the JWKS cache of the middleware, the key ring with its rotation, the
   OAuth state and cookie across it, and the claims a token is refused for.
2. The marketing configurator's checks beside `StepSchemas`, and the legacy values
   that `configuration.ts` upgrades in older drafts.
3. The browser's history in `AgreementWizard`, where the page stays mounted from one
   draft to another, and a refused write.
4. `AuthFlows` with the cookie of `WebSession`: a verification that is answered after
   its form was left still sets the cookie; and, with fairness of the 20-second
   timer, that a disabled button comes back.
5. `StepForms` over the store of `AgreementWizard`: two tabs that fill in one draft.

Runs are kept few enough to read: a disagreement that a run of its own no longer
shows stays in section 4.

## 7. Not modelled

- Document generation, wording of mails and notices, layout: text without state
  that a property here is about. That generation can fail is modelled.
- Rate limits, origin check, body limits, error envelopes: the modules take a
  handler's outcome after them.
- Configuration, logging, metrics, tracing, health: read once, or observation only.
- `public-sow-configurator-validation.go`: each check stands alone, and no form beside
  it makes the same one; currencies, units and the pickers' search are tables.
- A `localStorage` that refuses a write, and a generator that panics: the code gives
  no condition for either.
- Key rotation and the JWKS cache: planned, and independent of what is modelled.
- Webhooks that WorkOS gives up on: nothing in the code would notice.
- The sealing of cookie and state (AES): a sealed value is taken for what it seals.
