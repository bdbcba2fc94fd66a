# A TLA+ model of the GoPay JavaScript SDKs

This directory models the stateful core of the two SDKs in this repository: the
browser SDK (`browser-sdk/`), the server SDK (`sdk/`) and the code they share
(`internal/core/`). The modules are checked with TLC on small instances, and the
results that matter most are proved with TLAPS for every value of the constants.

All paths below are relative to the repository. `auth-handler.ts` and its like
are under `internal/core/src/http/`; `auth.module.ts`, `payments.module.ts` and
`cards.module.ts` exist in both SDKs and are named with theirs.

Contents: [1 the system](#1-the-system), [2 modules](#2-modules), [3
runs](#3-runs-and-what-they-show), [4 fairness](#4-fairness), [5
proofs](#5-proofs), [6
divergences](#6-where-the-code-and-its-documentation-disagree), [7
limits](#7-what-is-not-modelled), [8 plan](#8-plan).

## 1 The system

Everything here runs on one JavaScript thread. What makes it hard is that every
operation is an async function: between two of its `await`s any other operation,
network answer, timer or page event may run. A continuation of a promise that
has settled is a microtask and runs before the event loop takes its next task;
the models keep that order.

| component | state it keeps | operations | what makes it correct |
|---|---|---|---|
| token store (`token-store.ts`) | token and expiry, client id and secret or shareable key, payment credentials | set, clear, clearToken | the token is that of the credentials stored |
| auth handler (`auth-handler.ts`) | the map of refreshes running, by payment credentials | inject a token, refresh it, treat a 401, retry once | one refresh at a time; a retry carries the token of the payment the request was for; a failure costs no more than it has to; every call settles |
| HTTP client (`client.ts`, `fetch-with-retry.ts`, `timeout-signal.ts`) | errors already reported | get, post, ..., retry of 5xx, timeout | an error is reported once; what is not idempotent is sent once |
| browser session (`gopay-browser-sdk.ts`, browser `auth.module.ts`) | `attachAttempt`, `paymentsApi`, `attachedPaymentId` | attachPayment, logout, the payment-scoped methods | the latest attach or logout wins, whatever answers last |
| server session (server `auth.module.ts`) | none besides the store | authenticate, logout, every API method | the token held is that of the client stored; after logout there is none |
| polling loop (`polling.ts`) | stopped, the next timer, the abort listener | poll, stop | one poll at a time; nothing runs on after the end |
| waiting for a charge (`charge-polling.ts`) | the limit timer, the last redirect URL | awaitChargeState | one outcome, the one that happened; no timeout once the customer acts; a redirect is not issued twice |
| the same in the browser (`payments.module.ts`) | the 3DS watchdog, the chained signal, pagehide listener | awaitChargeState, handle3DS | a redirect that goes nowhere is reported, one that leaves is not; promise and poll end together |
| waiting for a payment, refund or recurrence (`payment-status-polling.ts`) | an optional limit | awaitPaymentState and its like | it ends, also when a recurrence can never get further |
| webhook keys (`webhooks.module.ts`) | key set, its age, last attempt, last failure, the load running | verify | GoPay is not overrun; a withdrawn key is not used for ever; not checked is not forged |
| event paging (`events.module.ts`) | cursor, pages fetched | iterateEvents | it ends, and loses no event but those of a page whose cursor is no URL |
| card form (`cards.module.ts`, browser) | the active session, the URL cache, the iframe, the charge's abort controller | mount, iframe messages, submit, unmount | one form at a time; `result` settles once; nothing is charged after unmount |
| wallet buttons (`wallets.module.ts`) | the active button, the Apple Pay session, the script cache | mount, tap, authorise, cancel, unmount | one button and one sheet at a time; one charge per authorisation |
| telemetry (`logging/`) | budgets, sequence number, unsent count, leave latch, page listeners | events of the SDK and of the page, uploads | a departure is told once; a gap in the numbers is explained; nothing that identifies a customer or a card is told |
| card form telemetry (`form-progress.ts`, `height-tracker.ts`) | steps told, field errors, the last heights and their turns | messages of the frame, load, hide, restore | steps and summaries are told once each, whatever the frame sends |
| error reporting, correlation (`report-errors.ts`, `correlation.ts`) | errors seen; transaction ids per call | wrap, report, run | once per failure; the id of the call a request belongs to |
| paths (`validate.ts`, `build-url.ts`) | none | the path of each method | a request goes to the endpoint of its method, whatever ids it is given |
| webhook signature (`signature.ts`) | none | verify, verifyWebhook | only what GoPay signed is an event |

How they interact: both SDKs build one HTTP client with one token store. Every
module calls the client; the client calls the auth handler for each request. The
browser session binds a payments module to each payment attached and hands it
out to the payment-scoped methods, the card form and the wallets. The payments
modules run the polling loop, which calls the client for each poll and the
integrator's callbacks for each answer. The callbacks may abort or throw. The
browser's modules tell telemetry what they do and never wait for it; the
server's calls run under a transaction id, which each request of theirs carries.

The hazards of the code, each at its line, are listed in `PROJECT.json`.

## 2 Modules

### Session

`TokenStore` has the store's setters and clearers as operators on a record.
Credentials and tokens are named by the attempt (1, 2, ...) that brought them, 0
being none, so `store.token = store.payment` says that the token is that of the
payment. The record keeps which payment or client a token belongs to, not the
string; whether it is about to expire is a choice made where the code asks
(`injectAuth`).

`AuthHandler` cuts a call where it awaits (`call[c].phase`: held, refreshing,
refreshed, authorised, sent, refreshing401, refreshed401, retried), and a
refresh likewise (`flight[c]`, named by the call that started it). `pending` is
the `Map` of running refreshes. `Inject`, `InjectRefreshed`, `Send`,
`Unauthorized`, `Retry`, `RetryUnauthorized` are the stretches of `injectAuth`
and `fetchAndHandle401` between two awaits; `Refresh`, `RefreshGranted`,
`RefreshRejected`, `Settle` those of `refresh` and `doRefresh`. The network
(`TokenAnswer`, `CallAnswer`) answers anything, a 401 included, when no
continuation is left to run (`Drained`).

`BrowserSession` extends it with `attachPayment()` (up to its await, the
exchange's answer, its continuation), `logout()`, the payment-scoped methods and
the card-form-URL request, which brings an `Authorization` header of its own. A
payment-scoped method starts in phase "held": `chargePayment()` collects browser
data and a poll waits its interval before the request is built. `PaymentSession`
is the abstract specification: the latest attach or logout counts, and the token
is the session's or nobody's. The refinement mapping is the instance `Session`
at the end of `BrowserSession`.

`ServerSession` extends `AuthHandler` with `authenticate()`, `logout()` and API
calls. `dropped` and `overlapped` are history variables.

### Requests

`HttpRequest` looks into what `AuthHandler` takes for one exchange: the
arguments, the token, the fetches with their retries and sleeps, the single
retry after a 401, the body, the caller's abort and the timer, and which object
is thrown and reported at each end. `call[c].phase` is where the method awaits.
`UnderSignal` are the waits an abort ends, and `cause` says what aborted them. A
card charge first collects browser data under a timer of its own (`CallCharge`,
`CollectAnswered`, ...). Two calls may share a refresh and so be thrown the same
error: `error[c]` is the object that arose in call c, with how often it was
reported and the ids attached to it. `Endpoints` has the path of every API
method as a sequence of segments, how `validate.ts` and `build-url.ts` treat the
ids in it, and the payment `correlate()` reads back out of it. `Transactions` is
`withTransactionId()` and the binding of every method over AsyncLocalStorage:
calls inside calls, generators stepped by other calls, and platforms without
AsyncLocalStorage.

### Waiting

`PollLoop` is `runPollLoop()` as operators on a record: stopped, the request,
the timer, the limit timer, the listener and the promise's outcome.
`AwaitCharge` is `awaitCharge()` on that loop: one action per kind of tick (a
callback that throws, a terminal state, a state to wait in, an action already
seen, a new action), with what the callbacks do (`Behaviours`: return, abort,
throw) as a parameter; `ServerCharge` runs it as the server SDK does.
`ChargeOutcome` is the abstract specification without polls or timers.
`BrowserCharge` runs it under a signal of its own, raced against the watchdog:
`watch` holds the stall timer, the listeners and the outer promise; `page` may
be hidden into the back/forward cache and come back. Its race implements
`ChargeOutcome` too: a stall is an error, and an abort counts when it is heard. `PaymentStatus` is
`awaitPaymentStatus()` with the recurrence's dead ends.

### Card form

`CardForm` is `mountCardForm()` and what the SDK object does around it. A form
is a record in `mounts`, numbered by the call that mounted it; `phase` says
where its code awaits: the URL (fetching), the frame's load (loading), the
customer (shown), browser data (preparing), the POST (posting), the poll
(polling). `active` is `activeCardFormSession`, `url` the settled
`cardFormUrlPromise` (while it is pending, one form is fetching, so the phase
says it). The payment is the attach that brought it, as in `BrowserSession`;
here `attachPayment()` has its guard against a mounted form, and tokens are left
out.

The integrator's `onLoadingStateChange` runs inside a step. `Told(r, events)` is
that call: the callback returns, or unmounts. In `Encrypted`, the only step that
reads the session after calling it, it may log out or attach too. GoPay's side
of a charge (`charge`) moves whether or not the form still waits for it, so an
abort after the POST leaves a charge that may succeed. How a poll ends is
abstracted to what `BrowserCharge` shows (`RaceImplementation`, section 5): with
the charge's outcome, without it, or on an abort, which is not heard once the
page was restored (`deaf`, the divergence `AbortHeard`).

Code that may throw where nothing catches it is part of the model. The URL is
parsed outside the `try` around its await, and the integrator's `spinner.render`
and the removal it returns are called unguarded. A throw before there is a
controller abandons the mount (`Abandoned`): it rejects and the session stays
taken. A throw later strands the flow (`Stranded`, `HalfUnmounted`, phase lost):
nothing of it runs any more, its result is pending, and `unmount()` may still be
called. What order the code does things in decides what is lost: `cleanup()`
releases the session before it clears the spinner (`FormFails`).

`ChargeFlow` is the abstract specification of a payment method that charges in
the page: one result, which is the charge's if it says so, nothing sent once it
was given up, and whoever gives it up is told whether a charge may be under way.
`CardForm` and `Wallets` both implement it (`Flow` in each).

### Wallets

`Wallets` is about one wallet, Apple Pay or Google Pay, chosen at the start. A
mount is a record in `mounts`, whose `phase` says where it awaits: the script,
Apple's element, the payment's configuration, the device, then shown, and the
charge (preparing, posting, polling). `script` and `tags` are the cache of
`load-script.ts` and the script elements in the page; `sessions` are Apple Pay
sessions, each with its merchant validation; `active` is the guard against a
second button. Spinners may throw here too (phase lost), and so may Google's
`createButton()` (`ButtonThrows`). `startApplePaySession()` of the payments module is `AppleTap` and
what its session's events lead to. The platform's sheets are external, with what
the code's own comments say of them (see the module's head).

### Telemetry

`GwLogger` has the kinds of events and the budgets they are spent on; the next
two modules extend it. `EventUpload` is the way of the events to gw-logger:
numbered by the page, lost, taken or answered in any order, each telling how
many before it failed. `PageVisit` has the page's own events: arrival, hide,
freeze, restore, redirect, the leave latch and the markers, with several SDKs
built on one page. `CardFormReports` is what `onMessage` makes of a frame that
may send anything: the validity, field errors, steps and the summary of each
visit. `HeightTracker` and `Sanitize` are the algorithms for oscillation and for
scrubbing. The tracker's list of times is a set here, each time with the number
of its message, for two turns may come at the same time. `Sanitize` is checked
against a reference definition of what must go and what must stay
(`MessageScrubbed`, `BodyScrubbed`).

### Server

`WebhookKeys` cuts a webhook where `keyFor()` awaits a load. GoPay reads its
keys (`LoadRead`) at one moment and the answer arrives at a later one, with
rotations, ticks of the clock and other webhooks in between. `WebhookSignature`
is `verify()` around it: the parts of a detached JWS in the order the code looks
at them, any of them malformed, and what each failure is told as. `EventPaging`
is the generator of `iterateEvents()`: a page is fetched when the one before is
used up, the gateway answers any number of items and any cursor, also one that
`new URL()` cannot parse (`CursorThrows`).

### Model checking

An `MC...` module extends the specification a run is about and gives its
constants values. Where a run covers modules that share no state, the MC module
puts them side by side: the variable `part` chooses the one that runs, and the
others stay at a state of their own. `MCWallets` and `MCBrowserCharge` wrap an
instance of what they check: a wallet's mounts are `buttons` there, its sessions
`sheets`, so that the proofs can have a card form's mounts beside them. Next to
a definition stands the mutated form of it that `PROJECT.json` pairs with a
property ("Mutant" in its comment): for each property there is a plausible bug
that breaks it.

## 3 Runs, and what they show

| run | instance | states | what it shows |
|---|---|---|---|
| `browser_session` | 2 calls, 2 attaches or logouts | 12,331 | session, credentials, token and telemetry's payment are the latest attach's; nothing outlives a logout; one refresh at a time; a retry is sent with its own payment's token; a failure costs only the token; the session implements `PaymentSession`; everything settles |
| `server_session` | 2 API calls, 2 authenticates or logouts; or 3 calls with transaction ids | 90,640 | without overlap the token is the stored client's; everything settles, with overlap too; each request carries the id of its call |
| `http_requests` | one call of any method and a second, sent once, that may share its refresh; or paths with ids of up to 3 characters | 201,996 | nothing is sent oftener than it may be, or after an abort or timeout; each failure is reported once; requests go to the endpoint of their method; every call ends though GoPay never answers |
| `server_waits` | 2 URLs, 5 moves of the charge; or 3 pages of 2 items beside each kind of wait | 59,689 | a wait that ended holds no timer or listener; `awaitChargeState()` implements `ChargeOutcome`; paging loses no event, except those of a page whose cursor is no URL; all of them end |
| `browser_charge` | 3 URLs, one insecure, 3 moves, 2 departures | 106,370 | promise and poll end together; a stall is reported as one, and only to a page that stayed; ends |
| `card_form` | 2 forms, 2 attaches or logouts | 224,275 | one form at a time, and a mount that was abandoned is the only one that holds the session without a form; only the payment it was mounted for is charged; implements `ChargeFlow`; nothing loads, waits or polls for ever after an abort |
| `wallets` | either wallet, 2 mounts, 2 Apple Pay sheets | 112,150 | one script; no sheet left behind, and none that shows a success that is none; each button implements `ChargeFlow`; charges end |
| `webhook_keys` | 2 webhooks, 3 keys, 4 ticks, interval 2, age 3, 1 rotation; or any signature of up to 4 parts | 699,895 | loads are spaced, keys refreshed, nobody is refused unchecked or left waiting; only what GoPay signed is accepted |
| `telemetry` | 2 SDKs on a page, 3 lifecycle events each; 4 uploads; 3 visits to a form; 6 heights; texts of up to 4 chunks, ways of up to 6 steps into a body | 999,136 | each departure, gap, step, summary and oscillation is told once and truly; what must be scrubbed is |

and three that find what section 6 describes: `browser_foreign_token`,
`browser_abort` and `wallet_overlap`.

Why the bounds are enough. The session's hazards are between one payment and the
next, one call and another: two attaches and two calls show each. That a third
adds nothing is not left to the bound: every safety property of that run is
proved for all values (section 5). Two redirect URLs make "new" and "seen
before" differ and let a URL return; five moves of the charge let it go to
action, back, to another action and to an end. Leaving the page twice lets a
page restored once be left again. Two forms are enough for one to be mounted
while the charge of another goes on, or for one to be stranded or abandoned
beside another; two attaches or logouts replace the payment a form was mounted
for, or detach it (what a third could do is proved, section 5). Two wallet buttons overlap or follow each other, and two
sheets let the events of one arrive while the other is open. For the webhook
keys only the order of interval and age counts; a clock of four ticks lets a set
grow old, its refresh fail and be due again. Three pages allow circles of every
length up to three, and a fourth adds none of a new kind. A second request only
matters through the refresh it shares. Two SDKs on a page are one built and one
rebuilt. A form is left, restored and left again in three visits. Heights 1, 2,
3 have every sequence of turns; chunks of text are one for each kind of
neighbour the patterns tell apart.

Bounds in guards: `MaxAttempts` (attaches, logouts and authenticates),
`MaxMounts` (of forms and buttons), `MaxSessions` (Apple Pay sheets), `MaxMoves`
(of a charge), `MaxLeaves` (departures of the page), `MaxTime`, `MaxRotations`,
`MaxItems` (on a page of events), `MaxParts` (of a signature), `MaxLength` (of
the ids of a call), `MaxSDKs`, `MaxVisits` (to a form), `MaxMessages` (of a
frame), `MaxChunks` (of a text), `MaxPath` (of the way to a value in a body).
`Budget`, `Window`, `MinSegment` and `MaxDepth` are the code's own limits,
scaled down. `CHECK_DEADLOCK FALSE` is set where the system comes to rest: a
wait that is over, a call that has ended for good, a paging that ended, a clock
at its bound.

## 4 Fairness

- A continuation is taken: weak fairness. The event loop runs microtasks before
  anything else, so nothing can keep one from running.
- A request is answered, or fails: every request is under a timeout signal
  (`timeout-signal.ts`). The answer is a task and waits until the continuations
  are drained, which other calls may undo again and again, so this is strong
  fairness in the session and key store models, where answers carry the guard
  `Drained` or `Quiet`; weak in the wait models, which have one promise chain.
- A timer that is armed fires: weak fairness. Nothing is assumed of a page in
  the back/forward cache, where timers do not run.
- A held call goes on: what it prepares is bounded by a timeout, too.
- A card form's frame loads, or its 30 seconds pass; its requests are answered
  or time out. A poll that no one aborts may go on for ever.
- Nothing is assumed of the integrator, the customer, GoPay's charge or key
  rotation: none of them has to move. The consumer of the event generator is
  assumed to go on asking, as `for await` does; `PagingEnds`, part of
  `EverythingEnds`, is about that.
- In `HttpRequest` GoPay need not answer a call at all: its timer fires, what
  the aborted signal rejects is rejected, and sleeps end. A token request ends
  by its own timer. None of these is enabled before a call is made, so the run
  conjoins `Fairness` to both parts.
- In `Wallets` the wait for Apple's element is bounded, requests end, an abort
  is heard, and a challenge the code refuses is refused. Nothing is assumed of
  the script, the device's answer, a sheet or the shopper: their waits have no
  bound in the code either.
- `Transactions` and the telemetry modules have no liveness: nobody waits for
  them.

## 5 Proofs

TLAPS checks every proof. They hold for any sets of calls, webhooks, URLs, pages
and keys and any bounds; the assumptions are the named `ASSUME`s of the modules:
`NoCall`, `NoUrl`, `NoPage`, `Nobody` are none of the things they stand apart
from, bounds are natural numbers, budgets are positive as all of `EVENT_BUDGET`
are, heights are not negative (`cards.module.ts:733` drops what is), the refetch
interval is positive and shorter than the key age (10 s and an hour in the
code), the shortest segment of a token is positive (8 characters), and a message
is made of the characters `Sanitize` tells apart. Where an invariant keeps a
component's types, a theorem says so (`TypeCorrect` and its like). Thirty-two of
the forty properties the runs check are theorems too; the other eight are at the
end of this section.

**`AuthHandlerProofs`** holds lemmas both sessions use: what a step of the
client does to types (`ClientType`), and to who waits for whom (`WaitStep`).

**`BrowserSessionProofs`**. `SessionInv` strengthens `TypeOK`, `SessionAgrees`
and `DetachedHoldsNothing` with what each exchange and refresh in the air may
still bring. The properties alone are not inductive: that the token in the store
is the attached payment's survives an answer only because the answer's own
payment is compared with the current one (`IsCurrent`, `Replaced`). `WaitInv`
says that a pending entry names a refresh that is asking for exactly these
credentials; `OneRefresh` follows. `OwnTokenInv` relates the phase of a call
after a 401 to the payment it captured, and yields `OwnTokenOnRetry`.
`FailuresCostTheToken` is an action property proved action by action, and
`Implementation` maps each step to a step of `PaymentSession` or a stutter.

**`ServerSessionProofs`**. `TokenOfClient` is not inductive: a token is stored
as its answer comes, whoever has authenticated meanwhile. `ClientInv` adds that
as long as nothing overlapped, whatever is out asks with the credentials now
held, or with some that were dropped since (`AsksForClient`), and that a server
never has payment credentials. `OneRefresh` follows from the same `WaitInv` as
the browser's. The second half is `Transactions`: `OneIdPerCall` needs that a
call's code runs under the id of the outermost call it belongs to, or under none
where there is no AsyncLocalStorage (`Bound`), and that whatever was sent was
sent by a call that has begun (`Begun`). Without them a generator stepped by
another call could run under that call's id, and a slot just taken could disown
what it sent.

**`HttpRequestProofs`**. `IInv` says of each call what its phase allows (`Well`:
how often it was sent, which of its signals have fired and what it has recorded
so far), of each error that it was heard exactly if it is marked as reported,
and then once (`Sound`), and relates the two: a call on its way to throwing has
an error that was raised, by itself or by the refresh it waited for
(`Failures`). `ReportedOnce` needs that last part: an error is not overwritten
while somebody may still throw it because the call it arose in has failed
itself. `NothingAfterStop` holds because every fetch is made under the signal,
one lemma per way a stretch of the method ends (`GoesOn` and those after it).
`IdsStayParts` is about `Endpoints`, for ids of any length: what an id becomes
in a path has no separator in it and is no dot segment in any spelling, and
GoPay reads it as what was given. That `trim()` leaves a text at all takes a
least and a greatest place that is no blank; `CountingReaches` gives them
without an induction theorem, from the fact that a finite set has no one-to-one
map onto less than itself.

`GoesWhereAsked` builds on it: with every method's ids in its path, GoPay splits
the path at the slashes and reads the segments and ids that were asked for, and
`correlate()` reads back the payment of the path. `PathText`, `Split` and
`BuildUrl` are functions defined by a step from each place to the next.
`StepsExist` shows that there is such a function and `SameSteps` that there is
one only, by `CountingReaches`; `SplitPart` then says what a part with no
separator in it adds to the parts before it, `PathIsSplit` goes once through the
segments of a method (`PathsShaped`), and `PartsOfPath` puts the ids in their
places.

**`WaitsProofs`** is about all waits on a timer or a page. For the server's,
`IInv` adds to the types that a stopped loop is empty and a running one has a
request or a timer, never both (`Well`), that a terminal state read is the
charge's state for good, and that the limit timer runs only while no action was
seen. The loop's operators keep `Well` (one lemma each), so each tick does.
`OnePoll` and `Quiet`, which no run lists, follow. `Implementation` needs the
last two parts: without them an abstract timeout or outcome could not be
matched. The browser's wait keeps `Well` by the same lemmas (`BrowserLoops`
says that its operators are the server's). `BrowserInv` adds that the watchdog
is armed only while nothing has settled and its listener for `pagehide` is on,
which is what `SettledIsStopped` and `StallMeansStayed` need: otherwise a timer
left over could settle the promise and leave the poll running, or fire on a page
that had been left. `RaceImplementation`, which no run lists either, takes the
server's argument to the race: `PromiseInv` is the last two parts of `IInv`,
`PromiseGoesOn` what a step that settles the loop says of the charge, and
`RaceFollows` hands that on to the outer promise, which settles once. `PagingInv`
counts what the generator still owes, the events of a page with an unparsable
cursor included, which it goes on owing.

**`WebhookKeysProofs`**. `IInv` adds that times agree (a success was an attempt,
an attempt is not in the future) and what a webhook that is ready to go on has
seen (`ReadyKnows`), from which `RefusedOnlyChecked` and `OldKeysRefreshed`
follow, and `KeysKept`, which no run lists. `LoadsAreSpaced` divides the time
passed by the interval; `LoadsFit` says it with a product instead, which each
load keeps because it waits for the interval to pass, and `LoadsSpaced` goes
back to the quotient. `GenuineAccepted` goes through the parts of a signature in
the order the code does, for signatures of any length.

**`ChargeFlowProofs`** is about both payment methods that charge in the page.
The card form's `ChargesMounted` says nothing of a form that has charged nothing
yet; `FormHoldsPayment` does: while a form that will charge is mounted, its
payment is attached or none, and no exchange in the air can attach another
(`AttachedIsLatest` is why that is so when the form is mounted). `Sound` relates
a form's phase to its charge and its result. `SessionIsOwned` says who holds the
session: the form whose frame is on its way or on the page, or the mount that
was abandoned; that no other does is what keeps a charge that goes on, or a flow
that was stranded, out of the way of the next form. The operators on a form's record
have a lemma each, which shows that the record stays sound and that its flow
takes one step of `ChargeFlow` or none (`Follows`); `FormStep` and `FlowStep`
lift that to the state, and each action is an instance of them. The wallets go
the same way: `SoundButton` is their `Sound`, and `SheetsOwned` says which
button an open sheet belongs to and that this button is still there to hear of
it. `SheetTracked` is not inductive without it: the events of one sheet could
end a button that tracks another. `ScriptOnce` says when the script's element
is in the page.

**`TelemetryProofs`** proves five specifications, each of its own.

- `OneLeave`: a leave is told once through three pieces of state that have to
  agree, the latch, the beacon and the markers left in the budget. `LatchTells`
  says what the latch stands for on a page that is there, `Budgeted` that the
  markers of an SDK are what it spent on the funnel, `CardsBuilt` that nothing
  is told for an SDK that is not built. `LeaveTold` allows an SDK that had spent
  its budget, which is where `Budgeted` is needed.
- `GapsAccounted`: `UploadInv` says that an event's number is its place on the
  wire and that `unsent` counts what has failed so far. An event that left when
  all fates were known (`calm`) told that count (`Accounted`), and a fate known
  is not changed, so the count stays true of it.
- `FormTelemetry`: `Progressed` equates the flags of the form with what the
  frame has done so far, `Visited` says when the listeners of `pagehide` and
  `pageshow` are on; a summary is told once because telling it takes its
  listener down.
- `OscillationsTold` compares the tracker, which keeps a list of times and drops
  the old ones, with a definition over the whole path of heights. `PathInv` is
  that time does not run back, `DirectionInv` that the direction kept is that of
  the last change, however many equal heights came after it, and `ReversalInv`
  that the times kept are those of the turns within the window of the last one.
  That three turns lie in one window is then a matter of counting to three
  (`ThreeOf`).
- `ScrubbedTexts` is about messages of any chunks, any number of them, and
  bodies of any depth. Every pattern makes of a text its pieces laid end to end
  (`Laid`), some of them empty or `[redacted]`. What is left is `Excerpts` of
  the text: two characters side by side in it were side by side before, so no
  pattern makes a token or an address out of two halves. Where nothing but what
  was found has gone it is `Condensed`, which is what keeps the blanks.
  `AddressesGone` needs the end of the address before, a function along the text
  (`EndsExist`), to lie in front of each `@` (`EndBefore`): otherwise the local
  part of an address could be refused because the one before had taken it.
  `TokensGone` takes a stretch of what is printed back to the text it came from:
  a token in it would have been found there, or it lies next to one that was,
  and then it is full stops only. A token's length and ends come from its
  segments (`TokenLong`, `TokenEnds`). Of a body, the walk `sanitizeLogData()`
  takes is compared with its closed form `KeptAs` by induction over the steps
  that are left.

Only model-checked:

- Liveness, which is beyond the prover: `EverythingSettles`,
  `ServerCallsSettle`, `CallsEnd`, `EverythingEnds`, `RedirectsEnd`, `FormEnds`,
  `WalletEnds`, `WebhooksAnswered`.
- The divergences of section 6, which are counterexamples.

## 6 Where the code and its documentation disagree

Three have a run whose counterexample shows them, and an entry in `PROJECT.json`
that quotes the line they contradict.

- `SentOnOwnToken`: `injectAuth` sends whatever token the store holds. A call of
  payment A that was still preparing its request when B was attached goes out
  with B's token, and treats B as its own when it is refused.
- `AbortHeard`: leaving the page takes down the caller's abort listener too. A
  page restored from the back/forward cache polls on, deaf to `abort()`.
- `OneButton`: both wallets look for an active button before their awaits and
  register theirs after them. Two mounts that overlap both draw a button, and
  both can charge.

More are stated next to the others, with no run of their own; TLC refutes each
with a configuration like `MCBrowserAbort.cfg` that names it.

- `ServerSession`: `LogoutIsFinal`, `FailureIsFinal`. A token request that is
  out at `logout()`, or at another call's authentication failure, stores its
  token when it lands.
- `BrowserSession`: `AttachedHasClientId`. `logout()` clears the client id,
  which only the constructor sets, so a payment attached afterwards has none.
- `WebhookKeys`: `RefusedKeyIsUnpublished`. A webhook that joins a load GoPay
  answered before it rotated a key in is refused for good, though its key is
  published.
- `BrowserCharge`: `NoActionOnceEnded` (an `onStateChange` that aborts does not
  keep the same tick from redirecting) and `RedirectWatched` (after the page was
  left once, no watchdog is armed for a second redirect).
- `CardForm`: `OneTeardownOneEvent`. `unmount()` calls back before it has
  settled, so a callback that unmounts on `idle` re-enters it.
- `CardForm`: `FailedMountReleases`. A card form URL that `new URL()` cannot
  parse (`cards.module.ts:307`), or a spinner that throws while it is mounted
  (292, 329, 349), rejects `mountCardForm()` with `activeCardFormSession` taken.
  Every later mount is told to call `unmount()` on the existing controller
  (223), which nobody was given, and `attachPayment()` is refused as well. A URL
  that cannot be parsed stays cached besides. `SessionOwned` names the abandoned
  mount as its exception.
- `EventPaging`: `EveryEventReachesCaller`. `nextPageParams()` throws on a
  cursor that is no URL (`events.module.ts:84`, called at 213) when the page has
  arrived and before it is returned (222): its events are lost, which is what
  the comment at 182 is there to avoid, and the error is not reported.
  `EventsReachCaller` names that page as its exception.
- `CardForm`, `Wallets`: a spinner that throws during the charge (`Stranded`)
  leaves `result` pending for ever; `FormEnds` and `WalletEnds` therefore speak
  of the flow's end. `ButtonThrows` of `Wallets`: when `createButton()` throws,
  the mount rejects and the guard at `wallets.module.ts:1694` stays taken.
- `HttpRequest`: `AbortBubblesUp` (an abort is told by the name of what
  `fetch()` throws; a caller's own reason is taken for a network failure and
  retried) and `HeardWithIds` (an error that is reported before its ids are
  attached is heard without them).
- `PageVisit`: `UnmountTimed`. A form whose result settled ends without
  `unmount()`, so its time of readiness stays and times the next one's teardown.

## 7 What is not modelled

- A gateway that invents new cursors for ever: `Pages` is finite where
  `PagingEnds` is checked (`EventsReach` is proved for any set of pages).
- The HTTP retries inside one load of the webhook keys: `LoadsAreSpaced` counts
  loads. `HttpRequest` bounds the retries of a request.
- A `fetch` that throws from the call itself (`gw-logger.ts:817`), as only a
  replaced one does. It would spend a number that `unsent` does not count.
- A spinner's removal that throws once and not the next time it is called: one
  that threw is taken to throw again.
- Data: bodies, validation of their fields, cryptography, the formats of ids. A
  body is what the properties tell apart.
- A token's clock: "about to expire" may be true or false whenever it is asked.
- A system clock set back, which in `keyFor()` puts off key loads.
- `attachPayment()` is refused while a card form is mounted; `BrowserSession`
  describes the time no form is, `CardForm` the rule itself.
- Card form: sizing the frame, theme, locale; the report that the form submits a
  request.
- Wallets: the watch for CSP violations, the probe of capabilities and what both
  tell; a second Google tap while the sheet of the first covers the button (the
  platform's sheet is taken to be modal); what `onCancel` tells an integrator
  after an authorisation. A session that is over is taken to throw on `abort()`.
- `HttpRequest`: a timeout's error and an abort's are one ("abort"), which the
  code maps alike; the telemetry opt-out of `reportFailure`; that errors from
  outside are wrapped once per object; a bad base URL. An integrator's callback
  that throws is rethrown on a task of its own and changes nothing here.
- `Endpoints`: characters by class; the platform's URL parser is external; query
  values and the checks of an origin are left out. A method is only where its
  request goes.
- Telemetry: what an event says of a payment, an error or a browser. Two
  redirects within 30 s tell two leaves and an SDK rebuilt between a redirect
  and its pagehide begins a new visit; both are by design and modelled as such.
- `Sanitize`: characters by class; the patterns for card numbers, form URLs and
  name=value pairs.
- `WebhookSignature`: parts by class; which key signed is a choice.
- `Transactions`: trace ids and the user agent.
- Configuration is modelled where a component depends on it (the shareable key,
  redirect or manual mode), the checks of path segments in `Endpoints`, not the
  other checks. Spinners and loading
  states appear as what the integrator's code may do there: throw, or call back
  into the SDK. Generated types, the
  example application, and build and release scripts have no behaviour of the
  SDKs in them.

## 8 Plan

Done, in this order, the most important first: 1 `TokenStore`, `AuthHandler`,
`BrowserSession`, `PaymentSession` and proofs; 2 `ServerSession`; 3 `PollLoop`,
`AwaitCharge`, `ServerCharge`, `ChargeOutcome` and proofs, `BrowserCharge`,
`PaymentStatus`; 4 `WebhookKeys` and proofs, `EventPaging`; 5 `CardForm`,
`ChargeFlow` and proofs; 6 `Wallets`; 7 `HttpRequest` and proofs, `Endpoints`; 8
telemetry: `GwLogger`, `EventUpload`, `PageVisit`, `CardFormReports`,
`HeightTracker`, `Sanitize`; 9 `Transactions` and proofs, `WebhookSignature`; 10
proofs of `ServerSession`; 11 proofs of `BrowserCharge`, `PaymentStatus`,
`EventPaging`, `WebhookSignature`, the spacing of key loads, `Wallets` and its
refinement, telemetry, and the ids in a path; 12 proofs of where a request goes
and of what is left of a message or a body, and the refinement of
`BrowserCharge`.

Left, in this order:

- `HttpRequest` and `AuthHandler` composed: tokens and retries in one model.
  Each takes from the other only what its properties need, a choice of answers;
  the two agree on when a 401 is retried.
