---------------------------- MODULE HttpRequest ----------------------------
(***************************************************************************)
(* One API method from its call to its end: the retries, the timeout, the  *)
(* single retry after a 401, the reading of the body, and what is reported *)
(* of it (client.ts, fetch-with-retry.ts, timeout-signal.ts, errors.ts,    *)
(* report-errors.ts and, for a card charge, browser-data.ts).  AuthHandler *)
(* takes a request for one exchange and looks at tokens; here tokens are   *)
(* there or not, and the exchange is looked into.                          *)
(*                                                                         *)
(* Calls run concurrently and share a refresh.  A slot is used once.  An   *)
(* error is named by the call it arose in: a call gives rise to one error  *)
(* at most, its own or that of the refresh it started, and may end with    *)
(* the error of a refresh it joined.                                       *)
(***************************************************************************)
EXTENDS Naturals

CONSTANTS
    Calls,   \* the calls
    NoCall,  \* none of them
    Methods  \* call -> the methods it may be of


VARIABLES
    call,    \* the calls, below
    error,   \* call -> the error that arose in it
    flight   \* the call whose refresh is running, or NoCall

vars == <<call, error, flight>>

MaxRetries == 2

(* FORM is postForm(), the token request of authenticate() and             *)
(* attachPayment(); CHARGE the charge of a card, which asks for browser    *)
(* data and posts.                                                         *)
Kinds == {"GET", "DELETE", "POST", "FORM", "CHARGE"}

ASSUME NoCallAssumption == NoCall \notin Calls
ASSUME MethodsAssumption == Methods \in [Calls -> SUBSET Kinds]

Idempotent(kind) == kind \in {"GET", "DELETE"}

(* Why a signal is aborted, as fetch() tells it: a TimeoutError or an       *)
(* AbortError, the timer's reason and the one of a plain abort(); another   *)
(* Error, or some other value, which a caller may give as the reason.       *)
Reasons == {"abort", "error", "value"}

(* A stretch between two awaits.  A timeout signal is held in those of      *)
(* UnderSignal.                                                             *)
UnderSignal == {"collecting", "detecting", "fetching", "sleeping", "refreshing401",
                "refreshed401", "refetching", "reading"}
Waiting == {"refreshing", "refreshing401"}
Settled == {"resolved", "rejected"}
Phases == {"idle", "refreshing", "refreshed", "unrefreshed", "thrown"}
              \cup UnderSignal \cup Settled

CallRecords ==
    [kind     : Kinds \cup {"none"},
     phase    : Phases,
     attempts : Nat,                      \* of fetchWithRetry()
     sent     : Nat,                      \* requests that went out, browser data apart
     failed   : BOOLEAN,                  \* lastResponse: a 5xx was answered
     refused  : BOOLEAN,                  \* a 401 was answered
     status   : {"none", "ok", "absent", "refused", "4xx", "5xx"},
     caller   : {"none"} \cup Reasons,     \* the caller's signal
     cause    : {"none"} \cup Reasons,    \* the combined signal's
     issued   : BOOLEAN,                  \* of the verb method
     opened   : Nat,                      \* API calls that went out
     records  : Nat,                      \* ... and were recorded
     failure  : Calls \cup {NoCall}]      \* the error the call ends with

ErrorRecords ==
    [kind     : {"none", "http", "sdk", "foreign"},
     ids      : {"none", "request", "token"},  \* whose correlation ids it carries
     reported : BOOLEAN,                       \* in reportedErrors
     heard    : Nat,                           \* calls of onError
     heardIds : {"none", "request", "token"},  \* ... and the ids it saw
     events   : Nat]                           \* error events of the telemetry

TypeOK ==
    /\ call \in [Calls -> CallRecords]
    /\ error \in [Calls -> ErrorRecords]
    /\ flight \in Calls \cup {NoCall}

NewCall ==
    [kind |-> "none", phase |-> "idle", attempts |-> 0, sent |-> 0,
     failed |-> FALSE, refused |-> FALSE, status |-> "none", caller |-> "none",
     cause |-> "none", issued |-> FALSE, opened |-> 0, records |-> 0,
     failure |-> NoCall]

NoError ==
    [kind |-> "none", ids |-> "none", reported |-> FALSE, heard |-> 0,
     heardIds |-> "none", events |-> 0]

Init ==
    /\ call = [c \in Calls |-> NewCall]
    /\ error = [c \in Calls |-> NoError]
    /\ flight = NoCall

-----------------------------------------------------------------------------
(* Errors and their reports.                                                *)

Raised(kind, ids) == [NoError EXCEPT !.kind = kind, !.ids = ids]

(* onError is called; an HTTP error is no event of its own.                 *)
Heard(e) ==
    [e EXCEPT !.reported = TRUE, !.heard = @ + 1, !.heardIds = e.ids,
              !.events = IF e.kind = "http" THEN @ ELSE @ + 1]

(* Mutant: every layer reports the error it is handed.                      *)
ReportEach(e) == Heard(e)

ReportOnce(e) == IF e.reported THEN e ELSE Heard(e)

(* Mutant: what is not the SDK's own is dropped.                            *)
ReportOwn(e) == IF e.kind = "foreign" THEN e ELSE ReportOnce(e)

(* What is not an SDK error is wrapped into one, once per object.           *)
ReportError(e) == ReportOnce(e)

(* The first request's ids stay.                                            *)
AttachCorrelation(e, ids) ==
    IF e.kind \in {"http", "sdk"} /\ e.ids = "none" THEN [e EXCEPT !.ids = ids] ELSE e

(* How an Error that fetch() threw ends up; any other value stays itself.   *)
Mapped(reason) == IF reason = "value" THEN "foreign" ELSE "sdk"

(* handleError(), with the ids of a request that went out.                  *)
Handled(e, issued) ==
    LET traced == IF issued THEN AttachCorrelation(e, "request") ELSE e IN
    IF e.kind = "foreign" THEN e ELSE ReportOnce(traced)

(* Mutant: a record for every call, also for one that never went out.       *)
RecordAll(r) == r.records + 1

(* The verb methods' finally.                                               *)
Recorded(r) == IF r.issued THEN r.records + 1 ELSE r.records

(* A method that has ended leaves nothing of its locals and signals.        *)
Ended(r, phase) ==
    [r EXCEPT !.phase = phase, !.attempts = 0, !.failed = FALSE, !.status = "none",
              !.caller = "none", !.cause = "none"]

(* The verb method throws, with the error e of call f.                      *)
Throws(c, r, f, e) ==
    /\ error' = [error EXCEPT ![f] = Handled(e, r.issued)]
    /\ call' = [call EXCEPT ![c] =
          [Ended(r, "thrown") EXCEPT !.failure = f, !.records = Recorded(r)]]

(* ... after the auth handler has emitted the error itself.                 *)
Emits(c, r, ids) == Throws(c, r, c, ReportOnce(Raised("sdk", ids)))

Resolves(c, r) ==
    /\ call' = [call EXCEPT ![c] = [Ended(r, "resolved") EXCEPT !.records = Recorded(r)]]
    /\ UNCHANGED error

-----------------------------------------------------------------------------
(* Sending.                                                                 *)

(* Under a signal aborted already, fetch() rejects and sends nothing.       *)
Sent(r, phase) ==
    [r EXCEPT !.phase = phase, !.sent = IF r.cause = "none" THEN @ + 1 ELSE @]

(* Mutant: the caller's signal is not looked at before it aborts.           *)
IssuedUnsignalled(r) ==
    Sent([r EXCEPT !.issued = TRUE, !.opened = @ + 1, !.attempts = 1,
                   !.cause = "none"], "fetching")

(* A request of the call goes out, under a new timeout signal.              *)
Issued(r) ==
    Sent([r EXCEPT !.issued = TRUE, !.opened = @ + 1, !.attempts = 1,
                   !.cause = r.caller], "fetching")

(* refresh(): the one that is running is joined.                            *)
Refresh(c, r, waiting) ==
    \/ /\ call' = [call EXCEPT ![c] = [r EXCEPT !.phase = waiting]]
       /\ flight' = IF flight = NoCall THEN c ELSE flight
       /\ UNCHANGED error
    \/ /\ flight = NoCall      \* no credentials to refresh with
       /\ Emits(c, r, "none")
       /\ UNCHANGED flight

(* injectAuth(): there is a token, or none to be had, or one to be fetched. *)
InjectAuth(c, r) ==
    \/ /\ call' = [call EXCEPT ![c] = Issued(r)]
       /\ UNCHANGED <<error, flight>>
    \/ Emits(c, r, "none") /\ UNCHANGED flight
    \/ Refresh(c, r, "refreshing")

(* An argument is refused before anything is sent.                          *)
RefuseArguments(c, kind) ==
    /\ call[c].phase = "idle"
    /\ error' = [error EXCEPT ![c] = Raised("sdk", "none")]
    /\ call' = [call EXCEPT ![c] = [NewCall EXCEPT !.kind = kind, !.phase = "thrown",
                                                   !.failure = c]]
    /\ UNCHANGED flight

CallVerb(c, kind) ==
    /\ call[c].phase = "idle"
    /\ kind \notin {"FORM", "CHARGE"}
    /\ InjectAuth(c, [NewCall EXCEPT !.kind = kind])

(* postForm(): a token request carries its own credentials.                 *)
CallForm(c) ==
    /\ call[c].phase = "idle"
    /\ call' = [call EXCEPT ![c] = Issued([NewCall EXCEPT !.kind = "FORM"])]
    /\ UNCHANGED <<error, flight>>

Continue(c) ==
    /\ call[c].phase = "refreshed"
    /\ \/ call' = [call EXCEPT ![c] = Issued(call[c])] /\ UNCHANGED error
       \/ Emits(c, call[c], "none")
    /\ UNCHANGED flight

-----------------------------------------------------------------------------
(* The refresh that calls share.                                            *)

WakeUp(granted, failure) ==
    [c \in Calls |->
        IF call[c].phase \notin Waiting THEN call[c]
        ELSE IF ~granted THEN [call[c] EXCEPT !.phase = "unrefreshed", !.failure = failure]
        ELSE IF call[c].phase = "refreshing" THEN [call[c] EXCEPT !.phase = "refreshed"]
        ELSE [call[c] EXCEPT !.phase = "refreshed401"]]

RefreshGranted ==
    /\ flight # NoCall
    /\ call' = WakeUp(TRUE, NoCall)
    /\ flight' = NoCall
    /\ UNCHANGED error

(* No token came, or one for a payment replaced meanwhile.                  *)
RefreshFails ==
    /\ flight # NoCall
    /\ \E ids \in {"token", "none"} :
          error' = [error EXCEPT ![flight] = ReportOnce(Raised("sdk", ids))]
    /\ call' = WakeUp(FALSE, flight)
    /\ flight' = NoCall

NotRefreshed(c) ==
    /\ call[c].phase = "unrefreshed"
    /\ Throws(c, call[c], call[c].failure, error[call[c].failure])
    /\ UNCHANGED flight

-----------------------------------------------------------------------------
(* fetchWithRetry().                                                        *)

(* A response for fetchAndHandle401(); a DELETE that worked has no body.    *)
Response(c, r, status) ==
    \/ /\ status # "ok" \/ r.kind # "DELETE"
       /\ call' = [call EXCEPT ![c] = [r EXCEPT !.phase = "reading", !.status = status]]
       /\ UNCHANGED error
    \/ /\ status = "ok" /\ r.kind = "DELETE"
       /\ Resolves(c, r)

(* Mutant: every method is repeated.                                        *)
RetriesAll(r) == r.kind # "FORM"

Retries(r) == Idempotent(r.kind)

(* A 5xx of a request that may be repeated, or a failure to reach GoPay.    *)
SleepOrEnd(c, r, reason) ==
    \/ /\ r.attempts <= MaxRetries
       /\ call' = [call EXCEPT ![c] = [r EXCEPT !.phase = "sleeping"]]
       /\ UNCHANGED error
    \/ /\ r.attempts > MaxRetries
       /\ r.failed
       /\ Response(c, r, "5xx")
    \/ /\ r.attempts > MaxRetries
       /\ ~r.failed
       /\ Throws(c, r, c, Raised(Mapped(reason), "none"))

Wake(c) ==
    /\ call[c].phase = "sleeping"
    /\ call' = [call EXCEPT ![c] = Sent([call[c] EXCEPT !.attempts = @ + 1], "fetching")]
    /\ UNCHANGED <<error, flight>>

FetchAnswered(c) ==
    /\ call[c].phase = "fetching"
    /\ call[c].cause = "none"
    /\ \/ \E status \in {"ok", "4xx"} : Response(c, call[c], status)
       \/ Retries(call[c]) /\ SleepOrEnd(c, [call[c] EXCEPT !.failed = TRUE], "none")
       \/ ~Retries(call[c]) /\ Response(c, call[c], "5xx")
       \/ call[c].kind = "FORM" /\ Response(c, [call[c] EXCEPT !.refused = TRUE], "refused")
    /\ UNCHANGED flight

(* GoPay has nothing to do with it, or the signal was aborted.              *)
FetchRejected(c) ==
    /\ call[c].phase = "fetching"
    /\ LET reason == IF call[c].cause = "none" THEN "error" ELSE call[c].cause IN
       \/ /\ reason = "abort" \/ ~Retries(call[c])
          /\ Throws(c, call[c], c, Raised(Mapped(reason), "none"))
       \/ /\ reason # "abort"
          /\ Retries(call[c])
          /\ SleepOrEnd(c, call[c], reason)
    /\ UNCHANGED flight

-----------------------------------------------------------------------------
(* fetchAndHandle401().                                                     *)

(* The payment was replaced, and this 401 says nothing about the new one;   *)
(* or a token is fetched.                                                   *)
Unauthorized(c) ==
    /\ call[c].phase = "fetching"
    /\ call[c].cause = "none"
    /\ call[c].kind # "FORM"
    /\ LET r == [call[c] EXCEPT !.refused = TRUE, !.status = "refused"] IN
       \/ Emits(c, r, "request") /\ UNCHANGED flight
       \/ Refresh(c, r, "refreshing401")

(* Mutant: the retry goes out under no signal.                              *)
SentUnsignalled(r) == [r EXCEPT !.phase = "refetching", !.sent = @ + 1]

Resent(r) == Sent(r, "refetching")

(* The token is there, or was dropped again and the 401 stands.             *)
Refetch(c) ==
    /\ call[c].phase = "refreshed401"
    /\ \/ call' = [call EXCEPT ![c] = Resent(call[c])]
       \/ call' = [call EXCEPT ![c].phase = "reading"]
    /\ UNCHANGED <<error, flight>>

RefetchAnswered(c) ==
    /\ call[c].phase = "refetching"
    /\ call[c].cause = "none"
    /\ \/ \E status \in {"ok", "4xx", "5xx"} : Response(c, call[c], status)
       \/ Emits(c, call[c], "request")
    /\ UNCHANGED flight

RefetchRejected(c) ==
    /\ call[c].phase = "refetching"
    /\ LET reason == IF call[c].cause = "none" THEN "error" ELSE call[c].cause IN
       Throws(c, call[c], c, Raised(Mapped(reason), "none"))
    /\ UNCHANGED flight

(* throwIfNotOk() and response.json(): read, or broken off.                 *)
BodyRead(c) ==
    /\ call[c].phase = "reading"
    /\ call[c].cause = "none"
    /\ \/ call[c].status = "ok" /\ Resolves(c, call[c])
       \/ call[c].status # "ok" /\ Throws(c, call[c], c, ReportOnce(Raised("http", "request")))
    /\ UNCHANGED flight

BodyBroken(c) ==
    /\ call[c].phase = "reading"
    /\ LET reason == IF call[c].cause = "none" THEN "error" ELSE call[c].cause IN
       Throws(c, call[c], c, Raised(Mapped(reason), "none"))
    /\ UNCHANGED flight

-----------------------------------------------------------------------------
(* A card charge: browser data first.                                       *)

CallCharge(c) ==
    /\ call[c].phase = "idle"
    /\ call' = [call EXCEPT ![c] = [NewCall EXCEPT !.kind = "CHARGE",
                                                   !.phase = "collecting", !.opened = 1]]
    /\ UNCHANGED <<error, flight>>

(* The endpoint is not there, and nobody gave the charge up.                *)
Tolerates(r) == r.status = "absent" /\ r.caller = "none"

(* fetchBrowserData() rejects, with the caller's own abort as it is.        *)
CollectFails(c, r, kind) ==
    LET given == r.caller # "none"
        raised == Raised(IF kind = "foreign" /\ ~given THEN "sdk" ELSE kind, "none") IN
    /\ error' = [error EXCEPT ![c] = IF given THEN raised
                                     ELSE AttachCorrelation(raised, "request")]
    /\ call' = [call EXCEPT ![c] = [Ended(r, "thrown") EXCEPT !.failure = c]]
    /\ UNCHANGED flight

CollectAnswered(c) ==
    /\ call[c].phase = "collecting"
    /\ call[c].cause = "none"
    /\ \E status \in {"ok", "absent", "4xx", "5xx"} :
          call' = [call EXCEPT ![c].phase = "detecting", ![c].status = status,
                               ![c].records = @ + 1]
    /\ UNCHANGED <<error, flight>>

CollectRejected(c) ==
    /\ call[c].phase = "collecting"
    /\ CollectFails(c, [call[c] EXCEPT !.records = @ + 1], "foreign")

(* The body is read; of an error's, as much as there is.                    *)
Collected(c) ==
    /\ call[c].phase = "detecting"
    /\ \/ call[c].status = "ok" /\ call[c].cause = "none"
       \/ Tolerates(call[c])
    /\ InjectAuth(c, [call[c] EXCEPT !.status = "none", !.cause = "none"])

NotCollected(c) ==
    /\ call[c].phase = "detecting"
    /\ ~Tolerates(call[c])
    /\ \/ call[c].status # "ok" /\ CollectFails(c, call[c], "http")
       \/ call[c].status = "ok" /\ \E kind \in {"sdk", "foreign"} : CollectFails(c, call[c], kind)

-----------------------------------------------------------------------------
(* What may happen at any time, and the wrapper around the API's methods.   *)

(* The caller's abort() of a call whose signal is aborted already matters   *)
(* to fetchBrowserData() alone.                                             *)
CallerAborts(c, reason) ==
    /\ call[c].phase \notin {"idle", "thrown"} \cup Settled
    /\ call[c].caller = "none"
    /\ call[c].cause = "none" \/ call[c].phase \in {"collecting", "detecting"}
    /\ call' = [call EXCEPT
          ![c].caller = reason,
          ![c].cause = IF call[c].phase \in UnderSignal /\ @ = "none" THEN reason ELSE @]
    /\ UNCHANGED <<error, flight>>

(* Mutant: the timer is cleared when the headers are there.                 *)
TimedUntilHeaders == UnderSignal \ {"reading"}

Timed == UnderSignal

TimerFires(c) ==
    /\ call[c].phase \in Timed
    /\ call[c].cause = "none"
    /\ call' = [call EXCEPT ![c].cause = "abort"]
    /\ UNCHANGED <<error, flight>>

(* reportErrors(): what the method threw is reported, if nobody has.        *)
Reject(c) ==
    /\ call[c].phase = "thrown"
    /\ error' = [error EXCEPT ![call[c].failure] = ReportError(@)]
    /\ call' = [call EXCEPT ![c].phase = "rejected"]
    /\ UNCHANGED flight

-----------------------------------------------------------------------------

Start(c) ==
    \/ \E kind \in Methods[c] : RefuseArguments(c, kind) \/ CallVerb(c, kind)
    \/ "FORM" \in Methods[c] /\ CallForm(c)
    \/ "CHARGE" \in Methods[c] /\ CallCharge(c)

(* What goes on by itself.                                                  *)
GoOn(c) ==
    \/ Continue(c) \/ NotRefreshed(c) \/ Wake(c) \/ Refetch(c) \/ Reject(c)
    \/ FetchAnswered(c) \/ FetchRejected(c) \/ Unauthorized(c)
    \/ RefetchAnswered(c) \/ RefetchRejected(c) \/ BodyRead(c) \/ BodyBroken(c)
    \/ CollectAnswered(c) \/ CollectRejected(c) \/ Collected(c) \/ NotCollected(c)

Next ==
    \/ \E c \in Calls :
          \/ Start(c) \/ GoOn(c) \/ TimerFires(c)
          \/ \E reason \in Reasons : CallerAborts(c, reason)
    \/ RefreshGranted \/ RefreshFails

Spec == Init /\ [][Next]_vars

(* GoPay need not answer.  A timer fires, what an aborted signal rejects is *)
(* rejected, and so is a token request, by a timer of its own.              *)
Fairness ==
    /\ \A c \in Calls :
          /\ WF_vars(TimerFires(c))
          /\ WF_vars(GoOn(c) /\ (call[c].cause = "none" => call[c].phase \notin UnderSignal))
          /\ WF_vars(Wake(c) \/ Refetch(c))
    /\ WF_vars(RefreshFails)

FairSpec == Spec /\ Fairness

-----------------------------------------------------------------------------
(* Properties.                                                              *)

(* fetch-with-retry.ts:31-45: a charge, a refund or a token request is sent *)
(* once, anything else three times at most; and once more only after GoPay  *)
(* refused the token it came with.                                          *)
SentOnce ==
    \A c \in Calls :
        call[c].sent <= (IF Idempotent(call[c].kind) THEN MaxRetries + 1 ELSE 1)
                            + (IF call[c].refused THEN 1 ELSE 0)

(* payments.module.ts:163-167, timeout-signal.ts:40-49: once the caller has *)
(* given a call up, or its time is over, no request of it goes out, not     *)
(* after a sleep, a refresh or the answer about browser data either.  (The  *)
(* time for browser data is not the charge's: a 404 whose body stalls is    *)
(* still a 404.)                                                            *)
StoppedSendsNothing ==
    [][\A c \in Calls :
          (\/ call[c].caller # "none"
           \/ call[c].cause # "none" /\ call[c].phase # "detecting")
              => call'[c].sent = call[c].sent]_vars

(* config.ts:15-16: onError hears of every error once, however many layers  *)
(* and calls it went through; and the telemetry has every failure once, as  *)
(* the record of an API call or, if it is no HTTP error, as an event of its *)
(* own, and every API call that went out once (client.ts:96-101, 383-390).  *)
ReportedOnce ==
    \A c \in Calls :
        /\ error[c].heard <= 1
        /\ call[c].phase \in Settled => call[c].records = call[c].opened
        /\ call[c].phase = "rejected" =>
              LET e == error[call[c].failure] IN
              /\ e.heard = 1
              /\ e.events = IF e.kind = "http" THEN 0 ELSE 1
              /\ e.kind = "http" => call[c].records > 0

(* timeout-signal.ts:19-21: every call ends, also when GoPay does not       *)
(* answer or stops in the middle of a body.                                 *)
CallsEnd == \A c \in Calls : call[c].phase # "idle" ~> call[c].phase \in Settled

(* What a reader may expect and TLC refutes.  fetch-with-retry.ts:36:       *)
(* "Timeouts and caller aborts are not retriable".  The two are known by    *)
(* the name of the error, and a caller's own reason has another.            *)
AbortBubblesUp ==
    [][\A c \in Calls :
          call[c].cause # "none" /\ call[c].phase = "fetching"
              => call'[c].phase # "sleeping"]_vars

(* auth-handler.ts:172: what fails after the request went out carries its   *)
(* ids before onError sees it.                                              *)
HeardWithIds ==
    \A c \in Calls : call[c].phase = "rejected" /\ call[c].issued =>
        error[call[c].failure].heardIds # "none"

=============================================================================
