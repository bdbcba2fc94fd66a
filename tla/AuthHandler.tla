----------------------------- MODULE AuthHandler -----------------------------
(***************************************************************************)
(* How the HTTP client authorises a call, and what it does when the        *)
(* gateway answers 401 (internal/core/src/http/auth-handler.ts, with the   *)
(* verb methods of client.ts around it).  Browser and server share it:     *)
(* BrowserSession and ServerSession extend it with what each deployment    *)
(* does to the store.                                                      *)
(*                                                                         *)
(* A call is an async function, cut here where it awaits.  Calls is a set  *)
(* of slots: a slot is reused once its call has ended.  A refresh is named *)
(* by the call that started it, for a call starts no second one before the *)
(* first has settled; `pending' is the Map from payment credentials to the *)
(* promise of the refresh running for them.                                *)
(***************************************************************************)
EXTENDS TokenStore

CONSTANTS
    Calls,          \* slots for concurrent API calls
    NoCall,         \* no call: nothing pending, nobody waited for
    HasShareableKey \* whether the SDK was configured with a shareable key

ASSUME CallsAssumption == NoCall \notin Calls
ASSUME KeyAssumption == HasShareableKey \in BOOLEAN

VARIABLES
    store,          \* the token store
    call,           \* slot -> the call in it
    flight,         \* call -> the refresh it started
    pending         \* payment credentials or None -> who refreshes for them

authVars == <<store, call, flight, pending>>

(* held          the method was called; its request is still to be built     *)
(* refreshing    injectAuth awaits refresh()                                  *)
(* refreshed     ... which has resolved                                       *)
(* authorised    injectAuth is done, fetchAndHandle401 is about to run        *)
(* sent          the request is out                                           *)
(* refreshing401 its 401 was seen and refresh() is awaited                    *)
(* refreshed401  ... which has resolved                                       *)
(* retried       the retry is out                                             *)
CallPhases == {"idle", "held", "refreshing", "refreshed", "authorised", "sent",
               "refreshing401", "refreshed401", "retried"}

CallRecords ==
    [phase   : CallPhases,
     owner   : Principals,          \* payment the method was called for
     header  : Principals,          \* token in the request, None: another header
     payment : Principals,          \* `payment' of fetchAndHandle401
     wait    : Calls \cup {NoCall}] \* whose refresh is awaited

IdleCall == [phase |-> "idle", owner |-> None, header |-> None,
             payment |-> None, wait |-> NoCall]

FlightRecords ==
    [phase   : {"idle", "asking", "settled"},
     key     : Principals,          \* payment credentials it runs for
     grantee : Principals,          \* whose token the grant asks for
     ok      : BOOLEAN]             \* settled: resolved or rejected

IdleFlight == [phase |-> "idle", key |-> None, grantee |-> None, ok |-> FALSE]

AuthTypeOK ==
    /\ store \in Stores
    /\ call \in [Calls -> CallRecords]
    /\ flight \in [Calls -> FlightRecords]
    /\ pending \in [Principals -> Calls \cup {NoCall}]

AuthInit(s) ==
    /\ store = s
    /\ call = [c \in Calls |-> IdleCall]
    /\ flight = [c \in Calls |-> IdleFlight]
    /\ pending = [k \in Principals |-> NoCall]

-----------------------------------------------------------------------------
(* Promise continuations are microtasks: they run before the event loop     *)
(* takes its next task.  An answer from the network is a task, so it waits  *)
(* until no continuation is left; the page's own code may run in either.    *)

Drained ==
    /\ \A c \in Calls :
          call[c].phase \notin {"refreshed", "authorised", "refreshed401"}
    /\ \A d \in Calls : flight[d].phase # "settled"

-----------------------------------------------------------------------------
(* refresh() and doRefresh().                                               *)

(* Mutant: clear() whoever it is.                                           *)
DropEverything(s) == Clear(s)

(* A server (the only one with a client secret) forgets everything; a       *)
(* browser loses its token alone.                                           *)
DropAfterAuthFailure(s) == IF s.secret # None THEN Clear(s) ELSE ClearToken(s)

(* Whose token the grant would bring, None when there is nothing to ask with. *)
GrantFor(s) ==
    IF s.payment # None THEN s.payment
    ELSE IF s.clientId THEN s.secret ELSE None

(* Mutant: nobody looks whether the payment changed meanwhile.              *)
NeverReplaced(p) == FALSE

(* The exchange or request was for a payment attached no longer.            *)
Replaced(p) == p # None /\ store.payment # p

(* Mutant: every refresh() asks anew.                                       *)
NoRefreshShared(key) == FALSE

(* A refresh for these credentials is running.                              *)
RefreshRunning(key) == pending[key] # NoCall

(* Call c runs into refresh() and waits in phase `waiting': for the refresh *)
(* already pending for the credentials now held, or for one of its own.     *)
(* Without credentials doRefresh rejects before it awaits anything.         *)
JoinRefresh(c, waiting) ==
    /\ RefreshRunning(store.payment)
    /\ call' = [call EXCEPT ![c].phase = waiting,
                            ![c].wait = pending[store.payment]]
    /\ UNCHANGED <<store, flight, pending>>

NewFlight(key, grantee) ==
    [phase |-> IF grantee = None THEN "settled" ELSE "asking",
     key |-> key, grantee |-> grantee, ok |-> FALSE]

StartRefresh(c, waiting) ==
    /\ ~RefreshRunning(store.payment)
    /\ pending' = [pending EXCEPT ![store.payment] = c]
    /\ call' = [call EXCEPT ![c].phase = waiting, ![c].wait = c]
    /\ flight' = [flight EXCEPT ![c] = NewFlight(store.payment, GrantFor(store))]
    /\ store' = IF GrantFor(store) = None
                THEN DropAfterAuthFailure(store) ELSE store

Refresh(c, waiting) == JoinRefresh(c, waiting) \/ StartRefresh(c, waiting)

(* What the token endpoint's answer costs the store when it is no token:    *)
(* refused, for good (isPermanentRejection), or failed for now.             *)
AfterFailedRefresh(key, refused) ==
    IF key = None THEN Clear(store)
    ELSE IF refused THEN SetPaymentCredentials(ClearToken(store), None)
    ELSE ClearToken(store)

Settle(d, ok) ==
    flight' = [flight EXCEPT ![d].phase = "settled", ![d].ok = ok]

RefreshGranted(d) ==
    /\ flight[d].phase = "asking"
    /\ IF Replaced(flight[d].key)
       THEN Settle(d, FALSE) /\ UNCHANGED store
       ELSE Settle(d, TRUE) /\ store' = SetToken(store, flight[d].grantee)
    /\ UNCHANGED <<call, pending>>

RefreshRejected(d, refused) ==
    /\ flight[d].phase = "asking"
    /\ Settle(d, FALSE)
    /\ IF Replaced(flight[d].key)
       THEN UNCHANGED store
       ELSE store' = AfterFailedRefresh(flight[d].key, refused)
    /\ UNCHANGED <<call, pending>>

(* The `finally' of refresh(): the entry goes, the waiters continue.  A     *)
(* rejection ends the calls that waited for it.                             *)
RefreshFinally(d) ==
    /\ flight[d].phase = "settled"
    /\ pending' = [pending EXCEPT ![flight[d].key] = NoCall]
    /\ flight' = [flight EXCEPT ![d] = IdleFlight]
    /\ call' = [c \in Calls |->
          IF call[c].wait # d THEN call[c]
          ELSE IF ~flight[d].ok THEN IdleCall
          ELSE [call[c] EXCEPT !.wait = NoCall,
                   !.phase = IF @ = "refreshing" THEN "refreshed"
                             ELSE "refreshed401"]]
    /\ UNCHANGED store

-----------------------------------------------------------------------------
(* injectAuth().                                                            *)

End(c) == call' = [call EXCEPT ![c] = IdleCall]

(* The header is chosen from the store as it is now: the token, else the    *)
(* shareable key, else the call throws AUTH_TOKEN_MISSING.                  *)
ChooseHeader(c) ==
    /\ IF store.token = None /\ ~HasShareableKey
       THEN End(c)
       ELSE call' = [call EXCEPT ![c].phase = "authorised",
                                 ![c].header = store.token]
    /\ UNCHANGED <<store, flight, pending>>

(* Whether a held token is about to expire is the clock's choice.           *)
Inject(c) ==
    /\ call[c].phase = "held"
    /\ \/ /\ store.token = None => store.payment = None
          /\ ChooseHeader(c)
       \/ /\ store.token # None \/ store.payment # None
          /\ Refresh(c, "refreshing")

InjectRefreshed(c) ==
    /\ call[c].phase = "refreshed"
    /\ ChooseHeader(c)

-----------------------------------------------------------------------------
(* fetchAndHandle401().                                                     *)

Send(c) ==
    /\ call[c].phase = "authorised"
    /\ call' = [call EXCEPT ![c].phase = "sent", ![c].payment = store.payment]
    /\ UNCHANGED <<store, flight, pending>>

(* Any other answer, a network failure, the timeout or the caller's abort.  *)
Answered(c) ==
    /\ call[c].phase \in {"sent", "retried"}
    /\ End(c)
    /\ UNCHANGED <<store, flight, pending>>

Unauthorized(c) ==
    /\ call[c].phase = "sent"
    /\ IF Replaced(call[c].payment)
       THEN End(c) /\ UNCHANGED <<store, flight, pending>>
       ELSE Refresh(c, "refreshing401")

(* With no token after all, the caller gets the 401 itself.                 *)
Retry(c) ==
    /\ call[c].phase = "refreshed401"
    /\ IF store.token = None
       THEN End(c)
       ELSE call' = [call EXCEPT ![c].phase = "retried",
                                 ![c].header = store.token]
    /\ UNCHANGED <<store, flight, pending>>

(* Mutant: a retry that is refused is refreshed and retried in its turn.    *)
RetryAgain(c) ==
    /\ call[c].phase = "retried"
    /\ Refresh(c, "refreshing401")

RetryUnauthorized(c) ==
    /\ call[c].phase = "retried"
    /\ End(c)
    /\ store' = IF Replaced(call[c].payment) THEN store
                ELSE DropAfterAuthFailure(store)
    /\ UNCHANGED <<flight, pending>>

-----------------------------------------------------------------------------
(* The steps by who takes them: continuations, and answers from outside.    *)

Continuation(c) ==
    RefreshFinally(c) \/ InjectRefreshed(c) \/ Send(c) \/ Retry(c)

TokenAnswer(d) ==
    \/ RefreshGranted(d)
    \/ \E refused \in BOOLEAN : RefreshRejected(d, refused)

CallAnswer(c) == Answered(c) \/ Unauthorized(c) \/ RetryUnauthorized(c)

-----------------------------------------------------------------------------

(* However many calls find their token expired or refused, at most one      *)
(* exchange of the same credentials is out (auth-handler.ts:48-54).         *)
SingleRefresh ==
    \A c, d \in Calls :
        /\ flight[c].phase # "idle" /\ flight[d].phase # "idle"
        /\ flight[c].key = flight[d].key
        => c = d

=============================================================================
