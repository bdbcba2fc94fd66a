--------------------------- MODULE BrowserSession ---------------------------
(***************************************************************************)
(* The payment session of the browser SDK: attachPayment() and logout()    *)
(* (browser-sdk/src/gopay-browser-sdk.ts, modules/auth/auth.module.ts)     *)
(* over the shared HTTP client, with the API calls of the payment-scoped   *)
(* methods and the card-form-URL lookup running meanwhile.                 *)
(*                                                                         *)
(* attachPayment() is refused while a card form is mounted; this module    *)
(* leaves the form out, so it is about the time no form is.                *)
(***************************************************************************)
EXTENDS AuthHandler

VARIABLES
    attempt,      \* attachAttempt: bumped by every attach and logout
    attach,       \* attempt -> how far that attachPayment() has come
    paymentsApi,  \* the payment the payment-scoped methods are bound to
    attachedId    \* attachedPaymentId: the payment telemetry names

vars == <<store, call, flight, pending, attempt, attach, paymentsApi, attachedId>>
sessionVars == <<attempt, attach, paymentsApi, attachedId>>

(* exchanged and failed: the token call has ended and attachPayment()       *)
(* itself is still to continue.                                             *)
AttachPhases ==
    {"none", "exchanging", "exchanged", "failed", "resolved", "rejected"}

TypeOK ==
    /\ AuthTypeOK
    /\ attempt \in 0 .. MaxAttempts
    /\ attach \in [Attempts -> AttachPhases]
    /\ paymentsApi \in Principals
    /\ attachedId \in Principals

(* createGoPayBrowserSDK(): the client id is configuration.                 *)
Init ==
    /\ AuthInit(SetClientId(EmptyStore))
    /\ attempt = 0
    /\ attach = [a \in Attempts |-> "none"]
    /\ paymentsApi = None
    /\ attachedId = None

-----------------------------------------------------------------------------

(* Mutant: the exchange that answers last wins.                             *)
AlwaysCurrent(a) == TRUE

IsCurrent(a) == a = attempt

(* Mutant: the previous payment keeps its credentials.                      *)
ForgetTokenOnly(s) == ClearToken(s)

(* The previous payment goes first, credentials and token.                  *)
ForgetPrevious(s) == ClearToken(SetPaymentCredentials(s, None))

(* attachPayment() up to the await of its token call.                       *)
AttachPayment ==
    /\ attempt < MaxAttempts
    /\ attempt' = attempt + 1
    /\ paymentsApi' = None
    /\ attachedId' = attempt + 1
    /\ store' = ForgetPrevious(store)
    /\ attach' = [attach EXCEPT ![attempt + 1] = "exchanging"]
    /\ UNCHANGED <<call, flight, pending>>

ExchangeAnswered(a) ==
    /\ attach[a] = "exchanging"
    /\ attach' = [attach EXCEPT ![a] = "exchanged"]
    /\ store' = IF IsCurrent(a)
                THEN SetPaymentCredentials(SetToken(store, a), a)
                ELSE store
    /\ UNCHANGED <<call, flight, pending, attempt, paymentsApi, attachedId>>

(* An HTTP or network error, or a response without a token.                 *)
ExchangeFailed(a) ==
    /\ attach[a] = "exchanging"
    /\ attach' = [attach EXCEPT ![a] = "failed"]
    /\ UNCHANGED <<authVars, attempt, paymentsApi, attachedId>>

AttachContinues(a) ==
    /\ attach[a] = "exchanged"
    /\ IF IsCurrent(a)
       THEN /\ attach' = [attach EXCEPT ![a] = "resolved"]
            /\ paymentsApi' = a
       ELSE /\ attach' = [attach EXCEPT ![a] = "rejected"]
            /\ UNCHANGED paymentsApi
    /\ UNCHANGED <<authVars, attempt, attachedId>>

AttachThrows(a) ==
    /\ attach[a] = "failed"
    /\ attach' = [attach EXCEPT ![a] = "rejected"]
    /\ attachedId' = IF IsCurrent(a) THEN None ELSE attachedId
    /\ UNCHANGED <<authVars, attempt, paymentsApi>>

Detach ==
    attempt' = attempt + 1 /\ paymentsApi' = None /\ attachedId' = None

Logout ==
    /\ attempt < MaxAttempts
    /\ Detach
    /\ store' = Clear(store)
    /\ UNCHANGED <<call, flight, pending, attach>>

(* A payment-scoped method: it keeps the PaymentsApi it was called on, and  *)
(* may do something else (browser data, a poll's interval) before its       *)
(* request is built.                                                        *)
CallPayment(c) ==
    /\ call[c].phase = "idle"
    /\ paymentsApi # None
    /\ call' = [call EXCEPT ![c].phase = "held", ![c].owner = paymentsApi]
    /\ UNCHANGED <<store, flight, pending, sessionVars>>

(* getCardFormUrl(): brings its own Authorization header (the shareable     *)
(* key), so injectAuth leaves it alone.                                     *)
CallCardFormUrl(c) ==
    /\ call[c].phase = "idle"
    /\ call' = [call EXCEPT ![c].phase = "authorised"]
    /\ UNCHANGED <<store, flight, pending, sessionVars>>

-----------------------------------------------------------------------------

AttachContinuation(a) == AttachContinues(a) \/ AttachThrows(a)

AttachAnswer(a) == ExchangeAnswered(a) \/ ExchangeFailed(a)

(* No continuation is left to run: the event loop may take a task.          *)
Quiet == Drained /\ \A a \in Attempts : attach[a] \notin {"exchanged", "failed"}

HeldCallGoesOn(c) == Inject(c) /\ UNCHANGED sessionVars
CallContinues(c) == Continuation(c) /\ UNCHANGED sessionVars
RefreshAnswered(d) == Quiet /\ TokenAnswer(d) /\ UNCHANGED sessionVars
CallAnswered(c) == Quiet /\ CallAnswer(c) /\ UNCHANGED sessionVars
AttachAnswered(a) == Quiet /\ AttachAnswer(a)

Next ==
    \/ AttachPayment \/ Logout
    \/ \E a \in Attempts : AttachAnswered(a) \/ AttachContinuation(a)
    \/ \E c \in Calls :
          \/ CallPayment(c) \/ CallCardFormUrl(c) \/ HeldCallGoesOn(c)
          \/ CallContinues(c) \/ RefreshAnswered(c) \/ CallAnswered(c)

Spec == Init /\ [][Next]_vars

(* Every request has a timeout (timeout-signal.ts), so every answer comes;  *)
(* continuations run; and a task that is ready is taken in the end although *)
(* continuations keep it waiting time and again.                            *)
Fairness ==
    /\ \A a \in Attempts :
          WF_vars(AttachContinuation(a)) /\ SF_vars(AttachAnswered(a))
    /\ \A c \in Calls :
          /\ WF_vars(HeldCallGoesOn(c)) /\ WF_vars(CallContinues(c))
          /\ SF_vars(RefreshAnswered(c)) /\ SF_vars(CallAnswered(c))

FairSpec == Spec /\ Fairness

-----------------------------------------------------------------------------
(* Properties.                                                              *)

(* The client's credentials, its token, the payment-scoped methods and the  *)
(* payment that telemetry names are all the latest attach's, whatever older *)
(* exchanges and refreshes still land (gopay-browser-sdk.ts:102-106,        *)
(* auth-handler.ts:370-372).                                                *)
SessionAgrees ==
    /\ store.payment # None => store.payment = attempt
    /\ store.token # None => store.token = store.payment
    /\ paymentsApi # None => paymentsApi = attempt
    /\ attachedId # None => attachedId = attempt

(* After a logout, and after an attach that failed, nothing of any payment  *)
(* is left and nothing comes back (auth.module.ts:29-32 and 74-78).         *)
DetachedHoldsNothing ==
    attempt # 0 /\ attach[attempt] \in {"none", "rejected"} =>
        /\ store.token = None /\ store.payment = None
        /\ paymentsApi = None /\ attachedId = None

(* A request that went out while a payment was attached is retried with     *)
(* that payment's token or not at all (auth-handler.ts:161-163, 179-186).   *)
RetryOnOwnToken ==
    \A c \in Calls :
        call[c].phase = "retried" /\ call[c].payment # None =>
            call[c].header = call[c].payment

(* No authentication failure takes the client id, and none but a refusal of *)
(* the payment itself takes its credentials: the customer can go on paying  *)
(* (auth-handler.ts:83-89, 348-353).                                        *)
FailureCostsTheTokenOnly ==
    [][attempt' = attempt =>
          /\ store'.clientId = store.clientId
          /\ store.payment # None /\ store'.payment # store.payment =>
                \E d \in Calls :
                    RefreshRejected(d, TRUE) /\ flight[d].key = store.payment
      ]_vars

(* Every call and every attach settles: none waits for a refresh that       *)
(* nobody runs any more, none is retried for ever.                          *)
EverythingSettles ==
    /\ \A c \in Calls : call[c].phase # "idle" ~> call[c].phase = "idle"
    /\ \A a \in Attempts :
          attach[a] = "exchanging" ~> attach[a] \in {"resolved", "rejected"}

(* What PaymentSession promises is what this does.                          *)
Session == INSTANCE PaymentSession WITH
    latest <- attempt,
    open <- attempt # 0 /\ attach[attempt] = "exchanging",
    session <- store.payment,
    token <- store.token

ImplementsPaymentSession == Session!Spec

(* README.md:594 and auth-handler.ts:56-60: a call of a payment that was    *)
(* replaced is rejected, never sent with the newer payment's token.  It     *)
(* does not hold: injectAuth asks the store, not the payment of the call.   *)
SentOnOwnToken ==
    \A c \in Calls :
        call[c].phase \in {"sent", "retried"} /\ call[c].owner # None =>
            call[c].header \in {None, call[c].owner}

(* config.ts:11-16 and README.md:880: with a payment attached, the card     *)
(* form is given the client id to put into the encrypted payload.  It does  *)
(* not hold: logout() clears the client id, which only the constructor set. *)
AttachedHasClientId == paymentsApi # None => store.clientId

=============================================================================
