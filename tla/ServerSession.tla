---------------------------- MODULE ServerSession ----------------------------
(***************************************************************************)
(* The session of the server SDK: authenticate() and logout()              *)
(* (sdk/src/modules/auth/auth.module.ts) over the shared HTTP client, with *)
(* the API calls of a process that serves many requests at once.  There    *)
(* are no payment credentials here: every refresh runs under the key None. *)
(***************************************************************************)
EXTENDS AuthHandler

VARIABLES
    attempt,      \* number of authenticate() and logout() calls so far
    auth,         \* attempt -> how far that authenticate() has come
    dropped,      \* history: what made the SDK forget its credentials since
                  \* the last authenticate(), if anything did
    overlapped    \* history: authenticate() or logout() was called while an
                  \* authenticate or a refresh was still out

vars == <<store, call, flight, pending, attempt, auth, dropped, overlapped>>

AuthPhases == {"none", "exchanging", "done"}

TypeOK ==
    /\ AuthTypeOK
    /\ attempt \in 0 .. MaxAttempts
    /\ auth \in [Attempts -> AuthPhases]
    /\ dropped \in {"no", "logout", "failure"}
    /\ overlapped \in BOOLEAN

Init ==
    /\ AuthInit(EmptyStore)
    /\ attempt = 0
    /\ auth = [a \in Attempts |-> "none"]
    /\ dropped = "no"
    /\ overlapped = FALSE

-----------------------------------------------------------------------------

NothingOut ==
    /\ \A a \in Attempts : auth[a] # "exchanging"
    /\ \A d \in Calls : flight[d].phase = "idle"

ChangeSession ==
    /\ attempt < MaxAttempts
    /\ attempt' = attempt + 1
    /\ overlapped' = (overlapped \/ ~NothingOut)

(* authenticate() up to the await of its token call: the credentials are    *)
(* stored before they are known to be good.                                 *)
Authenticate ==
    /\ ChangeSession
    /\ auth' = [auth EXCEPT ![attempt + 1] = "exchanging"]
    /\ store' = SetClientSecret(store, attempt + 1)
    /\ dropped' = "no"
    /\ UNCHANGED <<call, flight, pending>>

(* The answer is stored as it comes, whatever happened meanwhile.           *)
Authenticated(a) ==
    /\ auth[a] = "exchanging"
    /\ auth' = [auth EXCEPT ![a] = "done"]
    /\ store' = SetToken(store, a)
    /\ UNCHANGED <<call, flight, pending, attempt, dropped, overlapped>>

AuthenticateFails(a) ==
    /\ auth[a] = "exchanging"
    /\ auth' = [auth EXCEPT ![a] = "done"]
    /\ UNCHANGED <<authVars, attempt, dropped, overlapped>>

Logout ==
    /\ ChangeSession
    /\ store' = Clear(store)
    /\ dropped' = "logout"
    /\ UNCHANGED <<call, flight, pending, auth>>

CallApi(c) ==
    /\ call[c].phase = "idle"
    /\ call' = [call EXCEPT ![c].phase = "held"]
    /\ UNCHANGED <<store, flight, pending, attempt, auth, dropped, overlapped>>

-----------------------------------------------------------------------------

(* An authentication failure took the credentials in this step.             *)
NoteDrop ==
    /\ dropped' = IF store.secret # None /\ store'.secret = None
                  THEN "failure" ELSE dropped
    /\ UNCHANGED <<attempt, auth, overlapped>>

HeldCallGoesOn(c) == Inject(c) /\ NoteDrop
CallContinues(c) == Continuation(c) /\ NoteDrop
RefreshAnswered(d) == Drained /\ TokenAnswer(d) /\ NoteDrop
CallAnswered(c) == Drained /\ CallAnswer(c) /\ NoteDrop
AuthAnswered(a) == Drained /\ (Authenticated(a) \/ AuthenticateFails(a))

Next ==
    \/ Authenticate \/ Logout
    \/ \E a \in Attempts : AuthAnswered(a)
    \/ \E c \in Calls :
          \/ CallApi(c) \/ HeldCallGoesOn(c)
          \/ CallContinues(c) \/ RefreshAnswered(c) \/ CallAnswered(c)

Spec == Init /\ [][Next]_vars

(* As in the browser: every request times out, every ready task is taken.   *)
Fairness ==
    /\ \A a \in Attempts : SF_vars(AuthAnswered(a))
    /\ \A c \in Calls :
          /\ WF_vars(HeldCallGoesOn(c)) /\ WF_vars(CallContinues(c))
          /\ SF_vars(RefreshAnswered(c)) /\ SF_vars(CallAnswered(c))

FairSpec == Spec /\ Fairness

-----------------------------------------------------------------------------
(* Properties.                                                              *)

(* As long as authenticate() and logout() waited for what was out, the      *)
(* token held with a client's credentials is that client's: no refresh or   *)
(* 401 of an earlier client reaches into the next one's session.            *)
TokenOfClient ==
    ~overlapped /\ store.token # None /\ store.secret # None =>
        store.token = store.secret

(* Every call and every authenticate() settles, overlapping or not.         *)
ServerSettles ==
    /\ \A c \in Calls : call[c].phase # "idle" ~> call[c].phase = "idle"
    /\ \A a \in Attempts : auth[a] = "exchanging" ~> auth[a] = "done"

(* auth.module.ts:73-77, README.md:191: after logout() all API calls throw  *)
(* until authenticate().  It does not hold: a refresh or an authenticate()  *)
(* that was out stores its token when it lands, and calls go out with it.   *)
LogoutIsFinal == dropped = "logout" => store.token = None

(* auth-handler.ts:83-86: after an authentication failure a server has      *)
(* forgotten its credentials and has to authenticate() again.  It does not  *)
(* hold: another call's refresh lands after the failure.                    *)
FailureIsFinal == dropped = "failure" => store.token = None

=============================================================================
