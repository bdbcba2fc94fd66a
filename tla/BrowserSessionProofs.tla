------------------------ MODULE BrowserSessionProofs ------------------------
(***************************************************************************)
(* Proofs about the browser's payment session, for any number of calls and *)
(* of attach attempts.                                                     *)
(***************************************************************************)
EXTENDS BrowserSession, AuthHandlerProofs

(* A step of the HTTP client within the session.                            *)
ClientStep(c) ==
    \/ HeldCallGoesOn(c) \/ CallContinues(c)
    \/ RefreshAnswered(c) \/ CallAnswered(c)

-----------------------------------------------------------------------------
(* Type correctness.                                                        *)

LEMMA InitType == Init => TypeOK
<1> SUFFICES ASSUME Init PROVE TypeOK
  OBVIOUS
<1>1. store \in Stores
  BY DEF Init, AuthInit, SetClientId, EmptyStore, Stores, Principals, None
<1>2. IdleCall \in CallRecords /\ IdleFlight \in FlightRecords
  BY DEF IdleCall, IdleFlight, CallRecords, CallPhases, FlightRecords,
         Principals
<1>3. AuthTypeOK
  BY <1>1, <1>2 DEF Init, AuthInit, AuthTypeOK
<1>4. attempt \in 0 .. MaxAttempts
  BY MaxAttemptsAssumption DEF Init
<1> QED BY <1>3, <1>4 DEF Init, TypeOK, AttachPhases, Principals

LEMMA NextType == TypeOK /\ [Next]_vars => TypeOK'
<1> SUFFICES ASSUME TypeOK, [Next]_vars PROVE TypeOK'
  OBVIOUS
<1> USE DEF TypeOK
<1>0. attempt \in Nat /\ None \in Principals
  BY MaxAttemptsAssumption DEF Principals
<1>1. CASE AttachPayment
  <2>1. attempt + 1 \in Attempts /\ attempt + 1 \in Principals
    BY <1>0, <1>1, MaxAttemptsAssumption DEF AttachPayment, Attempts, Principals
  <2>2. store' \in Stores
    BY <1>0, <1>1, StoreOperators
    DEF AttachPayment, ForgetPrevious, AuthTypeOK
  <2>3. attempt' \in 0 .. MaxAttempts
    BY <1>0, <1>1, MaxAttemptsAssumption DEF AttachPayment
  <2>4. attach' \in [Attempts -> AttachPhases]
    BY <1>1, <2>1 DEF AttachPayment, AttachPhases
  <2> QED BY <1>0, <1>1, <2>1, <2>2, <2>3, <2>4
          DEF AttachPayment, AuthTypeOK
<1>2. CASE Logout
  <2>1. attempt' \in 0 .. MaxAttempts
    BY <1>0, <1>2, MaxAttemptsAssumption DEF Logout, Detach
  <2>2. store' \in Stores
    BY <1>0, <1>2, StoreOperators DEF Logout, AuthTypeOK
  <2> QED BY <1>0, <1>2, <2>1, <2>2 DEF Logout, Detach, AuthTypeOK
<1>3. ASSUME NEW a \in Attempts, AttachAnswered(a) \/ AttachContinuation(a)
      PROVE  TypeOK'
  <2>1. a \in Principals
    BY DEF Principals
  <2>2. CASE ExchangeAnswered(a)
    <3>1. store' \in Stores
      BY <2>1, <2>2, StoreOperators DEF ExchangeAnswered, AuthTypeOK
    <3> QED BY <2>2, <3>1 DEF ExchangeAnswered, AuthTypeOK, AttachPhases
  <2>3. CASE ExchangeFailed(a)
    BY <2>3 DEF ExchangeFailed, AuthTypeOK, authVars, AttachPhases
  <2>4. CASE AttachContinues(a)
    BY <2>1, <2>4 DEF AttachContinues, AuthTypeOK, authVars, AttachPhases
  <2>5. CASE AttachThrows(a)
    BY <1>0, <2>5 DEF AttachThrows, AuthTypeOK, authVars, AttachPhases
  <2> QED BY <1>3, <2>2, <2>3, <2>4, <2>5
          DEF AttachAnswered, AttachAnswer, AttachContinuation
<1>4. ASSUME NEW c \in Calls, CallPayment(c) \/ CallCardFormUrl(c)
      PROVE  TypeOK'
  <2>1. call' \in [Calls -> CallRecords]
    BY <1>4 DEF CallPayment, CallCardFormUrl, AuthTypeOK, CallRecords, CallPhases
  <2> QED BY <1>4, <2>1
          DEF CallPayment, CallCardFormUrl, sessionVars, AuthTypeOK
<1>5. ASSUME NEW c \in Calls, ClientStep(c)
      PROVE  TypeOK'
  BY <1>5, ClientType DEF ClientStep, HeldCallGoesOn, CallContinues,
     RefreshAnswered, CallAnswered, sessionVars
<1>6. CASE UNCHANGED vars
  BY <1>6 DEF vars, AuthTypeOK
<1> QED BY <1>1, <1>2, <1>3, <1>4, <1>5, <1>6 DEF Next, ClientStep

(* Every variable of the browser session keeps its type.                    *)
THEOREM TypeCorrect == Spec => []TypeOK
BY InitType, NextType, PTL DEF Spec

-----------------------------------------------------------------------------
(* The session.                                                             *)

(* A browser holds no client secret, so a refresh that asks for a token     *)
(* asks for that of the payment it runs for.                                *)
PaymentGrantsOnly ==
    /\ store.secret = None
    /\ \A d \in Calls : flight[d].phase = "asking" =>
          flight[d].key # None /\ flight[d].grantee = flight[d].key

(* What attachPayment() has left where, while it runs.                      *)
AttachInProgress ==
    \A a \in Attempts :
        /\ a > attempt => attach[a] = "none"
        /\ a = attempt =>
              /\ attach[a] \in {"exchanging", "exchanged", "failed"} =>
                    attachedId = attempt
              /\ attach[a] \in {"none", "rejected"} => attachedId = None
              /\ attach[a] # "resolved" => paymentsApi = None
              /\ attach[a] \notin {"exchanged", "resolved"} =>
                    store.payment = None

SessionInv == TypeOK /\ PaymentGrantsOnly /\ AttachInProgress /\ SessionAgrees

(* All that the HTTP client may do to the store of a browser.               *)
LEMMA ClientStepStore ==
    ASSUME TypeOK, PaymentGrantsOnly, NEW c \in Calls, ClientStep(c)
    PROVE  /\ UNCHANGED sessionVars
           /\ \/ store' = store
              \/ store' = ClearToken(store)
              \/ store.payment # None /\ store' = SetToken(store, store.payment)
              \/ store' = SetPaymentCredentials(ClearToken(store), None)
<1>1. UNCHANGED sessionVars
  BY DEF ClientStep, HeldCallGoesOn, CallContinues, RefreshAnswered, CallAnswered
<1>2. DropAfterAuthFailure(store) = ClearToken(store)
  BY DEF PaymentGrantsOnly, DropAfterAuthFailure
<1>3. ASSUME NEW w, Refresh(c, w) PROVE store' = store \/ store' = ClearToken(store)
  BY <1>2, <1>3 DEF Refresh, JoinRefresh, StartRefresh
<1>4. CASE HeldCallGoesOn(c)
  BY <1>1, <1>3, <1>4 DEF HeldCallGoesOn, Inject, ChooseHeader
<1>5. CASE CallContinues(c)
  BY <1>1, <1>5 DEF CallContinues, Continuation, RefreshFinally,
     InjectRefreshed, ChooseHeader, Send, Retry
<1>6. CASE RefreshAnswered(c)
  <2>1. CASE RefreshGranted(c)
    BY <1>1, <2>1 DEF RefreshGranted, PaymentGrantsOnly, Replaced
  <2>2. ASSUME NEW refused \in BOOLEAN, RefreshRejected(c, refused)
        PROVE  \/ store' = store
               \/ store' = ClearToken(store)
               \/ store' = SetPaymentCredentials(ClearToken(store), None)
    BY <2>2 DEF RefreshRejected, AfterFailedRefresh, PaymentGrantsOnly
  <2> QED BY <1>1, <1>6, <2>1, <2>2 DEF RefreshAnswered, TokenAnswer
<1>7. CASE CallAnswered(c)
  BY <1>1, <1>2, <1>3, <1>7
  DEF CallAnswered, CallAnswer, Answered, Unauthorized, RetryUnauthorized
<1> QED BY <1>4, <1>5, <1>6, <1>7 DEF ClientStep

(* A refresh is started for what is held, and asks for nothing else later.  *)
LEMMA ClientStepGrants ==
    ASSUME TypeOK, PaymentGrantsOnly, NEW c \in Calls, ClientStep(c)
    PROVE  PaymentGrantsOnly'
<1> USE DEF PaymentGrantsOnly
<1>1. store'.secret = None
  BY ClientStepStore DEF ClearToken, SetToken, SetPaymentCredentials,
     TypeOK, AuthTypeOK, Stores
<1>2. GrantFor(store) = store.payment
  BY DEF GrantFor, None
<1>3. flight \in [Calls -> FlightRecords]
  BY DEF TypeOK, AuthTypeOK
<1>4. ASSUME NEW w, Refresh(c, w) PROVE PaymentGrantsOnly'
  <2>1. CASE JoinRefresh(c, w)
    BY <1>1, <2>1 DEF JoinRefresh
  <2>2. CASE StartRefresh(c, w)
    BY <1>1, <1>2, <1>3, <2>2 DEF StartRefresh, NewFlight
  <2> QED BY <1>4, <2>1, <2>2 DEF Refresh
<1>5. CASE flight' = flight
  BY <1>1, <1>5
<1>6. CASE RefreshFinally(c)
  BY <1>1, <1>3, <1>6 DEF RefreshFinally, IdleFlight
<1>7. ASSUME NEW ok, Settle(c, ok) PROVE PaymentGrantsOnly'
  BY <1>1, <1>3, <1>7 DEF Settle, FlightRecords
<1>8. CASE HeldCallGoesOn(c)
  BY <1>4, <1>5, <1>8 DEF HeldCallGoesOn, Inject, ChooseHeader
<1>9. CASE CallContinues(c)
  BY <1>5, <1>6, <1>9 DEF CallContinues, Continuation,
     InjectRefreshed, ChooseHeader, Send, Retry
<1>10. CASE RefreshAnswered(c)
  BY <1>7, <1>10
  DEF RefreshAnswered, TokenAnswer, RefreshGranted, RefreshRejected
<1>11. CASE CallAnswered(c)
  BY <1>4, <1>5, <1>11
  DEF CallAnswered, CallAnswer, Answered, Unauthorized, RetryUnauthorized
<1> QED BY <1>8, <1>9, <1>10, <1>11 DEF ClientStep

LEMMA SessionInit == Init => SessionInv
<1> SUFFICES ASSUME Init PROVE SessionInv
  OBVIOUS
<1>1. TypeOK
  BY InitType
<1>2. PaymentGrantsOnly
  BY DEF Init, AuthInit, SetClientId, EmptyStore, IdleFlight, PaymentGrantsOnly
<1>3. AttachInProgress
  BY MaxAttemptsAssumption DEF Init, AuthInit, SetClientId, EmptyStore,
     AttachInProgress, Attempts, None
<1>4. SessionAgrees
  BY DEF Init, AuthInit, SetClientId, EmptyStore, SessionAgrees, None
<1> QED BY <1>1, <1>2, <1>3, <1>4 DEF SessionInv

LEMMA SessionNext == SessionInv /\ [Next]_vars => SessionInv'
<1> SUFFICES ASSUME SessionInv, [Next]_vars PROVE SessionInv'
  OBVIOUS
<1>1. TypeOK /\ PaymentGrantsOnly /\ AttachInProgress /\ SessionAgrees
  BY DEF SessionInv
<1>2. TypeOK'
  BY <1>1, NextType
<1>3. /\ attempt \in Nat
      /\ attach \in [Attempts -> AttachPhases]
      /\ store \in Stores
  BY <1>1, MaxAttemptsAssumption DEF TypeOK, AuthTypeOK
<1> SUFFICES PaymentGrantsOnly' /\ AttachInProgress' /\ SessionAgrees'
  BY <1>2 DEF SessionInv
<1>4. CASE AttachPayment
  <2>1. PaymentGrantsOnly'
    BY <1>1, <1>3, <1>4 DEF AttachPayment, ForgetPrevious, ClearToken,
       SetPaymentCredentials, PaymentGrantsOnly, Stores
  <2>2. AttachInProgress'
    BY <1>1, <1>3, <1>4 DEF AttachPayment, ForgetPrevious, ClearToken,
       SetPaymentCredentials, AttachInProgress, Attempts, Stores
  <2>3. SessionAgrees'
    BY <1>3, <1>4 DEF AttachPayment, ForgetPrevious, ClearToken,
       SetPaymentCredentials, SessionAgrees, Stores
  <2> QED BY <2>1, <2>2, <2>3
<1>5. CASE Logout
  <2>1. PaymentGrantsOnly'
    BY <1>1, <1>5 DEF Logout, Clear, EmptyStore, PaymentGrantsOnly
  <2>2. AttachInProgress'
    BY <1>1, <1>3, <1>5 DEF Logout, Detach, Clear, EmptyStore,
       AttachInProgress, Attempts
  <2>3. SessionAgrees'
    BY <1>5 DEF Logout, Detach, Clear, EmptyStore, SessionAgrees
  <2> QED BY <2>1, <2>2, <2>3
<1>6. ASSUME NEW a \in Attempts, ExchangeAnswered(a)
      PROVE  PaymentGrantsOnly' /\ AttachInProgress' /\ SessionAgrees'
  <2>1. a \in Nat /\ a # None
    BY MaxAttemptsAssumption DEF Attempts, None
  <2>2. PaymentGrantsOnly'
    BY <1>1, <1>3, <1>6 DEF ExchangeAnswered, SetPaymentCredentials, SetToken,
       PaymentGrantsOnly, Stores
  <2>3. AttachInProgress'
    BY <1>1, <1>3, <1>6 DEF ExchangeAnswered, IsCurrent,
       SetPaymentCredentials, SetToken, AttachInProgress, Stores
  <2>4. SessionAgrees'
    BY <1>1, <1>3, <1>6, <2>1 DEF ExchangeAnswered, IsCurrent,
       SetPaymentCredentials, SetToken, SessionAgrees, Stores
  <2> QED BY <2>2, <2>3, <2>4
<1>7. ASSUME NEW a \in Attempts, ExchangeFailed(a) \/ AttachContinuation(a)
      PROVE  PaymentGrantsOnly' /\ AttachInProgress' /\ SessionAgrees'
  <2>1. PaymentGrantsOnly'
    BY <1>1, <1>7 DEF ExchangeFailed, AttachContinuation, AttachContinues,
       AttachThrows, authVars, PaymentGrantsOnly
  <2>2. AttachInProgress'
    BY <1>1, <1>3, <1>7 DEF ExchangeFailed, AttachContinuation,
       AttachContinues, AttachThrows, IsCurrent, authVars, AttachInProgress
  <2>3. CASE ExchangeFailed(a)
    BY <1>1, <2>1, <2>2, <2>3 DEF ExchangeFailed, authVars, SessionAgrees
  <2>4. CASE AttachContinues(a)
    BY <1>1, <2>1, <2>2, <2>4
    DEF AttachContinues, IsCurrent, AttachInProgress, authVars, SessionAgrees
  <2>5. CASE AttachThrows(a)
    BY <1>1, <2>1, <2>2, <2>5
    DEF AttachThrows, IsCurrent, AttachInProgress, authVars, SessionAgrees
  <2> QED BY <1>7, <2>3, <2>4, <2>5 DEF AttachContinuation
<1>8. ASSUME NEW c \in Calls, CallPayment(c) \/ CallCardFormUrl(c)
      PROVE  PaymentGrantsOnly' /\ AttachInProgress' /\ SessionAgrees'
  BY <1>1, <1>8 DEF CallPayment, CallCardFormUrl, sessionVars,
     PaymentGrantsOnly, AttachInProgress, SessionAgrees
<1>9. ASSUME NEW c \in Calls, ClientStep(c)
      PROVE  PaymentGrantsOnly' /\ AttachInProgress' /\ SessionAgrees'
  <2>1. AttachInProgress'
    BY <1>1, <1>3, <1>9, ClientStepStore
    DEF sessionVars, AttachInProgress, ClearToken, SetToken,
        SetPaymentCredentials, Stores
  <2>2. SessionAgrees'
    BY <1>1, <1>3, <1>9, ClientStepStore
    DEF sessionVars, SessionAgrees, ClearToken, SetToken,
        SetPaymentCredentials, Stores
  <2> QED BY <1>1, <1>9, <2>1, <2>2, ClientStepGrants
<1>10. CASE UNCHANGED vars
  BY <1>1, <1>10 DEF vars, PaymentGrantsOnly, AttachInProgress, SessionAgrees
<1> QED BY <1>4, <1>5, <1>6, <1>7, <1>8, <1>9, <1>10
        DEF Next, ClientStep, AttachAnswered, AttachAnswer

LEMMA SessionInvariant == Spec => []SessionInv
BY SessionInit, SessionNext, PTL DEF Spec

(* At any time the client's credentials, its token, the payment-scoped      *)
(* methods and telemetry's payment are those of the latest attach.          *)
THEOREM SessionAgreement == Spec => []SessionAgrees
<1>1. SessionInv => SessionAgrees
  BY DEF SessionInv
<1> QED BY <1>1, SessionInvariant, PTL

(* Nothing of a payment outlives its logout or a failed attach.             *)
THEOREM Detachment == Spec => []DetachedHoldsNothing
<1>1. SessionInv => DetachedHoldsNothing
  BY MaxAttemptsAssumption
  DEF SessionInv, TypeOK, AttachInProgress, SessionAgrees,
      DetachedHoldsNothing, Attempts, None
<1> QED BY <1>1, SessionInvariant, PTL

-----------------------------------------------------------------------------
(* The refinement.                                                          *)

LEMMA SessionInitMaps == Init => Session!Init
BY DEF Init, AuthInit, SetClientId, EmptyStore, None, Session!Init

(* Each step is one of the abstract session's, or leaves it as it is.       *)
LEMMA SessionStepMaps == SessionInv /\ [Next]_vars => [Session!Next]_Session!vars
<1> SUFFICES ASSUME SessionInv, [Next]_vars
             PROVE  Session!Next \/ UNCHANGED Session!vars
  OBVIOUS
<1>1. TypeOK /\ PaymentGrantsOnly /\ AttachInProgress /\ SessionAgrees
  BY DEF SessionInv
<1>2. /\ attempt \in 0 .. MaxAttempts
      /\ attach \in [Attempts -> AttachPhases]
      /\ store \in Stores
  BY <1>1 DEF TypeOK, AuthTypeOK
<1> USE MaxAttemptsAssumption DEF None
<1>3. CASE AttachPayment
  <2>1. Session!Supersede(TRUE)
    BY <1>2, <1>3 DEF AttachPayment, ForgetPrevious, ClearToken,
       SetPaymentCredentials, Stores, Attempts, Session!Supersede
  <2> QED BY <2>1 DEF Session!Next
<1>4. CASE Logout
  <2>1. Session!Supersede(FALSE)
    BY <1>1, <1>2, <1>4 DEF Logout, Detach, Clear, EmptyStore,
       AttachInProgress, Attempts, Session!Supersede
  <2> QED BY <2>1 DEF Session!Next
<1>5. ASSUME NEW a \in Attempts, ExchangeAnswered(a)
      PROVE  Session!Next \/ UNCHANGED Session!vars
  <2>1. CASE a = attempt
    <3>1. Session!Attach
      BY <1>2, <1>5, <2>1 DEF ExchangeAnswered, IsCurrent, SetToken,
         SetPaymentCredentials, Stores, Attempts, Session!Attach
    <3> QED BY <3>1 DEF Session!Next
  <2>2. CASE a # attempt
    BY <1>2, <1>5, <2>2 DEF ExchangeAnswered, IsCurrent, Session!vars
  <2> QED BY <2>1, <2>2
<1>6. ASSUME NEW a \in Attempts, ExchangeFailed(a)
      PROVE  Session!Next \/ UNCHANGED Session!vars
  <2>1. CASE a = attempt
    <3>1. Session!AttachFails
      BY <1>2, <1>6, <2>1
      DEF ExchangeFailed, authVars, Attempts, Session!AttachFails
    <3> QED BY <3>1 DEF Session!Next
  <2>2. CASE a # attempt
    BY <1>2, <1>6, <2>2 DEF ExchangeFailed, authVars, Session!vars
  <2> QED BY <2>1, <2>2
<1>7. ASSUME NEW a \in Attempts, AttachContinuation(a)
      PROVE  UNCHANGED Session!vars
  <2>1. UNCHANGED <<attempt, store>>
    BY <1>7 DEF AttachContinuation, AttachContinues, AttachThrows, authVars
  <2>2. (attempt # 0 /\ attach[attempt] = "exchanging")
           = (attempt # 0 /\ attach[attempt] = "exchanging")'
    BY <1>2, <1>7, <2>1
    DEF AttachContinuation, AttachContinues, AttachThrows, Attempts
  <2> QED BY <2>1, <2>2 DEF Session!vars
<1>8. ASSUME NEW c \in Calls, CallPayment(c) \/ CallCardFormUrl(c)
      PROVE  UNCHANGED Session!vars
  BY <1>8 DEF CallPayment, CallCardFormUrl, sessionVars, Session!vars
<1>9. ASSUME NEW c \in Calls, ClientStep(c)
      PROVE  Session!Next \/ UNCHANGED Session!vars
  <2>1. UNCHANGED sessionVars
    BY <1>1, <1>9, ClientStepStore
  <2>2. CASE store' = store
    BY <2>1, <2>2 DEF sessionVars, Session!vars
  <2>3. CASE store' = ClearToken(store)
    <3>1. Session!LoseToken
      BY <1>2, <2>1, <2>3 DEF sessionVars, ClearToken, Stores, Session!LoseToken
    <3> QED BY <3>1 DEF Session!Next
  <2>4. CASE store.payment # None /\ store' = SetToken(store, store.payment)
    <3>1. Session!RenewToken
      BY <1>2, <2>1, <2>4 DEF sessionVars, SetToken, Stores, Session!RenewToken
    <3> QED BY <3>1 DEF Session!Next
  <2>5. CASE store' = SetPaymentCredentials(ClearToken(store), None)
    <3>1. Session!Refuse
      BY <1>2, <2>1, <2>5 DEF sessionVars, ClearToken, SetPaymentCredentials,
         Stores, Session!Refuse
    <3> QED BY <3>1 DEF Session!Next
  <2> QED BY <1>1, <1>9, <2>2, <2>3, <2>4, <2>5, ClientStepStore
<1>10. CASE UNCHANGED vars
  BY <1>10 DEF vars, Session!vars
<1> QED BY <1>3, <1>4, <1>5, <1>6, <1>7, <1>8, <1>9, <1>10
        DEF Next, ClientStep, AttachAnswered, AttachAnswer

(* The browser's session implements what PaymentSession promises.           *)
THEOREM Implementation == Spec => ImplementsPaymentSession
BY SessionInvariant, SessionInitMaps, SessionStepMaps, PTL
DEF Spec, ImplementsPaymentSession, Session!Spec

-----------------------------------------------------------------------------
(* Refreshes and the retry of a request.                                    *)

LEMMA WaitInit == Init => WaitInv
BY DEF Init, AuthInit, IdleCall, IdleFlight, WaitInv, Waiting

LEMMA WaitNext == TypeOK /\ WaitInv /\ [Next]_vars => WaitInv'
<1> SUFFICES ASSUME TypeOK, WaitInv, [Next]_vars PROVE WaitInv'
  OBVIOUS
<1> USE DEF TypeOK
<1>1. CASE UNCHANGED <<call, flight, pending>>
  BY <1>1 DEF WaitInv, Waiting
<1>2. ASSUME NEW c \in Calls, CallPayment(c) \/ CallCardFormUrl(c)
      PROVE  WaitInv'
  <2>1. ~Waiting(c) /\ ~Waiting(c)' /\ call'[c].wait = NoCall
    BY <1>2 DEF CallPayment, CallCardFormUrl, Waiting, WaitInv,
       AuthTypeOK, CallRecords
  <2>2. \A d \in Calls : d # c => call'[d] = call[d]
    BY <1>2 DEF CallPayment, CallCardFormUrl, AuthTypeOK
  <2> QED BY <1>2, <2>1, <2>2, WaitUnaffected
          DEF CallPayment, CallCardFormUrl
<1>3. ASSUME NEW c \in Calls, ClientStep(c)
      PROVE  WaitInv'
  BY <1>3, WaitStep DEF ClientStep, HeldCallGoesOn, CallContinues,
     RefreshAnswered, CallAnswered
<1> QED BY <1>1, <1>2, <1>3
        DEF Next, ClientStep, AttachPayment, Logout, AttachAnswered,
            AttachAnswer, AttachContinuation, ExchangeAnswered,
            ExchangeFailed, AttachContinues, AttachThrows, authVars, vars

LEMMA WaitInvariant == Spec => [](TypeOK /\ WaitInv)
BY InitType, NextType, WaitInit, WaitNext, PTL DEF Spec

(* At most one exchange of the same payment's credentials is ever out.      *)
THEOREM OneRefresh == Spec => []SingleRefresh
<1>1. TypeOK /\ WaitInv => SingleRefresh
  BY DEF WaitInv, SingleRefresh
<1> QED BY <1>1, WaitInvariant, PTL

(* Between a refresh that brought a token and the retry it was for, no      *)
(* other payment's token can get into the store: an attach may begin there, *)
(* but its answer is a task, and these are continuations.                   *)
OwnTokenInv ==
    /\ \A d \in Calls :
          flight[d].phase = "settled" /\ flight[d].ok /\ flight[d].key # None =>
             store.payment \in {None, flight[d].key}
    /\ \A c \in Calls :
          call[c].phase = "refreshed401" /\ call[c].payment # None =>
             store.payment \in {None, call[c].payment}
    /\ RetryOnOwnToken

LEMMA OwnTokenInit == Init => OwnTokenInv
BY DEF Init, AuthInit, IdleCall, IdleFlight, OwnTokenInv, RetryOnOwnToken

LEMMA OwnTokenNext == SessionInv /\ WaitInv /\ OwnTokenInv /\ [Next]_vars => OwnTokenInv'
<1> SUFFICES ASSUME SessionInv, WaitInv, OwnTokenInv, [Next]_vars
             PROVE  OwnTokenInv'
  OBVIOUS
<1>1. /\ TypeOK /\ PaymentGrantsOnly /\ SessionAgrees
      /\ store \in Stores
      /\ call \in [Calls -> CallRecords]
      /\ flight \in [Calls -> FlightRecords]
  BY DEF SessionInv, TypeOK, AuthTypeOK
<1> USE <1>1 DEF OwnTokenInv, RetryOnOwnToken
(* A step that takes no call further and at most detaches the payment.      *)
<1>2. ASSUME UNCHANGED <<call, flight>>,
             store'.payment \in {None, store.payment}
      PROVE  OwnTokenInv'
  BY <1>2
<1>3. CASE AttachPayment
  BY <1>2, <1>3 DEF AttachPayment, ForgetPrevious, ClearToken,
     SetPaymentCredentials, Stores
<1>4. CASE Logout
  BY <1>2, <1>4 DEF Logout, Clear, EmptyStore
<1>5. ASSUME NEW a \in Attempts, AttachAnswered(a)
      PROVE  OwnTokenInv'
  <2>1. CASE ExchangeFailed(a)
    BY <1>2, <2>1 DEF ExchangeFailed, authVars
  <2>2. CASE ExchangeAnswered(a)
    BY <1>5, <2>2 DEF ExchangeAnswered, AttachAnswered, Quiet, Drained
  <2> QED BY <1>5, <2>1, <2>2 DEF AttachAnswered, AttachAnswer
<1>6. ASSUME NEW a \in Attempts, AttachContinuation(a)
      PROVE  OwnTokenInv'
  BY <1>2, <1>6 DEF AttachContinuation, AttachContinues, AttachThrows, authVars
<1>7. ASSUME NEW c \in Calls, CallPayment(c) \/ CallCardFormUrl(c)
      PROVE  OwnTokenInv'
  BY <1>7 DEF CallPayment, CallCardFormUrl, CallRecords
<1>8. ASSUME NEW c \in Calls, ClientStep(c)
      PROVE  OwnTokenInv'
  <2>1. store'.payment \in {None, store.payment}
    BY <1>8, ClientStepStore
    DEF ClearToken, SetToken, SetPaymentCredentials, Stores
  (* Only one call moves, and not to where the invariant says anything.     *)
  <2>2. ASSUME call'[c].phase \notin {"refreshed401", "retried"},
               \A d \in Calls : d # c => call'[d] = call[d],
               \A d \in Calls : flight'[d].phase = "settled" /\ flight'[d].ok
                  => flight'[d] = flight[d]
        PROVE  OwnTokenInv'
    BY <2>1, <2>2
  <2>3. ASSUME End(c), flight' = flight PROVE OwnTokenInv'
    BY <2>2, <2>3 DEF End, IdleCall
  <2>4. ASSUME NEW w \in {"refreshing", "refreshing401"}, Refresh(c, w)
        PROVE  OwnTokenInv'
    <3>1. /\ call'[c].phase = w
          /\ \A d \in Calls : d # c => call'[d] = call[d]
      BY <2>4 DEF Refresh, JoinRefresh, StartRefresh, CallRecords
    <3>2. \A d \in Calls : flight'[d].phase = "settled" /\ flight'[d].ok
             => flight'[d] = flight[d]
      BY <2>4 DEF Refresh, JoinRefresh, StartRefresh, NewFlight
    <3> QED BY <2>2, <3>1, <3>2
  <2>5. ASSUME ChooseHeader(c) PROVE OwnTokenInv'
    <3>1. CASE End(c)
      BY <2>3, <2>5, <3>1 DEF ChooseHeader
    <3>2. CASE ~End(c)
      BY <2>2, <2>5, <3>2 DEF ChooseHeader, CallRecords
    <3> QED BY <3>1, <3>2
  <2>6. CASE HeldCallGoesOn(c)
    BY <2>4, <2>5, <2>6 DEF HeldCallGoesOn, Inject
  <2>7. CASE RefreshFinally(c)
    <3>1. \A d \in Calls : flight'[d].phase = "settled" => flight'[d] = flight[d]
      BY <2>7 DEF RefreshFinally, IdleFlight
    <3>2. \A d \in Calls : call[d].wait # c => call'[d] = call[d]
      BY <2>7 DEF RefreshFinally
    <3>3. \A d \in Calls :
             call[d].wait = c /\ call'[d].phase = "refreshed401" =>
                /\ flight[c].ok /\ flight[c].phase = "settled"
                /\ call'[d].payment = call[d].payment
                /\ call[d].phase = "refreshing401"
      <4> SUFFICES ASSUME NEW d \in Calls, call[d].wait = c,
                          call'[d].phase = "refreshed401"
                   PROVE  /\ flight[c].ok /\ flight[c].phase = "settled"
                          /\ call'[d].payment = call[d].payment
                          /\ call[d].phase = "refreshing401"
        OBVIOUS
      <4>1. call[d].phase \in {"refreshing", "refreshing401"}
        BY CallsAssumption DEF WaitInv, Waiting
      <4>2. flight[c].ok
        BY <2>7 DEF RefreshFinally, IdleCall
      <4>3. call'[d] = [call[d] EXCEPT !.wait = NoCall,
                           !.phase = IF @ = "refreshing" THEN "refreshed"
                                     ELSE "refreshed401"]
        BY <2>7, <4>2 DEF RefreshFinally
      <4>4. call[d] \in CallRecords
        OBVIOUS
      <4>5. call[d].phase # "refreshing"
        BY <4>3, <4>4 DEF CallRecords
      <4>6. call'[d].payment = call[d].payment
        BY <4>3, <4>4 DEF CallRecords
      <4> QED BY <2>7, <4>1, <4>2, <4>5, <4>6 DEF RefreshFinally
    <3>4. \A d \in Calls : call[d].wait = c => call'[d].phase # "retried"
      BY <2>7 DEF RefreshFinally, IdleCall, CallRecords
    <3> QED BY <2>1, <3>1, <3>2, <3>3, <3>4 DEF WaitInv
  <2>8. CASE InjectRefreshed(c)
    BY <2>5, <2>8 DEF InjectRefreshed
  <2>9. CASE Send(c)
    BY <2>2, <2>9 DEF Send, CallRecords
  <2>10. CASE Retry(c)
    <3>1. CASE End(c)
      BY <2>3, <2>10, <3>1 DEF Retry
    <3>2. CASE ~End(c)
      <4>1. store.token # None /\ store.token = store.payment
        BY <2>10, <3>2 DEF Retry, SessionAgrees
      <4>2. call'[c].payment # None => call'[c].header = call'[c].payment
        BY <2>10, <3>2, <4>1 DEF Retry, CallRecords
      <4>3. \A d \in Calls : d # c => call'[d] = call[d]
        BY <2>10, <3>2 DEF Retry
      <4>4. call'[c].phase = "retried" /\ flight' = flight
        BY <2>10, <3>2 DEF Retry, CallRecords
      <4> QED BY <2>1, <4>2, <4>3, <4>4
    <3> QED BY <3>1, <3>2
  <2>11. CASE RefreshAnswered(c)
    <3>1. call' = call
      BY <2>11 DEF RefreshAnswered, TokenAnswer, RefreshGranted, RefreshRejected
    <3>2. \A d \in Calls : d # c => flight'[d] = flight[d]
      BY <2>11 DEF RefreshAnswered, TokenAnswer, RefreshGranted,
         RefreshRejected, Settle
    <3>3. flight'[c].ok /\ flight'[c].key # None => store.payment = flight'[c].key
      BY <2>11 DEF RefreshAnswered, TokenAnswer, RefreshGranted,
         RefreshRejected, Settle, Replaced, FlightRecords
    <3> QED BY <2>1, <3>1, <3>2, <3>3
  <2>12. CASE CallAnswered(c)
    BY <2>3, <2>4, <2>12
    DEF CallAnswered, CallAnswer, Answered, Unauthorized, RetryUnauthorized
  <2> QED BY <1>8, <2>6, <2>7, <2>8, <2>9, <2>10, <2>11, <2>12
          DEF ClientStep, CallContinues, Continuation
<1>9. CASE UNCHANGED vars
  BY <1>2, <1>9 DEF vars
<1> QED BY <1>3, <1>4, <1>5, <1>6, <1>7, <1>8, <1>9 DEF Next, ClientStep

(* A request sent for a payment is never retried with another one's token.  *)
THEOREM OwnTokenOnRetry == Spec => []RetryOnOwnToken
<1>1. OwnTokenInv => RetryOnOwnToken
  BY DEF OwnTokenInv
<1> QED BY <1>1, OwnTokenInit, OwnTokenNext, SessionInvariant, WaitInvariant,
           PTL DEF Spec

LEMMA FailureStep ==
    ASSUME SessionInv, [Next]_vars, attempt' = attempt
    PROVE  /\ store'.clientId = store.clientId
           /\ store.payment # None /\ store'.payment # store.payment =>
                 \E d \in Calls :
                    RefreshRejected(d, TRUE) /\ flight[d].key = store.payment
<1>1. /\ TypeOK /\ PaymentGrantsOnly /\ AttachInProgress
      /\ attempt \in Nat /\ store \in Stores
  BY MaxAttemptsAssumption DEF SessionInv, TypeOK, AuthTypeOK
<1>2. ~AttachPayment /\ ~Logout
  BY <1>1 DEF AttachPayment, Logout, Detach
<1>3. CASE UNCHANGED store
  BY <1>3
<1>4. ASSUME NEW a \in Attempts, ExchangeAnswered(a)
      PROVE  store'.clientId = store.clientId
             /\ (store.payment = None \/ store'.payment = store.payment)
  BY <1>1, <1>4 DEF ExchangeAnswered, IsCurrent, AttachInProgress, SetToken,
     SetPaymentCredentials, Stores
<1>5. ASSUME NEW c \in Calls, ClientStep(c), store'.payment # store.payment
      PROVE  RefreshRejected(c, TRUE) /\ flight[c].key = store.payment
  <2>1. DropAfterAuthFailure(store) = ClearToken(store)
    BY <1>1 DEF PaymentGrantsOnly, DropAfterAuthFailure
  <2>2. ClearToken(store).payment = store.payment
    BY <1>1 DEF ClearToken, Stores
  <2>3. ASSUME NEW w, Refresh(c, w) PROVE FALSE
    BY <1>5, <2>1, <2>2, <2>3 DEF Refresh, JoinRefresh, StartRefresh
  <2>4. ~HeldCallGoesOn(c)
    BY <1>5, <2>3 DEF HeldCallGoesOn, Inject, ChooseHeader
  <2>5. ~CallContinues(c)
    BY <1>5 DEF CallContinues, Continuation, RefreshFinally,
       InjectRefreshed, ChooseHeader, Send, Retry
  <2>6. ~CallAnswered(c)
    BY <1>5, <2>1, <2>2, <2>3
    DEF CallAnswered, CallAnswer, Answered, Unauthorized, RetryUnauthorized
  <2>7. ~RefreshGranted(c)
    BY <1>1, <1>5 DEF RefreshGranted, SetToken, Stores
  <2>8. \E refused \in BOOLEAN : RefreshRejected(c, refused)
    BY <1>5, <2>4, <2>5, <2>6, <2>7
    DEF ClientStep, RefreshAnswered, TokenAnswer
  <2>9. PICK refused \in BOOLEAN : RefreshRejected(c, refused)
    BY <2>8
  <2>10. flight[c].key # None /\ flight[c].key = store.payment
    BY <1>1, <1>5, <2>9 DEF RefreshRejected, PaymentGrantsOnly, Replaced
  <2>11. refused
    BY <1>5, <2>2, <2>9, <2>10 DEF RefreshRejected, AfterFailedRefresh
  <2> QED BY <2>9, <2>10, <2>11
<1>6. ASSUME NEW c \in Calls, ClientStep(c)
      PROVE  store'.clientId = store.clientId
  BY <1>1, <1>6, ClientStepStore
  DEF ClearToken, SetToken, SetPaymentCredentials, Stores
<1> QED BY <1>2, <1>3, <1>4, <1>5, <1>6
        DEF Next, ClientStep, AttachAnswered, AttachAnswer, ExchangeFailed,
            AttachContinuation, AttachContinues, AttachThrows, authVars,
            CallPayment, CallCardFormUrl, vars

(* An authentication failure costs the client id never, and a payment's     *)
(* credentials only when the token endpoint refuses that payment.           *)
THEOREM FailuresCostTheToken == Spec => FailureCostsTheTokenOnly
<1>1. SessionInv /\ [Next]_vars =>
        [attempt' = attempt =>
          /\ store'.clientId = store.clientId
          /\ store.payment # None /\ store'.payment # store.payment =>
                \E d \in Calls :
                    RefreshRejected(d, TRUE) /\ flight[d].key = store.payment
        ]_vars
  BY FailureStep
<1> QED BY <1>1, SessionInvariant, PTL DEF Spec, FailureCostsTheTokenOnly

=============================================================================
