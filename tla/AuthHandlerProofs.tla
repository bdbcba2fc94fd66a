-------------------------- MODULE AuthHandlerProofs --------------------------
(***************************************************************************)
(* Lemmas about the shared HTTP client's steps, for any number of calls and *)
(* of attempts, whichever deployment takes them.                           *)
(***************************************************************************)
EXTENDS AuthHandler, TLAPS

(* The operators on the store stay within its type.                         *)
LEMMA StoreOperators ==
    ASSUME NEW s \in Stores, NEW a \in Principals
    PROVE  /\ SetToken(s, a) \in Stores
           /\ SetPaymentCredentials(s, a) \in Stores
           /\ ClearToken(s) \in Stores
           /\ Clear(s) \in Stores
           /\ DropAfterAuthFailure(s) \in Stores
           /\ GrantFor(s) \in Principals
BY DEF SetToken, SetPaymentCredentials, ClearToken, Clear, EmptyStore,
       DropAfterAuthFailure, GrantFor, Stores, Principals, None

(* refresh() keeps the types, whoever runs into it.                         *)
LEMMA RefreshType ==
    ASSUME AuthTypeOK, NEW c \in Calls,
           NEW waiting \in {"refreshing", "refreshing401"},
           Refresh(c, waiting)
    PROVE  AuthTypeOK'
<1>1. store.payment \in Principals
  BY DEF AuthTypeOK, Stores
<1>2. CASE JoinRefresh(c, waiting)
  <2>1. pending[store.payment] \in Calls
    BY <1>1, <1>2 DEF JoinRefresh, RefreshRunning, AuthTypeOK
  <2>2. call' \in [Calls -> CallRecords]
    BY <1>2, <2>1 DEF JoinRefresh, AuthTypeOK, CallRecords, CallPhases
  <2> QED BY <1>2, <2>2 DEF JoinRefresh, AuthTypeOK
<1>3. CASE StartRefresh(c, waiting)
  <2>1. call' \in [Calls -> CallRecords]
    BY <1>3 DEF StartRefresh, AuthTypeOK, CallRecords, CallPhases
  <2>2. GrantFor(store) \in Principals
    BY StoreOperators DEF AuthTypeOK, Principals
  <2>3. NewFlight(store.payment, GrantFor(store)) \in FlightRecords
    BY <1>1, <2>2 DEF NewFlight, FlightRecords
  <2>4. store' \in Stores
    BY <1>1, <1>3, StoreOperators DEF StartRefresh, AuthTypeOK
  <2>5. pending' \in [Principals -> Calls \cup {NoCall}]
    BY <1>1, <1>3 DEF StartRefresh, AuthTypeOK
  <2> QED BY <1>3, <2>1, <2>3, <2>4, <2>5 DEF StartRefresh, AuthTypeOK
<1> QED BY <1>2, <1>3 DEF Refresh

(* So do the two ways to end or to go on with a call.                       *)
LEMMA EndType ==
    ASSUME AuthTypeOK, NEW c \in Calls, End(c)
    PROVE  call' \in [Calls -> CallRecords]
<1>1. IdleCall \in CallRecords
  BY DEF IdleCall, CallRecords, CallPhases, Principals
<1> QED BY <1>1 DEF End, AuthTypeOK

LEMMA ChooseHeaderType ==
    ASSUME AuthTypeOK, NEW c \in Calls, ChooseHeader(c)
    PROVE  AuthTypeOK'
<1>1. store.token \in Principals
  BY DEF AuthTypeOK, Stores
<1>2. CASE End(c)
  BY <1>2, EndType DEF ChooseHeader, AuthTypeOK
<1>3. CASE call' = [call EXCEPT ![c].phase = "authorised",
                               ![c].header = store.token]
  <2>1. call' \in [Calls -> CallRecords]
    BY <1>1, <1>3 DEF AuthTypeOK, CallRecords, CallPhases
  <2> QED BY <2>1 DEF ChooseHeader, AuthTypeOK
<1> QED BY <1>2, <1>3 DEF ChooseHeader

(* Every step of the HTTP client keeps its types.                           *)
LEMMA ClientType ==
    ASSUME AuthTypeOK, NEW c \in Calls,
           Inject(c) \/ Continuation(c) \/ TokenAnswer(c) \/ CallAnswer(c)
    PROVE  AuthTypeOK'
<1> USE DEF AuthTypeOK
<1>1. CASE Inject(c)
  BY <1>1, RefreshType, ChooseHeaderType DEF Inject
<1>2. CASE RefreshFinally(c)
  <2>1. IdleCall \in CallRecords /\ IdleFlight \in FlightRecords
    BY DEF IdleCall, CallRecords, CallPhases, Principals,
           IdleFlight, FlightRecords
  <2>2. flight' \in [Calls -> FlightRecords]
    BY <1>2, <2>1 DEF RefreshFinally
  <2>3. pending' \in [Principals -> Calls \cup {NoCall}]
    BY <1>2 DEF RefreshFinally, FlightRecords
  <2> DEFINE Woken(b) == [call[b] EXCEPT !.wait = NoCall,
                  !.phase = IF @ = "refreshing" THEN "refreshed"
                            ELSE "refreshed401"]
  <2>4. \A b \in Calls : Woken(b) \in CallRecords
    BY DEF CallRecords, CallPhases
  <2> HIDE DEF Woken
  <2>5. call' = [b \in Calls |-> IF call[b].wait # c THEN call[b]
                                 ELSE IF ~flight[c].ok THEN IdleCall
                                 ELSE Woken(b)]
    BY <1>2 DEF RefreshFinally, Woken
  <2>6. call' \in [Calls -> CallRecords]
    BY <2>1, <2>4, <2>5
  <2> QED BY <1>2, <2>2, <2>3, <2>6 DEF RefreshFinally
<1>3. CASE InjectRefreshed(c)
  BY <1>3, ChooseHeaderType DEF InjectRefreshed
<1>4. CASE Send(c)
  <2>1. store.payment \in Principals
    BY DEF Stores
  <2>2. call' \in [Calls -> CallRecords]
    BY <1>4, <2>1 DEF Send, CallRecords, CallPhases
  <2> QED BY <1>4, <2>2 DEF Send
<1>5. CASE Retry(c)
  <2>1. CASE End(c)
    BY <1>5, <2>1, EndType DEF Retry
  <2>2. CASE call' = [call EXCEPT ![c].phase = "retried",
                                 ![c].header = store.token]
    <3>1. store.token \in Principals
      BY DEF Stores
    <3>2. call' \in [Calls -> CallRecords]
      BY <2>2, <3>1 DEF CallRecords, CallPhases
    <3> QED BY <1>5, <3>2 DEF Retry
  <2> QED BY <1>5, <2>1, <2>2 DEF Retry
<1>6. CASE TokenAnswer(c)
  <2>1. ASSUME NEW ok \in BOOLEAN, Settle(c, ok)
        PROVE  flight' \in [Calls -> FlightRecords]
    BY <2>1 DEF Settle, FlightRecords
  <2>2. CASE RefreshGranted(c)
    <3>1. flight[c].grantee \in Principals
      BY DEF FlightRecords
    <3>2. store' \in Stores
      BY <2>2, <3>1, StoreOperators DEF RefreshGranted
    <3> QED BY <2>1, <2>2, <3>2 DEF RefreshGranted
  <2>3. ASSUME NEW refused \in BOOLEAN, RefreshRejected(c, refused)
        PROVE  AuthTypeOK'
    <3>1. AfterFailedRefresh(flight[c].key, refused) \in Stores
      <4>1. None \in Principals /\ None \in Principals
        BY DEF Principals
      <4> QED BY <4>1, StoreOperators DEF AfterFailedRefresh
    <3>2. store' \in Stores
      BY <2>3, <3>1 DEF RefreshRejected
    <3> QED BY <2>1, <2>3, <3>2 DEF RefreshRejected
  <2> QED BY <1>6, <2>2, <2>3 DEF TokenAnswer
<1>7. CASE Answered(c)
  BY <1>7, EndType DEF Answered
<1>8. CASE Unauthorized(c)
  <2>1. CASE Replaced(call[c].payment)
    BY <1>8, <2>1, EndType DEF Unauthorized
  <2>2. CASE ~Replaced(call[c].payment)
    BY <1>8, <2>2, RefreshType DEF Unauthorized
  <2> QED BY <2>1, <2>2
<1>9. CASE RetryUnauthorized(c)
  <2>1. None \in Principals
    BY DEF Principals
  <2>2. store' \in Stores
    BY <1>9, <2>1, StoreOperators DEF RetryUnauthorized
  <2> QED BY <1>9, <2>2, EndType DEF RetryUnauthorized
<1> QED BY <1>1, <1>2, <1>3, <1>4, <1>5, <1>6, <1>7, <1>8, <1>9
        DEF Continuation, CallAnswer

-----------------------------------------------------------------------------
(* Who waits for whose refresh.                                             *)

Waiting(c) == call[c].phase \in {"refreshing", "refreshing401"}

(* A waiting call waits for a refresh that is still running; a refresh runs *)
(* as long as the call that started it waits, and is the one pending for    *)
(* its credentials; and a 401 is waited out for the payment it was about.   *)
WaitInv ==
    /\ \A c \in Calls :
          IF Waiting(c)
          THEN call[c].wait \in Calls /\ flight[call[c].wait].phase # "idle"
          ELSE call[c].wait = NoCall
    /\ \A d \in Calls : flight[d].phase # "idle" =>
          /\ Waiting(d) /\ call[d].wait = d
          /\ pending[flight[d].key] = d
    /\ \A k \in Principals : pending[k] # NoCall =>
          flight[pending[k]].phase # "idle" /\ flight[pending[k]].key = k
    /\ \A c \in Calls :
          call[c].phase = "refreshing401" /\ call[c].payment # None =>
             flight[call[c].wait].key = call[c].payment

LEMMA WaitRefresh ==
    ASSUME AuthTypeOK, WaitInv, NEW c \in Calls,
           NEW waiting \in {"refreshing", "refreshing401"},
           ~Waiting(c),
           waiting = "refreshing401" => ~Replaced(call[c].payment),
           Refresh(c, waiting)
    PROVE  WaitInv'
<1> USE DEF AuthTypeOK, Waiting
<1>1. store.payment \in Principals
  BY DEF Stores
<1>2. waiting = "refreshing401" /\ call[c].payment # None
         => store.payment = call[c].payment
  BY DEF Replaced
<1>3. CASE JoinRefresh(c, waiting)
  BY <1>1, <1>2, <1>3, CallsAssumption
  DEF JoinRefresh, RefreshRunning, WaitInv, CallRecords
<1>4. CASE StartRefresh(c, waiting)
  <2>1. flight[c].phase = "idle"
    BY DEF WaitInv
  <2>2. \A d \in Calls : flight[d].phase # "idle" => flight[d].key # store.payment
    BY <1>4, CallsAssumption DEF StartRefresh, RefreshRunning, WaitInv
  <2>3. /\ flight'[c].phase # "idle" /\ flight'[c].key = store.payment
        /\ \A d \in Calls : d # c => flight'[d] = flight[d]
    BY <1>4 DEF StartRefresh, NewFlight
  <2>4. /\ call'[c].phase = waiting /\ call'[c].wait = c
        /\ call'[c].payment = call[c].payment
        /\ \A d \in Calls : d # c => call'[d] = call[d]
    BY <1>4 DEF StartRefresh, CallRecords
  <2>5. /\ pending'[store.payment] = c
        /\ \A k \in Principals : k # store.payment => pending'[k] = pending[k]
    BY <1>1, <1>4 DEF StartRefresh
  <2>6. \A d \in Calls : call[d].wait # c
    BY <2>1, CallsAssumption DEF WaitInv
  <2>7. \A k \in Principals : pending[k] # c
    BY <2>1, CallsAssumption DEF WaitInv
  <2> QED BY <1>1, <1>2, <2>1, <2>2, <2>3, <2>4, <2>5, <2>6, <2>7,
             CallsAssumption
          DEF WaitInv, FlightRecords
<1> QED BY <1>3, <1>4 DEF Refresh

(* A call that moves between two phases in which it waits for nobody.       *)
LEMMA WaitUnaffected ==
    ASSUME AuthTypeOK, WaitInv, NEW c \in Calls,
           ~Waiting(c), ~Waiting(c)', call'[c].wait = NoCall,
           \A d \in Calls : d # c => call'[d] = call[d],
           UNCHANGED <<flight, pending>>
    PROVE  WaitInv'
BY CallsAssumption DEF WaitInv, Waiting, AuthTypeOK, CallRecords, FlightRecords

LEMMA WaitStep ==
    ASSUME AuthTypeOK, WaitInv, NEW c \in Calls,
           Inject(c) \/ Continuation(c) \/ TokenAnswer(c) \/ CallAnswer(c)
    PROVE  WaitInv'
<1> USE DEF AuthTypeOK
<1>0. ASSUME End(c), ~Waiting(c), UNCHANGED <<flight, pending>> PROVE WaitInv'
  BY <1>0, WaitUnaffected DEF End, IdleCall, Waiting
<1>1. ASSUME ChooseHeader(c), ~Waiting(c) PROVE WaitInv'
  <2>1. CASE End(c)
    BY <1>0, <1>1, <2>1 DEF ChooseHeader
  <2>2. CASE ~End(c)
    BY <1>1, <2>2, WaitUnaffected
    DEF ChooseHeader, Waiting, WaitInv, CallRecords
  <2> QED BY <2>1, <2>2
<1>2. CASE Inject(c)
  BY <1>1, <1>2, WaitRefresh DEF Inject, Waiting
<1>3. CASE RefreshFinally(c)
  <2>1. \A d \in Calls : d # c => flight'[d] = flight[d]
    BY <1>3 DEF RefreshFinally
  <2>2. flight'[c].phase = "idle"
    BY <1>3 DEF RefreshFinally, IdleFlight
  <2>3. /\ flight[c].key \in Principals
        /\ pending[flight[c].key] = c
        /\ pending'[flight[c].key] = NoCall
        /\ \A k \in Principals : k # flight[c].key => pending'[k] = pending[k]
    BY <1>3 DEF RefreshFinally, FlightRecords, WaitInv
  <2>4. \A d \in Calls : call[d].wait # c => call'[d] = call[d]
    BY <1>3 DEF RefreshFinally
  <2>5. \A d \in Calls : call[d].wait = c =>
           /\ call'[d].wait = NoCall
           /\ call'[d].phase \in {"idle", "refreshed", "refreshed401"}
    BY <1>3 DEF RefreshFinally, IdleCall, CallRecords
  <2>6. \A k \in Principals : pending[k] = c => k = flight[c].key
    BY CallsAssumption DEF WaitInv
  <2>7. \A d \in Calls : IF Waiting(d)'
           THEN call'[d].wait \in Calls /\ flight'[call'[d].wait].phase # "idle"
           ELSE call'[d].wait = NoCall
    BY <2>1, <2>4, <2>5 DEF WaitInv, Waiting
  <2>8. \A d \in Calls : flight'[d].phase # "idle" =>
           Waiting(d)' /\ call'[d].wait = d /\ pending'[flight'[d].key] = d
    BY <2>1, <2>2, <2>3, <2>4 DEF WaitInv, Waiting, FlightRecords
  <2>9. \A k \in Principals : pending'[k] # NoCall =>
           flight'[pending'[k]].phase # "idle" /\ flight'[pending'[k]].key = k
    BY <2>1, <2>3, <2>6 DEF WaitInv
  <2>10. \A d \in Calls :
            call'[d].phase = "refreshing401" /\ call'[d].payment # None =>
               flight'[call'[d].wait].key = call'[d].payment
    BY <2>1, <2>4, <2>5 DEF WaitInv, Waiting
  <2> QED BY <2>7, <2>8, <2>9, <2>10 DEF WaitInv
<1>4. CASE InjectRefreshed(c)
  BY <1>1, <1>4 DEF InjectRefreshed, Waiting
<1>5. CASE Send(c)
  BY <1>5, WaitUnaffected DEF Send, Waiting, WaitInv, CallRecords
<1>6. CASE Retry(c)
  <2>1. CASE End(c)
    BY <1>0, <1>6, <2>1 DEF Retry, Waiting
  <2>2. CASE ~End(c)
    BY <1>6, <2>2, WaitUnaffected DEF Retry, Waiting, WaitInv, CallRecords
  <2> QED BY <2>1, <2>2
<1>7. CASE TokenAnswer(c)
  <2>1. ASSUME NEW ok \in BOOLEAN, Settle(c, ok), flight[c].phase = "asking",
               UNCHANGED <<call, pending>>
        PROVE  WaitInv'
    <3>1. \A d \in Calls : /\ flight'[d].key = flight[d].key
                           /\ flight'[d].phase = "idle" <=> flight[d].phase = "idle"
      BY <2>1 DEF Settle, FlightRecords
    <3> QED BY <2>1, <3>1, CallsAssumption DEF WaitInv, Waiting
  <2> QED BY <1>7, <2>1 DEF TokenAnswer, RefreshGranted, RefreshRejected
<1>8. CASE Answered(c)
  BY <1>0, <1>8 DEF Answered, Waiting
<1>9. CASE Unauthorized(c)
  BY <1>0, <1>9, WaitRefresh DEF Unauthorized, Waiting
<1>10. CASE RetryUnauthorized(c)
  BY <1>0, <1>10 DEF RetryUnauthorized, Waiting
<1> QED BY <1>2, <1>3, <1>4, <1>5, <1>6, <1>7, <1>8, <1>9, <1>10
        DEF Continuation, CallAnswer

=============================================================================
