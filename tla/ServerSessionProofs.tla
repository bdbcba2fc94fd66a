------------------------- MODULE ServerSessionProofs -------------------------
(***************************************************************************)
(* Proofs about the server's session, for any number of calls and of       *)
(* authenticate() and logout() calls, and about its transaction ids, for   *)
(* any calls and any ids.                                                  *)
(***************************************************************************)
EXTENDS MCServerSession, AuthHandlerProofs

(* A step of the HTTP client within the session.                            *)
ClientStep(c) ==
    \/ HeldCallGoesOn(c) \/ CallContinues(c)
    \/ RefreshAnswered(c) \/ CallAnswered(c)

AuthStep(a) == Authenticated(a) \/ AuthenticateFails(a)

LEMMA StepsOfNext ==
    ASSUME [Next]_vars
    PROVE  \/ Authenticate \/ Logout
           \/ \E a \in Attempts : AuthStep(a)
           \/ \E c \in Calls : CallApi(c) \/ ClientStep(c)
           \/ UNCHANGED vars
BY DEF Next, ClientStep, AuthStep, AuthAnswered

LEMMA StepOfClient ==
    ASSUME NEW c \in Calls, ClientStep(c)
    PROVE  /\ Inject(c) \/ Continuation(c) \/ TokenAnswer(c) \/ CallAnswer(c)
           /\ NoteDrop
BY DEF ClientStep, HeldCallGoesOn, CallContinues, RefreshAnswered, CallAnswered

-----------------------------------------------------------------------------
(* Type correctness.                                                        *)

LEMMA InitType == Init => TypeOK
<1> SUFFICES ASSUME Init PROVE TypeOK
  OBVIOUS
<1>1. store \in Stores
  BY DEF Init, AuthInit, EmptyStore, Stores, Principals, None
<1>2. IdleCall \in CallRecords /\ IdleFlight \in FlightRecords
  BY DEF IdleCall, IdleFlight, CallRecords, CallPhases, FlightRecords,
         Principals
<1>3. AuthTypeOK
  BY <1>1, <1>2 DEF Init, AuthInit, AuthTypeOK
<1>4. attempt \in 0 .. MaxAttempts
  BY MaxAttemptsAssumption DEF Init
<1> QED BY <1>3, <1>4 DEF Init, TypeOK, AuthPhases

LEMMA NextType == TypeOK /\ [Next]_vars => TypeOK'
<1> SUFFICES ASSUME TypeOK, [Next]_vars PROVE TypeOK'
  OBVIOUS
<1> USE DEF TypeOK
<1>0. attempt \in Nat /\ None \in Principals
  BY MaxAttemptsAssumption DEF Principals
<1>1. ASSUME ChangeSession
      PROVE  /\ attempt' \in 0 .. MaxAttempts /\ attempt + 1 \in Principals
             /\ overlapped' \in BOOLEAN
  <2>1. attempt + 1 \in Attempts
    BY <1>0, <1>1, MaxAttemptsAssumption DEF ChangeSession, Attempts
  <2>2. attempt' \in 0 .. MaxAttempts
    BY <1>0, <1>1, MaxAttemptsAssumption DEF ChangeSession
  <2> QED BY <1>1, <2>1, <2>2 DEF ChangeSession, Principals
<1>2. CASE Authenticate
  <2>1. store' \in Stores
    BY <1>1, <1>2 DEF Authenticate, SetClientSecret, AuthTypeOK, Stores,
       Principals, None
  <2>2. auth' \in [Attempts -> AuthPhases]
    BY <1>2 DEF Authenticate, AuthPhases
  <2> QED BY <1>1, <1>2, <2>1, <2>2 DEF Authenticate, AuthTypeOK
<1>3. CASE Logout
  BY <1>0, <1>1, <1>3, StoreOperators DEF Logout, AuthTypeOK
<1>4. ASSUME NEW a \in Attempts, AuthStep(a)
      PROVE  TypeOK'
  <2>1. a \in Principals /\ auth' \in [Attempts -> AuthPhases]
    BY <1>4 DEF AuthStep, Authenticated, AuthenticateFails, AuthPhases,
       Principals
  <2>2. store' \in Stores
    BY <1>4, <2>1, StoreOperators
    DEF AuthStep, Authenticated, AuthenticateFails, AuthTypeOK, authVars
  <2> QED BY <1>4, <2>1, <2>2
          DEF AuthStep, Authenticated, AuthenticateFails, AuthTypeOK, authVars
<1>5. ASSUME NEW c \in Calls, CallApi(c)
      PROVE  TypeOK'
  <2>1. call' \in [Calls -> CallRecords]
    BY <1>5 DEF CallApi, AuthTypeOK, CallRecords, CallPhases
  <2> QED BY <1>5, <2>1 DEF CallApi, AuthTypeOK
<1>6. ASSUME NEW c \in Calls, ClientStep(c)
      PROVE  TypeOK'
  BY <1>6, StepOfClient, ClientType DEF NoteDrop
<1>7. CASE UNCHANGED vars
  BY <1>7 DEF vars, AuthTypeOK
<1> QED BY <1>2, <1>3, <1>4, <1>5, <1>6, <1>7, StepsOfNext

(* Every value the session and the HTTP client keep is one the code         *)
(* declares.                                                                *)
THEOREM TypeCorrect == Spec => []TypeOK
BY InitType, NextType, PTL DEF Spec

-----------------------------------------------------------------------------
(* No two refreshes for the same credentials, as in the browser.            *)

LEMMA WaitInit == Init => WaitInv
BY DEF Init, AuthInit, IdleCall, IdleFlight, WaitInv, Waiting

LEMMA WaitNext == TypeOK /\ WaitInv /\ [Next]_vars => WaitInv'
<1> SUFFICES ASSUME TypeOK, WaitInv, [Next]_vars PROVE WaitInv'
  OBVIOUS
<1> USE DEF TypeOK
<1>1. CASE UNCHANGED <<call, flight, pending>>
  BY <1>1 DEF WaitInv, Waiting
<1>2. ASSUME NEW c \in Calls, CallApi(c)
      PROVE  WaitInv'
  <2>1. ~Waiting(c) /\ ~Waiting(c)' /\ call'[c].wait = NoCall
    BY <1>2 DEF CallApi, Waiting, WaitInv, AuthTypeOK, CallRecords
  <2>2. \A d \in Calls : d # c => call'[d] = call[d]
    BY <1>2 DEF CallApi, AuthTypeOK
  <2> QED BY <1>2, <2>1, <2>2, WaitUnaffected DEF CallApi
<1>3. ASSUME NEW c \in Calls, ClientStep(c)
      PROVE  WaitInv'
  BY <1>3, StepOfClient, WaitStep
<1> QED BY <1>1, <1>2, <1>3, StepsOfNext
        DEF AuthStep, Authenticate, Logout, Authenticated, AuthenticateFails,
            authVars, vars

(* However many requests a server process handles at once, at most one      *)
(* refresh of the same credentials is out.                                  *)
THEOREM OneRefresh == Spec => []SingleRefresh
<1>1. TypeOK /\ WaitInv => SingleRefresh
  BY DEF WaitInv, SingleRefresh
<1> QED BY <1>1, InitType, NextType, WaitInit, WaitNext, PTL DEF Spec

-----------------------------------------------------------------------------
(* Whose token the store gets.  TokenOfClient is not inductive: the token   *)
(* of an authenticate() or of a refresh is stored when its answer comes,    *)
(* and only the fact that the client has not changed meanwhile makes it the *)
(* right one.  A server never has payment credentials.                      *)

(* Whatever is still out asks with the credentials held, or these were      *)
(* dropped after it asked.                                                  *)
AsksForClient ==
    /\ \A a \in Attempts :
          auth[a] = "exchanging" => store.secret \in {a, None}
    /\ \A d \in Calls :
          flight[d].phase = "asking" =>
             store.secret \in {flight[d].grantee, None}

ClientInv ==
    /\ store.payment = None
    /\ ~overlapped => AsksForClient
    /\ TokenOfClient

LEMMA ClientInit == Init => ClientInv
BY DEF Init, AuthInit, EmptyStore, IdleFlight, ClientInv, AsksForClient,
       TokenOfClient

(* What a step of the HTTP client does to the store and to the refreshes.   *)
LEMMA ClientStepStore ==
    ASSUME TypeOK, store.payment = None, NEW c \in Calls, ClientStep(c)
    PROVE  \/ /\ store' \in {store, ClearToken(store), Clear(store),
                             SetPaymentCredentials(ClearToken(store), None)}
              /\ \A d \in Calls :
                    flight'[d].phase = "asking" =>
                       \/ flight'[d] = flight[d]
                       \/ flight'[d].grantee = store.secret
           \/ /\ flight[c].phase = "asking"
              /\ store' = SetToken(store, flight[c].grantee)
              /\ \A d \in Calls :
                    flight'[d].phase = "asking" => flight'[d] = flight[d]
<1> DEFINE Mild ==
       /\ store' \in {store, ClearToken(store), Clear(store),
                      SetPaymentCredentials(ClearToken(store), None)}
       /\ \A d \in Calls :
             flight'[d].phase = "asking" =>
                \/ flight'[d] = flight[d]
                \/ flight'[d].grantee = store.secret
<1>0. flight \in [Calls -> FlightRecords]
  BY DEF TypeOK, AuthTypeOK
<1>1. ASSUME UNCHANGED flight,
             store' \in {store, ClearToken(store), Clear(store)}
      PROVE  Mild
  BY <1>1
<1>2. ASSUME NEW waiting, Refresh(c, waiting)
      PROVE  Mild
  <2>1. CASE JoinRefresh(c, waiting)
    BY <1>1, <2>1 DEF JoinRefresh
  <2>2. CASE StartRefresh(c, waiting)
    <3>1. store' \in {store, ClearToken(store), Clear(store)}
      BY <2>2 DEF StartRefresh, DropAfterAuthFailure
    <3>2. ASSUME NEW d \in Calls, flight'[d].phase = "asking"
          PROVE  flight'[d] = flight[d] \/ flight'[d].grantee = store.secret
      <4>1. CASE d = c
        BY <1>0, <2>2, <3>2, <4>1 DEF StartRefresh, NewFlight, GrantFor
      <4>2. CASE d # c
        BY <1>0, <2>2, <4>2 DEF StartRefresh
      <4> QED BY <4>1, <4>2
    <3> QED BY <3>1, <3>2
  <2> QED BY <1>2, <2>1, <2>2 DEF Refresh
<1>3. CASE Inject(c)
  BY <1>1, <1>2, <1>3 DEF Inject, ChooseHeader
<1>4. CASE Continuation(c)
  <2>1. CASE RefreshFinally(c)
    BY <1>0, <2>1 DEF RefreshFinally, IdleFlight
  <2> QED BY <1>1, <1>4, <2>1
          DEF Continuation, InjectRefreshed, ChooseHeader, Send, Retry
<1>5. CASE CallAnswer(c)
  BY <1>1, <1>2, <1>5 DEF CallAnswer, Answered, Unauthorized,
     RetryUnauthorized, DropAfterAuthFailure
<1>6. CASE TokenAnswer(c)
  <2>1. ASSUME NEW ok, Settle(c, ok)
        PROVE  \A d \in Calls :
                  flight'[d].phase = "asking" => flight'[d] = flight[d]
    BY <1>0, <2>1 DEF Settle, FlightRecords
  <2>2. CASE RefreshGranted(c)
    BY <2>1, <2>2 DEF RefreshGranted
  <2>3. ASSUME NEW refused \in BOOLEAN, RefreshRejected(c, refused)
        PROVE  Mild
    <3>1. store' \in {store, ClearToken(store), Clear(store),
                      SetPaymentCredentials(ClearToken(store), None)}
      BY <2>3 DEF RefreshRejected, AfterFailedRefresh
    <3> QED BY <2>1, <2>3, <3>1 DEF RefreshRejected
  <2> QED BY <1>6, <2>2, <2>3 DEF TokenAnswer
<1> QED BY <1>3, <1>4, <1>5, <1>6, StepOfClient

LEMMA ClientNext == TypeOK /\ ClientInv /\ [Next]_vars => ClientInv'
<1> SUFFICES ASSUME TypeOK, ClientInv, [Next]_vars PROVE ClientInv'
  OBVIOUS
<1>1. /\ store \in Stores /\ flight \in [Calls -> FlightRecords]
      /\ auth \in [Attempts -> AuthPhases]
      /\ overlapped \in BOOLEAN /\ attempt \in Nat
  BY MaxAttemptsAssumption DEF TypeOK, AuthTypeOK
<1> USE <1>1 DEF ClientInv, AsksForClient, TokenOfClient
(* A change of session finds nothing out, unless it overlaps.               *)
<1>2. CASE Authenticate
  BY <1>2 DEF Authenticate, ChangeSession, NothingOut, SetClientSecret, Stores
<1>3. CASE Logout
  BY <1>3 DEF Logout, ChangeSession, Clear, EmptyStore
<1>4. ASSUME NEW a \in Attempts, AuthStep(a)
      PROVE  ClientInv'
  <2>1. CASE Authenticated(a)
    BY <2>1 DEF Authenticated, SetToken, Stores
  <2>2. CASE AuthenticateFails(a)
    BY <2>2 DEF AuthenticateFails, authVars
  <2> QED BY <1>4, <2>1, <2>2 DEF AuthStep
<1>5. ASSUME NEW c \in Calls, CallApi(c)
      PROVE  ClientInv'
  BY <1>5 DEF CallApi
<1>6. ASSUME NEW c \in Calls, ClientStep(c)
      PROVE  ClientInv'
  <2>1. UNCHANGED <<auth, overlapped>>
    BY <1>6, StepOfClient DEF NoteDrop
  <2>2. CASE store' \in {store, ClearToken(store), Clear(store),
                         SetPaymentCredentials(ClearToken(store), None)}
    <3>1. /\ store'.payment = None
          /\ store'.secret \in {store.secret, None}
          /\ store'.token \in {store.token, None}
      <4> DEFINE cleared == ClearToken(store)
      <4>1. /\ cleared \in Stores /\ cleared.payment = None
            /\ cleared.secret = store.secret /\ cleared.token = None
        BY DEF ClearToken, Stores, Principals
      <4>2. store' \in {store, cleared, Clear(store),
                       SetPaymentCredentials(cleared, None)}
        BY <2>2
      <4> HIDE DEF cleared
      <4> QED BY <4>1, <4>2 DEF Clear, EmptyStore, SetPaymentCredentials, Stores
    <3>2. \A d \in Calls :
             flight'[d].phase = "asking" =>
                flight'[d] = flight[d] \/ flight'[d].grantee = store.secret
      BY <1>6, ClientStepStore
    <3> QED BY <2>1, <3>1, <3>2
  <2>3. CASE /\ flight[c].phase = "asking"
             /\ store' = SetToken(store, flight[c].grantee)
             /\ \A d \in Calls :
                   flight'[d].phase = "asking" => flight'[d] = flight[d]
    <3>1. /\ store'.payment = None /\ store'.secret = store.secret
          /\ store'.token = flight[c].grantee
      BY <2>3 DEF SetToken, Stores
    <3> QED BY <2>1, <2>3, <3>1
  <2> QED BY <1>6, <2>2, <2>3, ClientStepStore
<1>7. CASE UNCHANGED vars
  BY <1>7 DEF vars
<1> QED BY <1>2, <1>3, <1>4, <1>5, <1>6, <1>7, StepsOfNext

(* As long as no authenticate() or logout() overtakes what is out, a server *)
(* never holds one client's token beside another client's secret.           *)
THEOREM TokensAreTheClients == Spec => []TokenOfClient
<1>1. ClientInv => TokenOfClient
  BY DEF ClientInv
<1> QED BY <1>1, InitType, NextType, ClientInit, ClientNext, PTL DEF Spec

-----------------------------------------------------------------------------
(* Transactions.  The invariant says where the id of a call is kept: in the *)
(* scope its methods are bound to, and, while its code runs, in the store   *)
(* that code sees.                                                          *)

USE NobodyAssumption

(* On a server a call that has begun is bound to its own id, and its code   *)
(* runs with it; elsewhere there is no store at all.                        *)
Bound ==
    \A c \in Methods :
        /\ method[c].phase # "idle" =>
              IF node
              THEN method[c].root # Nobody /\ method[c].scope = method[c].root
              ELSE method[c].scope = Nobody
        /\ method[c].phase \in {"running", "waiting"} => method[c].store = method[c].scope

(* What is sent is sent by a call that has begun.                           *)
Begun == \A r \in sent : method[r.by].phase # "idle"

IdsInv == Tx!TypeOK /\ Bound /\ Begun /\ OneIdPerCall

-----------------------------------------------------------------------------

LEMMA IdsStart == Tx!Init => IdsInv
  BY DEF Tx!Init, IdsInv, Tx!TypeOK, Tx!CallRecords, Tx!Ids, Bound, Begun,
         OneIdPerCall, Tx!OneIdPerCall

(* Code that runs under a call's store, or the application's, is what the   *)
(* call belongs to.                                                         *)
LEMMA ScopeIsRoot ==
  ASSUME IdsInv, NEW c \in Methods, NEW place \in Tx!Places
  PROVE  /\ Tx!RootOf(c, place) \in Tx!Ids \cup {Nobody}
         /\ Tx!Running(c, place) \in Tx!Ids \cup {Nobody}
         /\ IF node
            THEN Tx!RootOf(c, place) # Nobody /\ Tx!Running(c, place) = Tx!RootOf(c, place)
            ELSE Tx!Running(c, place) = Nobody
<1>1. CASE place \in Methods
  <2>1. method[place].phase = "running" /\ method[place] \in Tx!CallRecords
    BY <1>1 DEF Tx!Places, IdsInv, Tx!TypeOK
  <2> QED
    BY <1>1, <2>1
       DEF IdsInv, Bound, Tx!RootOf, Tx!Running, Tx!Scope, Tx!StoreOf,
           Tx!CallRecords, Tx!Ids
<1>2. CASE place \notin Methods
  <2>1. place = Nobody \/ (node /\ place \in Given)
    BY <1>2 DEF Tx!Places
  <2> QED
    BY <1>2, <2>1 DEF Tx!RootOf, Tx!Running, Tx!Scope, Tx!StoreOf, Tx!Ids
<1> QED
  BY <1>1, <1>2

(* What a call sends carries its id.                                        *)
LEMMA SendKeepsIds ==
  ASSUME IdsInv, NEW c \in Methods, method[c].phase = "running", Tx!Send(c),
         UNCHANGED node, method' \in [Methods -> Tx!CallRecords],
         \A d \in Methods : method'[d].root = method[d].root,
         \A d \in Methods : method[d].phase # "idle" => method'[d].phase # "idle"
  PROVE  /\ sent' \in SUBSET [by : Methods, id : Tx!Ids \cup {Tx!Fresh}]
         /\ Begun' /\ OneIdPerCall'
<1>1. Tx!Current(c) = IF node THEN method[c].root ELSE Tx!Fresh
  BY DEF IdsInv, Bound, Tx!Current
<1>2. Tx!Current(c) \in Tx!Ids \cup {Tx!Fresh}
  BY <1>1 DEF IdsInv, Tx!TypeOK, Tx!CallRecords, Bound
<1>3. sent' = sent \cup {[by |-> c, id |-> Tx!Current(c)]}
  BY DEF Tx!Send
<1>4. \A r \in sent : r.by \in Methods
  BY DEF IdsInv, Tx!TypeOK
<1> QED
  BY <1>1, <1>2, <1>3, <1>4
     DEF IdsInv, Tx!TypeOK, Begun, OneIdPerCall, Tx!OneIdPerCall

-----------------------------------------------------------------------------

LEMMA CallKeepsIds ==
  ASSUME IdsInv, NEW c \in Methods, NEW place \in Tx!Places, NEW generator \in BOOLEAN,
         Tx!Call(c, place, generator)
  PROVE  IdsInv'
<1> DEFINE new == [phase |-> IF generator THEN "between" ELSE "running",
                   generator |-> generator,
                   scope |-> Tx!Running(c, place),
                   store |-> IF generator THEN Nobody ELSE Tx!Running(c, place),
                   root |-> Tx!RootOf(c, place)]
<1>1. method' = [d \in Methods |-> IF d = c THEN new ELSE method[d]]
  BY DEF Tx!Call, IdsInv, Tx!TypeOK
<1>2. new \in Tx!CallRecords
  BY ScopeIsRoot DEF Tx!CallRecords
<1>3. UNCHANGED <<node, refreshing, sent>>
  BY DEF Tx!Call
<1>4. Tx!TypeOK'
  BY <1>1, <1>2, <1>3 DEF IdsInv, Tx!TypeOK
<1>5. Bound'
  BY <1>1, <1>3, ScopeIsRoot DEF IdsInv, Bound
<1>6. \A r \in sent : r.by \in Methods /\ r.by # c
  BY DEF Tx!Call, IdsInv, Tx!TypeOK, Begun
<1>7. Begun' /\ OneIdPerCall'
  BY <1>1, <1>3, <1>6 DEF IdsInv, Begun, OneIdPerCall, Tx!OneIdPerCall
<1> QED
  BY <1>4, <1>5, <1>7 DEF IdsInv

(* A step of a call that is on its way changes neither its scope nor its    *)
(* root.                                                                    *)
LEMMA MethodGoesOn ==
  ASSUME IdsInv, UNCHANGED node, method' \in [Methods -> Tx!CallRecords],
         \A d \in Methods :
            /\ method'[d].root = method[d].root
            /\ method'[d].scope = method[d].scope
            /\ method[d].phase = "idle" <=> method'[d].phase = "idle"
            /\ method'[d].phase \in {"running", "waiting"} => method'[d].store = method'[d].scope
  PROVE  Bound' /\ (UNCHANGED sent => Begun' /\ OneIdPerCall')
<1>1. \A r \in sent : r.by \in Methods
  BY DEF IdsInv, Tx!TypeOK
<1>2. Bound'
  BY DEF IdsInv, Bound
<1> QED
  BY <1>1, <1>2 DEF IdsInv, Begun, OneIdPerCall, Tx!OneIdPerCall

LEMMA StepKeepsIds ==
  ASSUME IdsInv, NEW c \in Methods, NEW place \in Tx!Places, Tx!Step(c, place)
  PROVE  IdsInv'
<1>1. method' = [d \in Methods |->
          IF d = c THEN [method[c] EXCEPT !.phase = "running", !.store = method[c].scope]
          ELSE method[d]]
  BY DEF Tx!Step, Tx!StoreOfStep, IdsInv, Tx!TypeOK
<1>2. method' \in [Methods -> Tx!CallRecords]
  BY <1>1 DEF IdsInv, Tx!TypeOK, Tx!CallRecords
<1> DEFINE new == [method[c] EXCEPT !.phase = "running", !.store = method[c].scope]
<1>5. /\ new.phase = "running" /\ new.store = method[c].scope
      /\ new.root = method[c].root /\ new.scope = method[c].scope
  BY DEF IdsInv, Tx!TypeOK, Tx!CallRecords
<1>6. method' = [d \in Methods |-> IF d = c THEN new ELSE method[d]]
  BY <1>1
<1> HIDE DEF new
<1>3. \A d \in Methods :
          /\ method'[d].root = method[d].root
          /\ method'[d].scope = method[d].scope
          /\ method[d].phase = "idle" <=> method'[d].phase = "idle"
          /\ method'[d].phase \in {"running", "waiting"} => method'[d].store = method'[d].scope
  BY <1>5, <1>6 DEF Tx!Step, IdsInv, Bound
<1>4. UNCHANGED <<node, refreshing, sent>>
  BY DEF Tx!Step
<1> QED
  BY <1>2, <1>3, <1>4, MethodGoesOn DEF IdsInv, Tx!TypeOK

LEMMA PauseKeepsIds ==
  ASSUME IdsInv, NEW c \in Methods, Tx!Pause(c) \/ Tx!End(c)
  PROVE  IdsInv'
<1>1. PICK s \in Tx!Ids \cup {Nobody}, p \in {"between", "done"} :
          method' = [d \in Methods |->
              IF d = c THEN [method[c] EXCEPT !.phase = p, !.store = s] ELSE method[d]]
  <2>1. method[c] \in Tx!CallRecords
    BY DEF IdsInv, Tx!TypeOK
  <2>2. CASE Tx!Pause(c)
    BY <2>1, <2>2 DEF Tx!Pause, IdsInv, Tx!TypeOK
  <2>3. CASE Tx!End(c)
    <3>1. [method[c] EXCEPT !.phase = "done"]
            = [method[c] EXCEPT !.phase = "done", !.store = method[c].store]
      BY <2>1 DEF Tx!CallRecords
    <3>2. method' = [d \in Methods |->
              IF d = c THEN [method[c] EXCEPT !.phase = "done", !.store = method[c].store]
              ELSE method[d]]
      BY <2>3, <3>1 DEF Tx!End, IdsInv, Tx!TypeOK
    <3> QED
      BY <2>1, <3>2 DEF Tx!CallRecords
  <2> QED
    BY <2>2, <2>3
<1>2. method' \in [Methods -> Tx!CallRecords]
  BY <1>1 DEF IdsInv, Tx!TypeOK, Tx!CallRecords
<1>3. \A d \in Methods :
          /\ method'[d].root = method[d].root
          /\ method'[d].scope = method[d].scope
          /\ method[d].phase = "idle" <=> method'[d].phase = "idle"
          /\ method'[d].phase \in {"running", "waiting"} => method'[d].store = method'[d].scope
  BY <1>1 DEF Tx!Pause, Tx!End, IdsInv, Tx!TypeOK, Tx!CallRecords, Bound
<1>4. UNCHANGED <<node, refreshing, sent>>
  BY DEF Tx!Pause, Tx!End
<1> QED
  BY <1>2, <1>3, <1>4, MethodGoesOn DEF IdsInv, Tx!TypeOK

LEMMA RequestKeepsIds ==
  ASSUME IdsInv, NEW c \in Methods, Tx!Request(c)
  PROVE  IdsInv'
<1>1. method[c].phase = "running" /\ Tx!Send(c) /\ UNCHANGED <<node, method, refreshing>>
  BY DEF Tx!Request
<1>2. method' \in [Methods -> Tx!CallRecords]
  BY <1>1 DEF IdsInv, Tx!TypeOK
<1>3. /\ sent' \in SUBSET [by : Methods, id : Tx!Ids \cup {Tx!Fresh}]
      /\ Begun' /\ OneIdPerCall'
  BY <1>1, <1>2, SendKeepsIds
<1>4. Bound'
  BY <1>1 DEF IdsInv, Bound
<1> QED
  BY <1>1, <1>2, <1>3, <1>4 DEF IdsInv, Tx!TypeOK

LEMMA RefreshKeepsIds ==
  ASSUME IdsInv, NEW c \in Methods, Tx!Refresh(c)
  PROVE  IdsInv'
<1>1. method' = [d \in Methods |-> IF d = c THEN [method[c] EXCEPT !.phase = "waiting"] ELSE method[d]]
  BY DEF Tx!Refresh, IdsInv, Tx!TypeOK
<1>2. method' \in [Methods -> Tx!CallRecords]
  BY <1>1 DEF IdsInv, Tx!TypeOK, Tx!CallRecords
<1>3. \A d \in Methods :
          /\ method'[d].root = method[d].root
          /\ method'[d].scope = method[d].scope
          /\ method[d].phase = "idle" <=> method'[d].phase = "idle"
          /\ method'[d].phase \in {"running", "waiting"} => method'[d].store = method'[d].scope
  BY <1>1 DEF Tx!Refresh, IdsInv, Tx!TypeOK, Tx!CallRecords, Bound
<1>4. UNCHANGED node /\ method[c].phase = "running"
  BY DEF Tx!Refresh
<1>5. Bound' /\ (UNCHANGED sent => Begun' /\ OneIdPerCall')
  BY <1>2, <1>3, <1>4, MethodGoesOn
<1>6. CASE refreshing = Nobody
  <2>1. refreshing' = c /\ Tx!Send(c)
    BY <1>6 DEF Tx!Refresh
  <2>2. /\ sent' \in SUBSET [by : Methods, id : Tx!Ids \cup {Tx!Fresh}]
        /\ Begun' /\ OneIdPerCall'
    BY <1>2, <1>3, <1>4, <2>1, SendKeepsIds
  <2> QED
    BY <1>2, <1>4, <1>5, <2>1, <2>2 DEF IdsInv, Tx!TypeOK
<1>7. CASE refreshing # Nobody
  <2>1. UNCHANGED <<refreshing, sent>>
    BY <1>7 DEF Tx!Refresh
  <2> QED
    BY <1>2, <1>4, <1>5, <2>1 DEF IdsInv, Tx!TypeOK
<1> QED
  BY <1>6, <1>7

LEMMA RefreshedKeepsIds ==
  ASSUME IdsInv, Tx!Refreshed
  PROVE  IdsInv'
<1>1. method' = [d \in Methods |->
          IF method[d].phase = "waiting" THEN [method[d] EXCEPT !.phase = "running"] ELSE method[d]]
  BY DEF Tx!Refreshed
<1>2. method' \in [Methods -> Tx!CallRecords]
  BY <1>1 DEF IdsInv, Tx!TypeOK, Tx!CallRecords
<1>3. \A d \in Methods :
          /\ method'[d].root = method[d].root
          /\ method'[d].scope = method[d].scope
          /\ method[d].phase = "idle" <=> method'[d].phase = "idle"
          /\ method'[d].phase \in {"running", "waiting"} => method'[d].store = method'[d].scope
  BY <1>1 DEF IdsInv, Tx!TypeOK, Tx!CallRecords, Bound
<1>4. UNCHANGED <<node, sent>> /\ refreshing' = Nobody
  BY DEF Tx!Refreshed
<1> QED
  BY <1>2, <1>3, <1>4, MethodGoesOn DEF IdsInv, Tx!TypeOK

LEMMA IdsNext == IdsInv /\ [Tx!Next]_(Tx!vars) => IdsInv'
<1> SUFFICES ASSUME IdsInv, [Tx!Next]_(Tx!vars) PROVE IdsInv'
  OBVIOUS
<1>1. CASE UNCHANGED Tx!vars
  BY <1>1
     DEF Tx!vars, IdsInv, Tx!TypeOK, Bound, Begun, OneIdPerCall, Tx!OneIdPerCall
<1>2. CASE Tx!Next
  BY <1>2, CallKeepsIds, StepKeepsIds, PauseKeepsIds, RequestKeepsIds, RefreshKeepsIds, RefreshedKeepsIds
     DEF Tx!Next
<1> QED
  BY <1>1, <1>2

-----------------------------------------------------------------------------

(* Every variable keeps its type.                                           *)
THEOREM IdsTypeCorrect == Tx!Spec => []Tx!TypeOK
<1>1. IdsInv => Tx!TypeOK
  BY DEF IdsInv
<1> QED
  BY IdsStart, IdsNext, <1>1, PTL DEF Tx!Spec

(* correlation.ts:44-47: whatever calls run inside each other, each request *)
(* of a server carries the id of its own call.                              *)
THEOREM IdsAreKept == Tx!Spec => []OneIdPerCall
<1>1. IdsInv => OneIdPerCall
  BY DEF IdsInv
<1> QED
  BY IdsStart, IdsNext, <1>1, PTL DEF Tx!Spec

=============================================================================
