---------------------------- MODULE Transactions ----------------------------
(***************************************************************************)
(* The transaction id each request of the server SDK carries               *)
(* (sdk/src/correlation.ts, core/src/http/correlation.ts): one for a call  *)
(* of the application, whatever runs at the same time, or the one the      *)
(* application gave.  Asynchronous code keeps the store it was started     *)
(* with; a generator's body runs with that of whoever asks for a step.     *)
(***************************************************************************)
EXTENDS FiniteSets

CONSTANTS
    Calls,     \* calls of SDK methods
    Given,     \* ids the application runs code under, withTransactionId(), and no calls
    Nobody     \* no store, and code that runs without one: none of these

VARIABLES
    node,      \* there is an AsyncLocalStorage
    call,      \* the calls
    refreshing, \* the call whose token refresh is out
    sent       \* history: the requests, by whom and under which id

vars == <<node, call, refreshing, sent>>

(* The id of a call that is in no transaction is named after the call; a    *)
(* request without any store gets one that no other has.                    *)
Fresh == "fresh"
Ids == Calls \cup Given

(* A method runs until it is done; a generator runs one step at a time.     *)
CallRecords ==
    [phase : {"idle", "running", "waiting", "between", "done"},
     generator : BOOLEAN,
     scope : Ids \cup {Nobody},     \* scope of bind()
     store : Ids \cup {Nobody},     \* the store its code runs with
     root  : Ids \cup {Nobody}]     \* history: the id its requests should carry

TypeOK ==
    /\ node \in BOOLEAN
    /\ call \in [Calls -> CallRecords]
    /\ refreshing \in Calls \cup {Nobody}
    /\ sent \in SUBSET [by : Calls, id : Ids \cup {Fresh}]

Init ==
    /\ node \in BOOLEAN
    /\ call = [c \in Calls |-> [phase |-> "idle", generator |-> FALSE, scope |-> Nobody,
                                store |-> Nobody, root |-> Nobody]]
    /\ refreshing = Nobody
    /\ sent = {}

-----------------------------------------------------------------------------
(* The application: its own code, code it runs under an id, a callback of a *)
(* call that is running.                                                    *)

Places ==
    {Nobody} \cup (IF node THEN Given ELSE {})
        \cup {c \in Calls : call[c].phase = "running"}

StoreOf(place) == IF place \in Calls THEN call[place].store ELSE place

(* Where a call belongs, whatever the code makes of it.                     *)
RootOf(c, place) ==
    IF place \in Calls THEN call[place].root ELSE IF place = Nobody THEN c ELSE place

(* Mutants: every call is a transaction of its own; a step runs with the    *)
(* store of whoever asks for it.                                            *)
AlwaysOwn(c, place) == c
StoreOfCaller(c, place) == StoreOf(place)

(* bind().                                                                  *)
Scope(c, place) == IF StoreOf(place) # Nobody THEN StoreOf(place) ELSE c

Running(c, place) == IF node THEN Scope(c, place) ELSE Nobody

Call(c, place, generator) ==
    /\ call[c].phase = "idle"
    /\ call' = [call EXCEPT ![c] =
          [phase |-> IF generator THEN "between" ELSE "running", generator |-> generator,
           scope |-> Running(c, place),
           store |-> IF generator THEN Nobody ELSE Running(c, place),
           root |-> RootOf(c, place)]]
    /\ UNCHANGED <<node, refreshing, sent>>

StoreOfStep(c, place) == call[c].scope

(* next(), return() and throw() of the generator a call returned.           *)
Step(c, place) ==
    /\ call[c].phase = "between"
    /\ call' = [call EXCEPT ![c].phase = "running", ![c].store = StoreOfStep(c, place)]
    /\ UNCHANGED <<node, refreshing, sent>>

Pause(c) ==
    /\ call[c].phase = "running" /\ call[c].generator
    /\ call' = [call EXCEPT ![c].phase = "between", ![c].store = Nobody]
    /\ UNCHANGED <<node, refreshing, sent>>

End(c) ==
    /\ call[c].phase = "running"
    /\ call' = [call EXCEPT ![c].phase = "done"]
    /\ UNCHANGED <<node, refreshing, sent>>

-----------------------------------------------------------------------------
(* correlate(), on a request or one sent again.                             *)

Current(c) == IF call[c].store = Nobody THEN Fresh ELSE call[c].store

Send(c) == sent' = sent \cup {[by |-> c, id |-> Current(c)]}

Request(c) ==
    /\ call[c].phase = "running"
    /\ Send(c)
    /\ UNCHANGED <<node, call, refreshing>>

(* The token has expired: the first call to see it asks for another, under  *)
(* its own id, and the others wait for that one.                            *)
Refresh(c) ==
    /\ call[c].phase = "running"
    /\ call' = [call EXCEPT ![c].phase = "waiting"]
    /\ IF refreshing = Nobody
       THEN refreshing' = c /\ Send(c)
       ELSE UNCHANGED <<refreshing, sent>>
    /\ UNCHANGED node

Refreshed ==
    /\ refreshing # Nobody
    /\ refreshing' = Nobody
    /\ call' = [c \in Calls |->
          IF call[c].phase = "waiting" THEN [call[c] EXCEPT !.phase = "running"] ELSE call[c]]
    /\ UNCHANGED <<node, sent>>

Next ==
    \/ \E c \in Calls :
          \/ \E place \in Places :
                Step(c, place) \/ \E generator \in BOOLEAN : Call(c, place, generator)
          \/ Pause(c) \/ End(c) \/ Request(c) \/ Refresh(c)
    \/ Refreshed

Spec == Init /\ [][Next]_vars

-----------------------------------------------------------------------------
(* Properties.                                                              *)

(* correlation.ts:44-47, 62, 81, 100-103: on a server all requests of a     *)
(* call, its refresh and every step of its generator included, carry one    *)
(* id: the one the application gave, that of the call whose callback made   *)
(* it, or one of its own which no other call has.                           *)
OneIdPerCall ==
    \A r \in sent : r.id = IF node THEN call[r.by].root ELSE Fresh

=============================================================================
