--------------------------- MODULE MCServerSession ---------------------------
(***************************************************************************)
(* Model checking of what a server runs its calls under: the credentials,  *)
(* ServerSession, or the transaction ids, Transactions, of which the       *)
(* former's calls are the requests.                                        *)
(***************************************************************************)
EXTENDS ServerSession

CONSTANTS Methods, Given, Nobody    \* of Transactions, Methods being its calls

ASSUME NobodyAssumption == Nobody \notin Methods \cup Given /\ Methods \cap Given = {}

VARIABLES
    part,                           \* "session" or "ids"
    node, method, refreshing, sent  \* of Transactions

Tx == INSTANCE Transactions WITH Calls <- Methods, call <- method

idVars == <<node, method, refreshing, sent>>

ServerInit ==
    /\ part \in {"session", "ids"}
    /\ Init /\ Tx!Init
    \* One beginning is enough of what stands still.
    /\ part = "session" => node

ServerNext ==
    /\ UNCHANGED part
    /\ \/ part = "session" /\ Next /\ UNCHANGED idVars
       \/ part = "ids" /\ Tx!Next /\ UNCHANGED vars

ServerFairness ==
    /\ \A a \in Attempts : SF_vars(part = "session" /\ AuthAnswered(a))
    /\ \A c \in Calls :
          /\ WF_vars(part = "session" /\ HeldCallGoesOn(c))
          /\ WF_vars(part = "session" /\ CallContinues(c))
          /\ SF_vars(part = "session" /\ RefreshAnswered(c))
          /\ SF_vars(part = "session" /\ CallAnswered(c))

ServerSpec ==
    ServerInit /\ [][ServerNext]_<<part, vars, idVars>> /\ ServerFairness

-----------------------------------------------------------------------------

(* correlation.ts:44-47: Transactions!OneIdPerCall.                         *)
OneIdPerCall == Tx!OneIdPerCall

(* Every API call and every authenticate() settles:                         *)
(* ServerSession!ServerSettles.                                             *)
ServerCallsSettle == part = "session" => ServerSettles

=============================================================================
