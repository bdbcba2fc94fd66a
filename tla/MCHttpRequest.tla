--------------------------- MODULE MCHttpRequest ---------------------------
(***************************************************************************)
(* Model checking of a request: what becomes of it, HttpRequest, for a     *)
(* call of any method and a second one that may share its refresh, of a    *)
(* method that is sent once; or where it goes, Endpoints.                  *)
(***************************************************************************)
EXTENDS HttpRequest

CONSTANT MaxLength    \* of Endpoints

ASSUME LengthAssumption == MaxLength \in Nat

VARIABLES
    part,                             \* "request" or "endpoint"
    page, endpoint, ids, outcome      \* of Endpoints

Path == INSTANCE Endpoints

pathVars == <<page, endpoint, ids, outcome>>

MCMethods == [c \in Calls |-> IF c = 1 THEN Kinds ELSE {"POST"}]

RequestsInit ==
    /\ part \in {"request", "endpoint"}
    /\ Init /\ Path!Init
    \* One beginning is enough of what stands still.
    /\ part = "request" => page /\ endpoint = <<"oauth2", "token">> /\ ids = <<<<"a">>>>

RequestsNext ==
    /\ UNCHANGED part
    /\ \/ part = "request" /\ Next /\ UNCHANGED pathVars
       \/ part = "endpoint" /\ Path!Next /\ UNCHANGED vars

(* Nothing of Fairness is enabled before a call.                            *)
RequestsSpec == RequestsInit /\ [][RequestsNext]_<<part, vars, pathVars>> /\ Fairness

-----------------------------------------------------------------------------

(* validate.ts:26-36, correlation.ts:60-66: Endpoints!NamedEndpoint.        *)
NamedEndpoint == Path!NamedEndpoint

=============================================================================
