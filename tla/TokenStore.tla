----------------------------- MODULE TokenStore -----------------------------
(***************************************************************************)
(* The in-memory credential store of the HTTP client                       *)
(* (internal/core/src/http/token-store.ts), as operators from one store to *)
(* the next.                                                               *)
(*                                                                         *)
(* Every attach (browser) or authenticate (server) brings credentials of   *)
(* its own, and the code compares payment credentials by object identity,  *)
(* so an attempt number stands for its credentials, and a token is named   *)
(* by the attempt whose grant issued it.  None is JavaScript's null.       *)
(***************************************************************************)
EXTENDS Naturals

CONSTANT MaxAttempts    \* bound: attach, logout and authenticate calls made

ASSUME MaxAttemptsAssumption == MaxAttempts \in Nat

None == 0
Attempts == 1 .. MaxAttempts
Principals == Attempts \cup {None}

(* clientId says whether the client id is held; secret is the attempt whose *)
(* client secret and scope are held (a server only).                        *)
Stores == [token : Principals, payment : Principals,
           secret : Principals, clientId : BOOLEAN]

EmptyStore == [token |-> None, payment |-> None,
               secret |-> None, clientId |-> FALSE]

SetClientId(s) ==
    [s EXCEPT !.clientId = TRUE, !.secret = None, !.token = None]

(* Mutant: the previous client's token stays.                              *)
SetClientSecretOnly(s, a) == [s EXCEPT !.clientId = TRUE, !.secret = a]

SetClientSecret(s, a) ==
    [s EXCEPT !.clientId = TRUE, !.secret = a, !.token = None]

SetPaymentCredentials(s, a) == [s EXCEPT !.payment = a]

SetToken(s, a) == [s EXCEPT !.token = a]

ClearToken(s) == [s EXCEPT !.token = None]

Clear(s) == EmptyStore

=============================================================================
