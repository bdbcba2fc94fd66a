--------------------------- MODULE PaymentSession ---------------------------
(***************************************************************************)
(* What attachPayment(), logout() and the re-exchange of an expired token  *)
(* promise an integrator of the browser SDK, without calls, refreshes or   *)
(* an event loop: the attach (or logout) called last is the one that       *)
(* counts, the session is that payment's or nobody's, and the token is the *)
(* session's own.  BrowserSession implements it.                           *)
(***************************************************************************)
EXTENDS Naturals

CONSTANT MaxAttempts

VARIABLES
    latest,   \* number of attach and logout calls so far
    open,     \* the latest one is an attach that has no answer yet
    session,  \* the payment attached, 0 for none
    token     \* the payment whose access token is held, 0 for none

vars == <<latest, open, session, token>>

Init == latest = 0 /\ open = FALSE /\ session = 0 /\ token = 0

(* A new attach, or a logout, ends whatever session there was at once.      *)
Supersede(attaching) ==
    /\ latest < MaxAttempts
    /\ latest' = latest + 1
    /\ open' = attaching
    /\ session' = 0
    /\ token' = 0

Attach == open /\ open' = FALSE /\ session' = latest /\ token' = latest
          /\ UNCHANGED latest

AttachFails == open /\ open' = FALSE /\ UNCHANGED <<latest, session, token>>

LoseToken == token' = 0 /\ UNCHANGED <<latest, open, session>>

RenewToken == session # 0 /\ token' = session /\ UNCHANGED <<latest, open, session>>

(* GoPay accepts the payment no longer.                                     *)
Refuse == session' = 0 /\ token' = 0 /\ UNCHANGED <<latest, open>>

Next ==
    \/ \E attaching \in BOOLEAN : Supersede(attaching)
    \/ Attach \/ AttachFails
    \/ LoseToken \/ RenewToken \/ Refuse

Spec == Init /\ [][Next]_vars

=============================================================================
