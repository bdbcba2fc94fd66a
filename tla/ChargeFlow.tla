----------------------------- MODULE ChargeFlow -----------------------------
(***************************************************************************)
(* What a payment method that charges in the page promises its integrator  *)
(* (cards.module.ts:66-106): each flow has one result, which is what became *)
(* of the charge if it says so; a flow that was given up charges nothing   *)
(* from then on, settled or not, and whoever gives it up is told whether a *)
(* charge may still be under way.  No frames, requests or polls.           *)
(***************************************************************************)
CONSTANT Flows

VARIABLES
    charge,  \* the flow's charge, as GoPay has it
    result,  \* of the flow's promise
    told     \* what a flow given up reported of its charge

vars == <<charge, result, told>>

Init ==
    /\ charge = [f \in Flows |-> "none"]
    /\ result = [f \in Flows |-> "pending"]
    /\ told = [f \in Flows |-> "none"]

Ended == {"succeeded", "failed"}

Send(f) ==
    /\ result[f] = "pending"
    /\ told[f] = "none"
    /\ charge[f] = "none"
    /\ charge' = [charge EXCEPT ![f] = "sent"]
    /\ UNCHANGED <<result, told>>

(* What was sent arrives or is refused; what arrived comes to its end.      *)
GoPayMoves(f) ==
    /\ \/ charge[f] = "sent" /\ \E c \in {"open", "refused"} :
              charge' = [charge EXCEPT ![f] = c]
       \/ charge[f] = "open" /\ \E c \in Ended :
              charge' = [charge EXCEPT ![f] = c]
    /\ UNCHANGED <<result, told>>

Settle(f, as) ==
    /\ result[f] = "pending"
    /\ as = "payload" => charge[f] = "none"
    /\ as \in Ended => charge[f] = as
    /\ result' = [result EXCEPT ![f] = as]
    /\ UNCHANGED <<charge, told>>

(* Giving up settles the result, unless the page of the integrator is in    *)
(* the way; it is told all the same, and can be done again.                 *)
GiveUp(f, known) ==
    /\ result[f] = "pending"
    /\ known => charge[f] \in {"none"} \cup Ended
    /\ result' \in {result, [result EXCEPT ![f] = "unmounted"]}
    /\ told' = [told EXCEPT ![f] = IF known THEN "known" ELSE "inFlight"]
    /\ UNCHANGED charge

Next ==
    \E f \in Flows :
        \/ Send(f)
        \/ GoPayMoves(f)
        \/ \E as \in {"payload", "error"} \cup Ended : Settle(f, as)
        \/ \E known \in BOOLEAN : GiveUp(f, known)

Spec == Init /\ [][Next]_vars

=============================================================================
