--------------------------- MODULE ChargeOutcome ---------------------------
(***************************************************************************)
(* What awaitChargeState() promises (charge-polling.ts:13-26): one         *)
(* outcome, which the charge, the caller or the initial timeout accounts   *)
(* for, and no timeout once the customer has been asked to act.  No polls, *)
(* timers or callbacks.  ServerCharge implements it, and so does the race  *)
(* of BrowserCharge, page and watchdog included.                           *)
(***************************************************************************)
VARIABLES
    outcome,   \* of the promise
    state,     \* of the charge at GoPay
    aborted,   \* by the caller
    acting     \* the customer was seen to have been asked to act

vars == <<outcome, state, aborted, acting>>

Init ==
    /\ aborted \in BOOLEAN
    /\ outcome = IF aborted THEN "aborted" ELSE "pending"
    /\ state = "REQUESTED"
    /\ acting = FALSE

GoPayMoves ==
    /\ state \notin {"SUCCEEDED", "FAILED"}
    /\ state' \in {"REQUESTED", "PROCESSING", "ACTION_REQUIRED",
                   "SUCCEEDED", "FAILED"}
    /\ UNCHANGED <<outcome, aborted, acting>>

Settle(as) == outcome = "pending" /\ outcome' = as

Succeed == Settle("resolved") /\ state = "SUCCEEDED"
           /\ UNCHANGED <<state, aborted, acting>>

Fail == Settle("failed") /\ state = "FAILED"
        /\ UNCHANGED <<state, aborted, acting>>

(* Aborting is heard at once, wherever it is done.                          *)
Abort ==
    /\ aborted' = TRUE
    /\ outcome' = IF outcome = "pending" THEN "aborted" ELSE outcome
    /\ acting' \in {acting, TRUE}
    /\ UNCHANGED state

TimeOut == Settle("timeout") /\ ~acting /\ UNCHANGED <<state, aborted, acting>>

(* A poll or a callback failed.                                             *)
BreakOff == Settle("error") /\ acting' \in {acting, TRUE}
            /\ UNCHANGED <<state, aborted>>

SeeAction == acting' = TRUE /\ UNCHANGED <<outcome, state, aborted>>

Next == GoPayMoves \/ Succeed \/ Fail \/ Abort \/ TimeOut \/ BreakOff \/ SeeAction

Spec == Init /\ [][Next]_vars

=============================================================================
