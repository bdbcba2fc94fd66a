------------------------------ MODULE GwLogger ------------------------------
(***************************************************************************)
(* What an SDK may tell gw-logger (browser-sdk/src/logging/gw-logger.ts):  *)
(* its events, each an event's name here, and the budgets they are spent   *)
(* on.  What an event says of the payment or of an error is left out.      *)
(***************************************************************************)
EXTENDS Naturals

CONSTANT Budget    \* EVENT_BUDGET: how many events of a kind an SDK may send

Kinds == {"api_call", "lifecycle", "step", "error", "page", "card_form", "field_errors"}

ASSUME BudgetAssumption == Budget \in [Kinds -> Nat \ {0}]

(* The funnel of a checkout; init, attach and leave are the page's.         *)
Funnel == {"init", "attach", "leave", "ready", "rendered", "submit", "unmount"}

CallEvents == [n \in {"apiCall"} |-> "api_call"]

ErrorEvents == [n \in {"error", "integratorError"} |-> "error"]

WalletEvents ==
    [n \in {"walletStep", "walletAvailability", "walletUnavailable"} |->
        IF n = "walletUnavailable" THEN "error" ELSE "step"]

(* The errors of a submit are counted with the steps, those of typing not.  *)
FormEvents ==
    [n \in {"started", "completed", "submit-request", "submit-errors", "field-errors",
            "interaction", "height"} |->
        IF n = "field-errors" THEN "field_errors"
        ELSE IF n \in {"interaction", "height"} THEN "step" ELSE "card_form"]

PageEvents ==
    [n \in {"arrival", "discarded", "hidden", "visible", "freeze", "resume", "restored"} |->
        "page"]

Names ==
    Funnel \cup DOMAIN CallEvents \cup DOMAIN ErrorEvents \cup DOMAIN WalletEvents
        \cup DOMAIN FormEvents \cup DOMAIN PageEvents

(* Of an event that is no marker of the funnel.                             *)
KindOf(n) ==
    CASE n \in DOMAIN CallEvents -> CallEvents[n]
      [] n \in DOMAIN ErrorEvents -> ErrorEvents[n]
      [] n \in DOMAIN WalletEvents -> WalletEvents[n]
      [] n \in DOMAIN FormEvents -> FormEvents[n]
      [] n \in DOMAIN PageEvents -> PageEvents[n]

(* Mutant: a wallet's steps are counted as markers of the funnel.           *)
StepsAsMarkers ==
    [n \in Names |-> IF n \in Funnel \cup {"walletStep"} THEN "lifecycle" ELSE KindOf(n)]

BudgetOf == [n \in Names |-> IF n \in Funnel THEN "lifecycle" ELSE KindOf(n)]

Unspent == [k \in Kinds |-> 0]

Within(spent, name) == spent[BudgetOf[name]] < Budget[BudgetOf[name]]

(* What an SDK has spent once it has sent an event.                         *)
Spend(spent, name) == [spent EXCEPT ![BudgetOf[name]] = @ + 1]

=============================================================================
