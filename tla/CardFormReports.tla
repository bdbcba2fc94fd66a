--------------------------- MODULE CardFormReports ---------------------------
(***************************************************************************)
(* What the SDK makes of the messages of a card form's frame and tells of  *)
(* them (onMessage of browser-sdk/src/modules/cards/cards.module.ts,       *)
(* form-progress.ts, iframe-protocol.ts): the validity, the field errors,  *)
(* how far the customer got, and one summary for each visit to the form.   *)
(* The frame is released ahead of the SDK and by somebody else: a message  *)
(* may be repeated, out of order, or outside the protocol.  What becomes   *)
(* of the encrypted card is CardForm's.                                    *)
(***************************************************************************)
EXTENDS Naturals, FiniteSets

CONSTANTS
    Fields,    \* the fields of the card
    Errors,    \* what may be wrong with them: field and code
    Junk,      \* entries that are none of the protocol's
    MaxVisits  \* visits to the form end so often at most

States == {"empty", "partial", "complete"}
Triggers == {"submit", "input", "blur", "unknown"}

Progress == [Fields -> States]
Untouched == [f \in Fields |-> "empty"]

VARIABLES
    page,      \* the document: here, cached in the back/forward cache, gone
    frame,     \* loading, loaded (readyAt is set), or removed by cleanup()
    loaded,    \* readyAt is set, also once the frame is removed
    hide,      \* onHeightPageHide is registered
    restore,   \* restoreArmed: onHeightPageShow is registered
    summed,    \* heightSummarySent
    valid,     \* isValid, and valid of form-progress.ts
    form,      \* createFormProgress(): what it keeps
    integrator, \* what the integrator was told last: errors, validity
    history    \* history: what happened and what was told of it

vars == <<page, frame, loaded, hide, restore, summed, valid, form, integrator, history>>

(* progress is Untouched, too, while the frame has sent none.               *)
Forms == [progress : Progress, started : BOOLEAN, becameValid : BOOLEAN,
          shown : SUBSET Errors]

(* touched     a field was ever not empty        untold   errors on show of  *)
(* complete    the card was ever valid                    which no step told *)
(* started, completed   how often told           repeated a step told nothing*)
(* visits, summaries    visits to a loaded form, ended and told     new      *)
Histories ==
    [touched : BOOLEAN, complete : BOOLEAN, started : Nat, completed : Nat,
     untold : SUBSET Errors, repeated : BOOLEAN, visits : Nat, summaries : Nat]

TypeOK ==
    /\ page \in {"here", "cached", "gone"}
    /\ frame \in {"loading", "loaded", "removed"}
    /\ loaded \in BOOLEAN /\ hide \in BOOLEAN /\ restore \in BOOLEAN /\ summed \in BOOLEAN
    /\ valid \in BOOLEAN
    /\ form \in Forms
    /\ integrator \in [errors : SUBSET (Errors \cup Junk), valid : BOOLEAN]
    /\ history \in Histories

Init ==
    /\ page = "here"
    /\ frame = "loading"
    /\ loaded = FALSE
    /\ hide = TRUE
    /\ restore = FALSE
    /\ summed = FALSE
    /\ valid = FALSE
    /\ form = [progress |-> Untouched, started |-> FALSE, becameValid |-> FALSE,
               shown |-> {}]
    /\ integrator = [errors |-> {}, valid |-> FALSE]
    /\ history = [touched |-> FALSE, complete |-> FALSE, started |-> 0, completed |-> 0,
                  untold |-> {}, repeated |-> FALSE, visits |-> 0, summaries |-> 0]

-----------------------------------------------------------------------------
(* The messages of the frame.  One of another window is not looked at.      *)

Listening == page = "here" /\ frame # "removed"

(* Mutants: every report that is not empty starts the form; an entry is     *)
(* handed on as it came; what was on show once is not new again.            *)
StartsAgain(next) == next # Untouched
AsReceived(entries) == entries
EverShown(errors) == form.shown \cup errors

Starts(next) == ~form.started /\ next # Untouched

(* GOPAY_CARD_FORM_PROGRESS with all the fields in one of the states; with  *)
(* anything else it is dropped.                                             *)
ReceiveProgress(next) ==
    /\ Listening
    /\ form' = [form EXCEPT !.progress = next, !.started = @ \/ next # Untouched]
    /\ history' = [history EXCEPT !.touched = @ \/ next # Untouched,
                                  !.started = IF Starts(next) THEN @ + 1 ELSE @]
    /\ UNCHANGED <<page, frame, loaded, hide, restore, summed, valid, integrator>>

(* GOPAY_CARD_FORM_VALIDITY that is news.                                   *)
ReceiveValidity ==
    /\ Listening
    /\ valid' = ~valid
    /\ form' = [form EXCEPT !.becameValid = @ \/ ~valid]
    /\ integrator' = [integrator EXCEPT !.valid = ~valid]
    /\ history' = [history EXCEPT
          !.complete = @ \/ ~valid,
          !.completed = IF ~valid /\ ~form.becameValid THEN @ + 1 ELSE @]
    /\ UNCHANGED <<page, frame, loaded, hide, restore, summed>>

Projected(entries) == entries \cap Errors

NowShown(errors) == errors

(* An attempt to pay is told, and an error that was not on show before.     *)
Tells(errors, trigger) == trigger = "submit" \/ errors \ form.shown # {}

(* GOPAY_CARD_FORM_ERRORS with a list; the trigger may be missing.          *)
ReceiveErrors(entries, trigger) ==
    LET errors == Projected(entries)
        raised == errors \ integrator.errors
        tells == Tells(errors, trigger) IN
    /\ Listening
    /\ form' = [form EXCEPT !.shown = NowShown(errors)]
    /\ integrator' = [integrator EXCEPT !.errors = errors]
    /\ history' = [history EXCEPT
          !.untold = IF tells THEN {} ELSE (@ \cup raised) \cap errors,
          !.repeated = @ \/ (tells /\ trigger # "submit" /\ raised = {})]
    /\ UNCHANGED <<page, frame, loaded, hide, restore, summed, valid>>

-----------------------------------------------------------------------------
(* The visits to the form, and the summary of each.                         *)

FrameLoads ==
    /\ page = "here"
    /\ frame = "loading"
    /\ frame' = "loaded"
    /\ loaded' = TRUE
    /\ UNCHANGED <<page, hide, restore, summed, valid, form, integrator, history>>

(* sendHeightSummary(), which takes the listener of pagehide off.           *)
SendsSummary == loaded /\ ~summed

Summarise(ends) ==
    /\ summed' = (summed \/ SendsSummary)
    /\ history' = [history EXCEPT !.summaries = IF SendsSummary THEN @ + 1 ELSE @,
                                  !.visits = IF ends THEN @ + 1 ELSE @]

(* onHeightPageHide(), while it is registered; it is called once.           *)
PageHide(persisted) ==
    /\ page = "here"
    /\ history.visits < MaxVisits
    /\ page' = IF persisted THEN "cached" ELSE "gone"
    /\ hide' = FALSE
    /\ restore' = (restore \/ (hide /\ persisted))
    /\ IF hide THEN Summarise(frame = "loaded") ELSE UNCHANGED <<summed, history>>
    /\ UNCHANGED <<frame, loaded, valid, form, integrator>>

(* Mutants: a restored form is not listened to again; its summary was told. *)
NoSecondVisit == UNCHANGED <<hide, summed>>
ToldAlready == hide' = TRUE /\ UNCHANGED summed

SecondVisit == hide' = TRUE /\ summed' = FALSE

(* onHeightPageShow(), while it is registered; it is called once.           *)
PageShow ==
    /\ page = "cached"
    /\ page' = "here"
    /\ restore' = FALSE
    /\ IF restore /\ frame # "removed" THEN SecondVisit ELSE UNCHANGED <<hide, summed>>
    /\ UNCHANGED <<frame, loaded, valid, form, integrator, history>>

Disarm == restore' = FALSE

(* cleanup(): the card is encrypted, the frame failed or did not load, or   *)
(* unmount(), which cleans up again while a charge is running.              *)
Cleanup ==
    /\ page = "here"
    /\ history.visits < MaxVisits
    /\ frame' = "removed"
    /\ hide' = FALSE
    /\ Disarm
    /\ Summarise(frame = "loaded")
    /\ UNCHANGED <<page, loaded, valid, form, integrator>>

Next ==
    \/ \E next \in Progress : ReceiveProgress(next)
    \/ ReceiveValidity
    \/ \E entries \in SUBSET (Errors \cup Junk), trigger \in Triggers :
          ReceiveErrors(entries, trigger)
    \/ FrameLoads
    \/ \E persisted \in BOOLEAN : PageHide(persisted)
    \/ PageShow
    \/ Cleanup

Spec == Init /\ [][Next]_vars

-----------------------------------------------------------------------------
(* Properties.                                                              *)

(* form-progress.ts:158-161, 189-224, cards.module.ts:778-812: whatever the *)
(* frame sends and however often, the start of the form and the completion  *)
(* of the card are told once each; an error that appears, also one that     *)
(* went and came back, is told, and one that only stays is not; and the     *)
(* integrator has the validity and the errors the frame sent last, of the   *)
(* protocol's alone.                                                        *)
FormTold ==
    /\ history.started = IF history.touched THEN 1 ELSE 0
    /\ history.completed = IF history.complete THEN 1 ELSE 0
    /\ history.untold = {} /\ ~history.repeated
    /\ integrator = [errors |-> form.shown \cap Errors, valid |-> valid]

(* cards.module.ts:437-442, 478-483, 511-537: every visit to a loaded form  *)
(* that ended -- in a departure, in the frame's removal, or in one after    *)
(* the other across the back/forward cache -- has had one summary, and a    *)
(* form that was removed listens to the page no more.                       *)
OneSummaryPerVisit ==
    /\ history.summaries = history.visits
    /\ frame = "removed" => ~hide /\ ~restore

=============================================================================
