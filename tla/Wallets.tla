------------------------------ MODULE Wallets ------------------------------
(***************************************************************************)
(* The Apple Pay and Google Pay buttons of the browser SDK                 *)
(* (wallets.module.ts), with the script they load and, for Apple Pay, the  *)
(* sheet that startApplePaySession() opens.  A mount waits for the script, *)
(* the device and the payment's configuration; a tap opens the wallet's    *)
(* sheet; what the shopper authorises there is charged and polled.         *)
(*                                                                         *)
(* The two wallets share no state, so one behaviour is about one of them.  *)
(* Mounts may be in different containers of the page.                      *)
(*                                                                         *)
(* The sheets are external.  As the comments of the code have it: one      *)
(* Apple Pay session is open on a page at a time, and begin() throws       *)
(* otherwise; abort() of a session that is over throws; Apple may abandon  *)
(* a sheet while its charge runs.  Google's sheet covers its button.       *)
(*                                                                         *)
(* The integrator's spinner.render, the removal it returns and Google's    *)
(* createButton() are called unguarded: each may throw, and nothing of the *)
(* step follows.                                                           *)
(***************************************************************************)
EXTENDS Naturals

CONSTANTS
    MaxMounts,   \* bound: buttons mounted, numbered from 1
    MaxSessions  \* bound: Apple Pay sessions begun, numbered from 1

VARIABLES
    wallet,    \* which of the two this behaviour is about
    script,    \* loadScriptOnce()'s cache: none, loading or loaded
    tags,      \* the script elements it has in the document
    active,    \* activeAppleCleanup, activeGoogleCleanup: the mount's, or 0
    sessions,  \* the Apple Pay sessions, below
    mounts     \* the buttons, below

vars == <<wallet, script, tags, active, sessions, mounts>>

Mounts == 1 .. MaxMounts
Sessions == 1 .. MaxSessions

Waiting == {"loading", "blocked", "awaiting", "defining", "fetching", "checking"}
Charging == {"preparing", "posting", "polling"}

SessionRecords ==
    [state      : {"unused", "open", "over"},
     of         : 0 .. MaxMounts,
     validation : {"none", "asked", "granted"},
     told       : {"none", "success", "failure"}]  \* completePayment()

(* lost  nothing of the flow runs any more, and its result is pending       *)
MountRecords ==
    [phase      : {"unused", "shown", "lost", "over"} \cup Waiting \cup Charging,
     tracked    : 0 .. MaxSessions,  \* activeSession; 0 for none
     sheet      : BOOLEAN,           \* sheetOpen: loadPaymentData() is out
     authorized : BOOLEAN,
     charging   : BOOLEAN,
     aborted    : BOOLEAN,           \* chargeAbortController
     deaf       : BOOLEAN,           \* the poll no longer listens to it
     result     : {"pending", "succeeded", "failed", "error", "unmounted"},
     charge     : {"none", "sent", "open", "challenged", "refused", "succeeded", "failed"},
     told       : {"none", "known", "inFlight"}]  \* chargeInFlight of unmount's event

TypeOK ==
    /\ wallet \in {"applepay", "googlepay"}
    /\ script \in {"none", "loading", "loaded"}
    /\ tags \in Nat
    /\ active \in 0 .. MaxMounts
    /\ sessions \in [Sessions -> SessionRecords]
    /\ mounts \in [Mounts -> MountRecords]

Init ==
    /\ wallet \in {"applepay", "googlepay"}
    /\ script = "none"
    /\ tags = 0
    /\ active = 0
    /\ sessions = [s \in Sessions |->
           [state |-> "unused", of |-> 0, validation |-> "none", told |-> "none"]]
    /\ mounts = [m \in Mounts |->
           [phase |-> "unused", tracked |-> 0, sheet |-> FALSE, authorized |-> FALSE,
            charging |-> FALSE, aborted |-> FALSE, deaf |-> FALSE,
            result |-> "pending", charge |-> "none", told |-> "none"]]

loader == <<script, tags>>

Becomes(m, r) ==
    /\ mounts' = [mounts EXCEPT ![m] = r]
    /\ UNCHANGED <<wallet, loader, active, sessions>>

-----------------------------------------------------------------------------
(* What ends a mount.                                                       *)

(* resolveResult(), rejectResult(), and the guard they release.             *)
Settled(r, as) == IF r.result = "pending" THEN [r EXCEPT !.result = as] ELSE r

Release(m) == active' = IF mounts[m].result = "pending" THEN 0 ELSE active

(* Mutant: cleanup() forgets the session without aborting it.               *)
CloseNothing(m, as) == sessions' = sessions

(* finishSheet() and cleanup(): the sheet still open is told, or aborted.   *)
CloseSheet(m, as) ==
    sessions' = [s \in Sessions |->
        IF s = mounts[m].tracked /\ sessions[s].state = "open"
        THEN [sessions[s] EXCEPT !.state = "over", !.told = as]
        ELSE sessions[s]]

Over(r) ==
    [r EXCEPT !.phase = "over", !.tracked = 0, !.sheet = FALSE, !.charging = FALSE]

(* Mutant: the sheet is told of success before there is a charge state.     *)
GreenTick(m, as, telling) ==
    /\ mounts' = [mounts EXCEPT ![m] = Over(Settled(@, as))]
    /\ Release(m)
    /\ CloseSheet(m, "success")
    /\ UNCHANGED <<wallet, loader>>

(* The sheet first, then the page.                                          *)
Ends(m, as, telling) ==
    /\ mounts' = [mounts EXCEPT ![m] = Over(Settled(@, as))]
    /\ Release(m)
    /\ CloseSheet(m, telling)
    /\ UNCHANGED <<wallet, loader>>

-----------------------------------------------------------------------------
(* Mounting: from the call to the button.                                   *)

Refused(r) == [r EXCEPT !.phase = "over", !.result = "error"]

AfterLoad == IF wallet = "applepay" THEN "awaiting" ELSE "fetching"

(* No payment is attached, or a button is active already.                   *)
MountRefused(m) ==
    /\ mounts[m].phase = "unused"
    /\ \A n \in 1 .. m - 1 : mounts[n].phase # "unused"
    /\ Becomes(m, Refused(mounts[m]))

(* Mutant: the promise is cached when the script is there, not before.      *)
LoadUncached ==
    /\ script # "loaded"
    /\ script' = script
    /\ tags' = tags + 1

(* loadScriptOnce(), where nothing is loaded yet.                           *)
LoadScriptOnce ==
    \/ /\ script = "none"
       /\ script' = "loading"
       /\ tags' = tags + 1
    \/ script = "loading" /\ UNCHANGED loader

WaitForScript(m) ==
    /\ LoadScriptOnce
    /\ mounts' = [mounts EXCEPT ![m].phase = "loading"]

ScriptIsThere(m, phase) ==
    /\ mounts' = [mounts EXCEPT ![m].phase = phase]
    /\ UNCHANGED loader

(* ensureApplePayLibrary(): the page may have the library, or a tag for it. *)
AppleLibrary(m) ==
    /\ wallet = "applepay"
    /\ \/ ScriptIsThere(m, "defining")
       \/ script = "loaded" /\ ScriptIsThere(m, "awaiting")
       \/ WaitForScript(m)

GoogleLibrary(m) ==
    /\ wallet = "googlepay"
    /\ \/ script = "loaded" /\ ScriptIsThere(m, "fetching")
       \/ WaitForScript(m)

(* Past both guards.                                                        *)
Mount(m) ==
    /\ mounts[m].phase = "unused"
    /\ \A n \in 1 .. m - 1 : mounts[n].phase # "unused"
    /\ active = 0
    /\ AppleLibrary(m) \/ GoogleLibrary(m)
    /\ UNCHANGED <<wallet, active, sessions>>

(* getApplePayAvailability(), which shares the load with the mounts.        *)
Probe ==
    /\ wallet = "applepay"
    /\ LoadScriptOnce
    /\ UNCHANGED <<wallet, active, sessions, mounts>>

ScriptLoads ==
    /\ script = "loading"
    /\ script' = "loaded"
    /\ mounts' = [m \in Mounts |->
           IF mounts[m].phase = "loading" THEN [mounts[m] EXCEPT !.phase = AfterLoad]
           ELSE mounts[m]]
    /\ UNCHANGED <<wallet, tags, active, sessions>>

(* The error reaches every mount that waits, and the script can be asked    *)
(* for again.                                                               *)
ScriptFails ==
    /\ script = "loading"
    /\ script' = "none"
    /\ tags' = tags - 1
    /\ mounts' = [m \in Mounts |->
           IF mounts[m].phase = "loading" THEN [mounts[m] EXCEPT !.phase = "blocked"]
           ELSE mounts[m]]
    /\ UNCHANGED <<wallet, active, sessions>>

(* makeUnavailableController().                                             *)
Blocked(m) ==
    /\ mounts[m].phase = "blocked"
    /\ Becomes(m, Refused(mounts[m]))

Shown(m) ==
    /\ mounts' = [mounts EXCEPT ![m].phase = "shown"]
    /\ active' = m
    /\ UNCHANGED <<wallet, loader, sessions>>

(* waitForApplePaySession(): 20 looks, and what they see is asked later.    *)
SessionAwaited(m) ==
    /\ mounts[m].phase = "awaiting"
    /\ Becomes(m, [mounts[m] EXCEPT !.phase = "defining"])

(* whenApplePayButtonDefined(), in time.                                    *)
Defined(m) ==
    /\ mounts[m].phase = "defining"
    /\ Becomes(m, [mounts[m] EXCEPT !.phase = "fetching"])

(* It is not, there is no ApplePaySession, or the device cannot pay.        *)
NotOffered(m) ==
    /\ mounts[m].phase = "defining"
    /\ Becomes(m, Refused(mounts[m]))

InfoArrives(m) ==
    /\ mounts[m].phase = "fetching"
    /\ IF wallet = "applepay" THEN Shown(m)
       ELSE Becomes(m, [mounts[m] EXCEPT !.phase = "checking"])

InfoFails(m) ==
    /\ mounts[m].phase = "fetching"
    /\ Becomes(m, Refused(mounts[m]))

(* Google's isReadyToPay(), which nothing bounds.                           *)
Ready(m) == mounts[m].phase = "checking" /\ Shown(m)

NotReady(m) ==
    /\ mounts[m].phase = "checking"
    /\ Becomes(m, Refused(mounts[m]))

(* createButton() throws once the guard is taken: the mount rejects, and    *)
(* nothing of its own releases it.                                          *)
ButtonThrows(m) ==
    /\ wallet = "googlepay"
    /\ mounts[m].phase = "checking"
    /\ mounts' = [mounts EXCEPT ![m] = Refused(@)]
    /\ active' = m
    /\ UNCHANGED <<wallet, loader, sessions>>

-----------------------------------------------------------------------------
(* The Apple Pay sheet.                                                     *)

NothingOpen == \A s \in Sessions : sessions[s].state # "open"

(* Mutant: the second tap is not refused.                                   *)
TapAgain(m) ==
    /\ wallet = "applepay"
    /\ mounts[m].phase = "shown"

TapHeard(m) ==
    /\ wallet = "applepay"
    /\ mounts[m].phase = "shown"
    /\ mounts[m].tracked = 0

AppleTap(m, s) ==
    /\ TapHeard(m)
    /\ sessions[s].state = "unused"
    /\ \A t \in 1 .. s - 1 : sessions[t].state # "unused"
    /\ NothingOpen
    /\ sessions' = [sessions EXCEPT ![s] =
           [@ EXCEPT !.state = "open", !.of = m, !.validation = "asked"]]
    /\ mounts' = [mounts EXCEPT ![m].tracked = s]
    /\ UNCHANGED <<wallet, loader, active>>

(* The constructor or begin() throws, the latter if another sheet is open;  *)
(* activeSession was cleared, or not yet set.                               *)
AppleTapThrows(m) ==
    /\ TapHeard(m)
    /\ mounts' = [mounts EXCEPT ![m] = Over(Settled(@, "error"))]
    /\ Release(m)
    /\ UNCHANGED <<wallet, loader, sessions>>

(* completeMerchantValidation().                                            *)
Validated(s) ==
    /\ sessions[s].state = "open"
    /\ sessions[s].validation = "asked"
    /\ sessions' = [sessions EXCEPT ![s].validation = "granted"]
    /\ UNCHANGED <<wallet, loader, active, mounts>>

(* Mutant: the guard of the tap is left as it is.                           *)
GuardKept(s) ==
    /\ sessions' = [sessions EXCEPT ![s].state = "over"]
    /\ UNCHANGED <<wallet, loader, active, mounts>>

(* The sheet is gone.  Whatever session its button tracks is dropped.       *)
SheetGone(s) ==
    /\ sessions' = [sessions EXCEPT ![s].state = "over"]
    /\ mounts' = [mounts EXCEPT ![sessions[s].of].tracked = 0]
    /\ UNCHANGED <<wallet, loader, active>>

(* Mutant: abort() of a session that is over returns.                       *)
ValidationFailsLate(s) == sessions[s].validation = "asked" /\ SheetGone(s)

(* On a session that is over the abort() throws, and nothing follows.       *)
ValidationFails(s) ==
    /\ sessions[s].state = "open"
    /\ sessions[s].validation = "asked"
    /\ SheetGone(s)

Cancel(s) == sessions[s].state = "open" /\ SheetGone(s)

(* Apple gives up on a sheet it has waited on too long, and says nothing.   *)
Abandon(s) ==
    /\ sessions[s].state = "open"
    /\ mounts[sessions[s].of].authorized
    /\ sessions' = [sessions EXCEPT ![s].state = "over"]
    /\ UNCHANGED <<wallet, loader, active, mounts>>

(* runChargeFlow() begins, or ends with the spinner's render().             *)
Charge(m, authorized) ==
    \E phase \in {"preparing", "lost"} :
        Becomes(m, [mounts[m] EXCEPT !.phase = phase, !.charging = TRUE,
                                     !.sheet = FALSE, !.authorized = authorized])

(* The authorisation has no payment data.                                   *)
DataMissing(m) == Ends(m, "error", "failure")

(* Mutant: a second authorisation is charged again.                         *)
AuthorizeAgain(s) ==
    /\ sessions[s].state = "open"
    /\ sessions[s].validation = "granted"
    /\ \/ Charge(sessions[s].of, TRUE)
       \/ DataMissing(sessions[s].of)

(* handlePaymentAuthorized().                                               *)
Authorize(s) ==
    /\ sessions[s].state = "open"
    /\ sessions[s].validation = "granted"
    /\ ~mounts[sessions[s].of].authorized
    /\ \/ Charge(sessions[s].of, TRUE)
       \/ DataMissing(sessions[s].of)

-----------------------------------------------------------------------------
(* The Google Pay sheet.                                                    *)

GoogleTap(m) ==
    /\ wallet = "googlepay"
    /\ mounts[m].phase = "shown"
    /\ ~mounts[m].sheet
    /\ Becomes(m, [mounts[m] EXCEPT !.sheet = TRUE])

GoogleCancelled(m) ==
    /\ mounts[m].sheet
    /\ Becomes(m, [mounts[m] EXCEPT !.sheet = FALSE])

GoogleFails(m) == mounts[m].sheet /\ Ends(m, "error", "none")

(* The token is missing, or is not JSON.                                    *)
TokenUnusable(m) == Ends(m, "error", "none")

(* After unmount() the charge is begun with a signal that is aborted, and   *)
(* nothing comes of it.                                                     *)
GoogleApproved(m) ==
    /\ mounts[m].sheet
    /\ IF mounts[m].aborted
       THEN Becomes(m, [mounts[m] EXCEPT !.sheet = FALSE])
       ELSE Charge(m, FALSE) \/ TokenUnusable(m)

-----------------------------------------------------------------------------
(* The charge.                                                              *)

(* Mutant: the abort does not reach the charge.                             *)
SendAnyway(m) ==
    /\ mounts[m].phase = "preparing"
    /\ Becomes(m, [mounts[m] EXCEPT !.phase = "posting", !.charge = "sent"])

Send(m) ==
    /\ mounts[m].phase = "preparing"
    /\ ~mounts[m].aborted
    /\ Becomes(m, [mounts[m] EXCEPT !.phase = "posting", !.charge = "sent"])

(* GoPay, whether or not anyone still waits for it.                         *)
GoPayMoves(m) ==
    \/ /\ mounts[m].charge = "sent"
       /\ \E c \in {"open", "refused"} : Becomes(m, [mounts[m] EXCEPT !.charge = c])
    \/ /\ mounts[m].charge \in {"open", "challenged"}
       /\ \E c \in {"challenged", "succeeded", "failed"} :
              Becomes(m, [mounts[m] EXCEPT !.charge = c])

Accepted(m) ==
    /\ mounts[m].phase = "posting"
    /\ ~mounts[m].aborted
    /\ mounts[m].charge \notin {"sent", "refused"}
    /\ Becomes(m, [mounts[m] EXCEPT !.phase = "polling"])

(* unmount().  The request and the poll hear of it later (AbortStops).      *)
Unmounted(r) ==
    [r EXCEPT !.aborted = TRUE, !.tracked = 0, !.result = "unmounted",
              !.told = IF r.charging THEN "inFlight" ELSE "known",
              !.phase = IF r.phase \in Charging THEN r.phase ELSE "over"]

(* The spinner's removal throws in the catch as well.  The sheet stays as   *)
(* it is, and the charge counts as under way.                               *)
Stranded(r) == [r EXCEPT !.phase = IF r.result = "pending" THEN "lost" ELSE "over"]

(* The flow's end.  The integrator is told `idle' first, and may unmount.   *)
FlowEnds(m, as, telling) ==
    \/ Becomes(m, Stranded(mounts[m]))
    \/ Ends(m, as, telling)
    \/ /\ mounts[m].result = "pending"
       /\ mounts' = [mounts EXCEPT ![m] = Over(Unmounted(@))]
       /\ Release(m)
       /\ CloseSheet(m, "none")
       /\ UNCHANGED <<wallet, loader>>

(* The browser data or the POST fails, answered or not.                     *)
RequestFails(m) ==
    /\ mounts[m].phase \in {"preparing", "posting"}
    /\ FlowEnds(m, "error", "failure")

(* Any end of awaitChargeState() that is not the charge's own.              *)
PollFails(m) ==
    /\ mounts[m].phase = "polling"
    /\ FlowEnds(m, "error", "failure")

PollEnds(m) ==
    /\ mounts[m].phase = "polling"
    /\ mounts[m].aborted => mounts[m].deaf
    /\ \/ mounts[m].charge = "succeeded" /\ FlowEnds(m, "succeeded", "success")
       \/ mounts[m].charge = "failed" /\ FlowEnds(m, "failed", "failure")

(* Mutant: an Apple Pay charge that asks for 3DS is only polled.            *)
RefuseNothing(m) ==
    /\ mounts[m].phase = "polling"
    /\ mounts[m].charge = "challenged"
    /\ UNCHANGED vars

(* refuseActionRequired: no 3DS under an Apple Pay sheet.                   *)
RefuseChallenge(m) ==
    /\ wallet = "applepay"
    /\ mounts[m].phase = "polling"
    /\ mounts[m].charge = "challenged"
    /\ ~mounts[m].aborted
    /\ FlowEnds(m, "error", "failure")

(* The page left for 3DS and was restored: the poll no longer hears the     *)
(* abort (AbortHeard of BrowserCharge).  Not in Apple Pay's manual mode.    *)
PageRestored(m) ==
    /\ wallet = "googlepay"
    /\ mounts[m].phase = "polling"
    /\ mounts[m].charge = "challenged"
    /\ ~mounts[m].aborted
    /\ Becomes(m, [mounts[m] EXCEPT !.deaf = TRUE])

(* The request or the poll rejects, and the handler after it.               *)
AbortStops(m) ==
    /\ mounts[m].phase \in Charging
    /\ mounts[m].aborted /\ ~mounts[m].deaf
    /\ Ends(m, "error", "failure")

Unmount(m) ==
    /\ mounts[m].phase \in {"shown", "lost"} \cup Charging
    /\ mounts[m].result = "pending"
    /\ mounts' = [mounts EXCEPT ![m] = Unmounted(@)]
    /\ Release(m)
    /\ CloseSheet(m, "none")
    /\ UNCHANGED <<wallet, loader>>

-----------------------------------------------------------------------------

AppleAnswers(m) == SessionAwaited(m) \/ Defined(m) \/ NotOffered(m)

InfoAnswered(m) == InfoArrives(m) \/ InfoFails(m)

RequestEnds(m) == Send(m) \/ Accepted(m) \/ RequestFails(m)

Next ==
    \/ Probe \/ ScriptLoads \/ ScriptFails
    \/ \E m \in Mounts :
        \/ MountRefused(m) \/ Mount(m)
        \/ Blocked(m) \/ AppleAnswers(m) \/ InfoAnswered(m)
        \/ Ready(m) \/ NotReady(m) \/ ButtonThrows(m)
        \/ \E s \in Sessions : AppleTap(m, s)
        \/ AppleTapThrows(m)
        \/ GoogleTap(m) \/ GoogleCancelled(m) \/ GoogleFails(m) \/ GoogleApproved(m)
        \/ RequestEnds(m) \/ GoPayMoves(m) \/ PollFails(m) \/ PollEnds(m)
        \/ RefuseChallenge(m) \/ PageRestored(m) \/ AbortStops(m) \/ Unmount(m)
    \/ \E s \in Sessions :
        \/ Validated(s) \/ ValidationFails(s) \/ Cancel(s) \/ Abandon(s)
        \/ Authorize(s)

Spec == Init /\ [][Next]_vars

(* The waits for Apple's script have their bounds, requests answer or time  *)
(* out, an abort is heard, and a state GoPay stays in is polled.            *)
Fairness ==
    \A m \in Mounts :
        /\ WF_vars(AppleAnswers(m)) /\ WF_vars(InfoAnswered(m))
        /\ WF_vars(RequestEnds(m)) /\ WF_vars(AbortStops(m))
        /\ WF_vars(RefuseChallenge(m))

FairSpec == Spec /\ Fairness

-----------------------------------------------------------------------------
(* Properties.                                                              *)

(* load-script.ts:1-5,39-41: any number of mounts share one script element, *)
(* and none waits for a script that is not on its way.                      *)
ScriptShared ==
    /\ tags <= 1
    /\ (\E m \in Mounts : mounts[m].phase = "loading") => tags = 1

(* wallets.module.ts:1196-1203,1440-1447: a sheet on the page is the one    *)
(* its button tracks, and the button's result is pending: nothing leaves a  *)
(* sheet behind that takes a payment nobody waits for.  And a button that   *)
(* ignores taps has a sheet on the page.  (1399-1405) What a sheet tells the *)
(* customer is true: one that shows success was paid.                       *)
SheetTracked ==
    /\ \A s \in Sessions :
        sessions[s].state = "open" =>
            /\ mounts[sessions[s].of].tracked = s
            /\ mounts[sessions[s].of].result = "pending"
    /\ \A m \in Mounts :
        mounts[m].phase = "shown" /\ mounts[m].tracked # 0 =>
            sessions[mounts[m].tracked].state = "open"
    /\ \A s \in Sessions :
        sessions[s].told = "success" => mounts[sessions[s].of].charge = "succeeded"

(* wallets.module.ts:79-94: as a card form, a button charges once, for a    *)
(* result that is the charge's, and nothing once it is unmounted.           *)
Flow == INSTANCE ChargeFlow WITH
    Flows <- Mounts,
    charge <- [m \in Mounts |->
        IF mounts[m].charge = "challenged" THEN "open" ELSE mounts[m].charge],
    result <- [m \in Mounts |-> mounts[m].result],
    told <- [m \in Mounts |-> mounts[m].told]

ImplementsChargeFlow == Flow!Spec

(* wallets.module.ts:811-822,857-859: a mount gets past Apple's script and  *)
(* the configuration, no request holds a charge up, an Apple Pay charge     *)
(* that asks for 3DS does not poll for ever, and an unmounted one ends.     *)
(* The end is no result where the integrator's spinner throws.              *)
WalletEnds ==
    \A m \in Mounts :
        /\ mounts[m].phase \in {"awaiting", "defining", "fetching"}
               ~> mounts[m].phase \notin {"awaiting", "defining", "fetching"}
        /\ mounts[m].phase \in {"preparing", "posting"}
               ~> mounts[m].phase \notin {"preparing", "posting"}
        /\ (wallet = "applepay" /\ mounts[m].charge = "challenged")
               ~> (mounts[m].phase \in {"over", "lost"} \/ mounts[m].charge # "challenged")
        /\ (mounts[m].aborted /\ ~mounts[m].deaf) ~> mounts[m].phase = "over"

(* wallets.module.ts:1031-1034,1547-1550: a button is mounted only once the *)
(* one before it is unmounted or settled.                                   *)
OneButton ==
    \A m, n \in Mounts :
        /\ mounts[m].phase \in {"shown"} \cup Charging
        /\ mounts[n].phase \in {"shown"} \cup Charging
        /\ mounts[m].result = "pending" /\ mounts[n].result = "pending"
        => m = n

=============================================================================
