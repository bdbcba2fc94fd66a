------------------------------ MODULE PageVisit ------------------------------
(***************************************************************************)
(* What gw-logger is told of a page and of its departures: the leave told  *)
(* once for each (leave-beacon.ts, leave-latch.ts, redirect() of           *)
(* gw-logger.ts) and the states the page goes through                      *)
(* (page-lifecycle.ts).  An integrator may build an SDK for every render;  *)
(* the listeners, the latch and what was last told are the page's, and     *)
(* tell through the SDK built last.                                        *)
(***************************************************************************)
EXTENDS GwLogger

CONSTANTS
    MaxSDKs,   \* SDKs built on the page
    Traffic    \* what they tell besides: of calls, wallets, attached payments

ASSUME SDKsAssumption == MaxSDKs \in Nat
ASSUME TrafficAssumption == Traffic \subseteq Names

SDKs == 1 .. MaxSDKs

VARIABLES
    page,       \* the document, as the browser has it
    built,      \* SDKs built so far; the last is activeTelemetry
    spent,      \* SDK -> kind -> events sent
    armed,      \* the leave beacon listens to pagehide
    leftAt,     \* when markLeft() was called last: within LATCH_MS, or before
    visibility, \* the visibility last told, or the one the page was found in
    arrived,    \* arrivalReported, discardReported
    card,       \* SDK -> its card form, and readyAt.card
    markers,    \* history: SDK -> events of the funnel it sent
    told        \* history: the leaves told for the departure to come, or just past

vars == <<page, built, spent, armed, leftAt, visibility, arrived, card, markers, told>>

Places == {"here", "cached", "gone"}    \* cached: in the back/forward cache
Leaves == {"none", "redirect", "beacon", "both", "refused", "unbuildable"}

(* A form and the ready it is timed from: its own, or that of one before.   *)
Cards ==
    [form    : {"none", "mounting", "ready"},
     readyAt : {"none", "own", "earlier"},
     timed   : {"none", "own", "earlier"}]

TypeOK ==
    /\ page \in [where : Places, shown : {"visible", "hidden"}, frozen : BOOLEAN]
    /\ built \in 0 .. MaxSDKs
    /\ spent \in [SDKs -> [Kinds -> Nat]]
    /\ armed \in BOOLEAN
    /\ leftAt \in {"never", "lately", "before"}
    /\ visibility \in {"unknown", "visible", "hidden"}
    /\ arrived \in BOOLEAN
    /\ card \in [SDKs -> Cards]
    /\ markers \in [SDKs -> Nat]
    /\ told \in Leaves

Init ==
    /\ page \in [where : {"here"}, shown : {"visible", "hidden"}, frozen : {FALSE}]
    /\ built = 0
    /\ spent = [i \in SDKs |-> Unspent]
    /\ armed = FALSE
    /\ leftAt = "never"
    /\ visibility = "unknown"
    /\ arrived = FALSE
    /\ card = [i \in SDKs |-> [form |-> "none", readyAt |-> "none", timed |-> "none"]]
    /\ markers = [i \in SDKs |-> 0]
    /\ told = "none"

-----------------------------------------------------------------------------

(* post(), as far as budgets go: what is spent once an event was asked for. *)
Sent(s, i, name) == IF Within(s[i], name) THEN [s EXCEPT ![i] = Spend(@, name)] ELSE s

(* An event of the funnel, which may also fail to build.                    *)
Goes(i, name, builds) == builds /\ Within(spent[i], name)

Mark(i, name, builds) ==
    /\ spent' = IF builds THEN Sent(spent, i, name) ELSE spent
    /\ markers' = IF Goes(i, name, builds) THEN [markers EXCEPT ![i] = @ + 1] ELSE markers

(* report(): an event of the page, through the SDK built last.              *)
Report(s, name) == IF built = 0 THEN s ELSE Sent(s, built, name)

Running == page.where = "here" /\ ~page.frozen

-----------------------------------------------------------------------------
(* leave-latch.ts.                                                          *)

(* Mutants: the latch holds for ever; a leave that was refused stands in.   *)
EverLeft == leftAt # "never"
MarkAnyway(i, builds) == leftAt' = "lately"

HasLeft == leftAt = "lately"

MarkLeft(i, builds) == leftAt' = IF Goes(i, "leave", builds) THEN "lately" ELSE leftAt

ResetLeft == leftAt' = "never"

(* LATCH_MS pass.  The page was not taken away: the leave told was that of  *)
(* a redirect that came to nothing.                                         *)
LatchExpires ==
    /\ leftAt = "lately"
    /\ leftAt' = "before"
    /\ told' = IF page.where = "here" THEN "none" ELSE told
    /\ UNCHANGED <<page, built, spent, armed, visibility, arrived, card, markers>>

-----------------------------------------------------------------------------
(* createGoPayBrowserSDK(): init, the leave beacon and the page's states.   *)
(* How the page was reached, and that it was discarded, need not be known.  *)

Register(reports) ==
    /\ visibility' = IF visibility = "unknown" THEN page.shown ELSE visibility
    /\ arrived' = TRUE
    /\ spent' = LET init == Sent(spent, built + 1, "init")
                    known == IF "arrival" \in reports
                             THEN Sent(init, built + 1, "arrival") ELSE init
                IN  IF arrived THEN init
                    ELSE IF "discarded" \in reports THEN Sent(known, built + 1, "discarded")
                    ELSE known

Build(reports) ==
    /\ Running
    /\ built < MaxSDKs
    /\ built' = built + 1
    /\ markers' = [markers EXCEPT ![built + 1] = 1]
    /\ armed' = TRUE
    /\ ResetLeft
    /\ Register(reports)
    /\ told' = "none"
    /\ UNCHANGED <<page, card>>

(* Anything else an SDK tells while the page runs, one built before too.    *)
Tell(i, name) ==
    /\ Running
    /\ i <= built
    /\ spent' = Sent(spent, i, name)
    /\ markers' = IF name \in Funnel /\ Within(spent[i], name)
                  THEN [markers EXCEPT ![i] = @ + 1] ELSE markers
    /\ UNCHANGED <<page, built, armed, leftAt, visibility, arrived, card, told>>

(* redirect(): a 3DS challenge takes the page away, or should.              *)
Redirect(i, builds) ==
    /\ Running
    /\ i <= built
    /\ Mark(i, "leave", builds)
    /\ MarkLeft(i, builds)
    /\ told' = IF Goes(i, "leave", builds) THEN "redirect" ELSE told
    /\ UNCHANGED <<page, built, armed, visibility, arrived, card>>

-----------------------------------------------------------------------------
(* The card form, as far as ready() and unmount() go.                       *)

Older(readyAt) == IF readyAt = "own" THEN "earlier" ELSE readyAt

MountForm(i) ==
    /\ Running
    /\ i <= built
    /\ card[i].form = "none"
    /\ card' = [card EXCEPT ![i].form = "mounting", ![i].readyAt = Older(@)]
    /\ UNCHANGED <<page, built, spent, armed, leftAt, visibility, arrived, markers, told>>

Ready(i, builds) ==
    /\ Running
    /\ card[i].form = "mounting"
    /\ card' = [card EXCEPT ![i].form = "ready", ![i].readyAt = "own"]
    /\ Mark(i, "ready", builds)
    /\ UNCHANGED <<page, built, armed, leftAt, visibility, arrived, told>>

Unmount(i, builds) ==
    /\ Running
    /\ card[i].form # "none"
    /\ card' = [card EXCEPT ![i] = [form |-> "none", readyAt |-> "none", timed |-> @.readyAt]]
    /\ Mark(i, "unmount", builds)
    /\ UNCHANGED <<page, built, armed, leftAt, visibility, arrived, told>>

(* The form's result settled: unmount() has nothing left to do or to tell.  *)
FormSettles(i) ==
    /\ Running
    /\ card[i].form # "none"
    /\ card' = [card EXCEPT ![i].form = "none"]
    /\ UNCHANGED <<page, built, spent, armed, leftAt, visibility, arrived, markers, told>>

-----------------------------------------------------------------------------
(* The page.                                                                *)

(* onVisibilityChange().                                                    *)
Seen(shown) == IF built = 0 THEN visibility ELSE shown

Shown(s, shown) == IF shown # visibility THEN Report(s, shown) ELSE s

ChangeVisibility ==
    /\ Running
    /\ \E shown \in {"visible", "hidden"} \ {page.shown} :
          /\ page' = [page EXCEPT !.shown = shown]
          /\ visibility' = Seen(shown)
          /\ spent' = Shown(spent, shown)
    /\ UNCHANGED <<built, armed, leftAt, arrived, card, markers, told>>

Freeze ==
    /\ Running
    /\ page.shown = "hidden"
    /\ page' = [page EXCEPT !.frozen = TRUE]
    /\ spent' = Report(spent, "freeze")
    /\ UNCHANGED <<built, armed, leftAt, visibility, arrived, card, markers, told>>

Resume ==
    /\ page.where = "here" /\ page.frozen
    /\ page' = [page EXCEPT !.frozen = FALSE]
    /\ spent' = Report(spent, "resume")
    /\ UNCHANGED <<built, armed, leftAt, visibility, arrived, card, markers, told>>

(* onPageHide() of the beacon, a listener that is called once, and          *)
(* onVisibilityChange().                                                    *)
Beacon(builds) ==
    IF ~armed \/ HasLeft
    THEN spent' = Shown(spent, "hidden") /\ UNCHANGED <<markers, told>>
    ELSE /\ spent' = Shown(IF builds THEN Sent(spent, built, "leave") ELSE spent, "hidden")
         /\ markers' = IF Goes(built, "leave", builds)
                       THEN [markers EXCEPT ![built] = @ + 1] ELSE markers
         /\ told' = IF ~builds THEN "unbuildable"
                    ELSE IF ~Goes(built, "leave", builds) THEN "refused"
                    ELSE IF told = "none" THEN "beacon" ELSE "both"

(* The page is left, and perhaps kept; it is hidden next.                   *)
PageHide(persisted, builds) ==
    /\ Running
    /\ page' = [page EXCEPT !.where = IF persisted THEN "cached" ELSE "gone",
                            !.shown = "hidden"]
    /\ visibility' = Seen("hidden")
    /\ armed' = FALSE
    /\ Beacon(builds)
    /\ UNCHANGED <<built, leftAt, arrived, card>>

(* Mutant: the restored page is not listened to.                            *)
StayDisarmed == UNCHANGED <<armed, leftAt>>

RearmLeaveBeacon ==
    IF built = 0 THEN UNCHANGED <<armed, leftAt>> ELSE armed' = TRUE /\ ResetLeft

(* A page that comes back is seen, and tells so.                            *)
Restore ==
    /\ page.where = "cached"
    /\ page' = [page EXCEPT !.where = "here", !.shown = "visible"]
    /\ visibility' = Seen("visible")
    /\ spent' = Report(Shown(spent, "visible"), "restored")
    /\ RearmLeaveBeacon
    /\ told' = "none"
    /\ UNCHANGED <<built, arrived, card, markers>>

Next ==
    \/ \E reports \in SUBSET {"arrival", "discarded"} : Build(reports)
    \/ \E p, b \in BOOLEAN : PageHide(p, b)
    \/ \E i \in SDKs :
          \/ \E name \in Traffic : Tell(i, name)
          \/ \E b \in BOOLEAN : Redirect(i, b) \/ Ready(i, b) \/ Unmount(i, b)
          \/ MountForm(i) \/ FormSettles(i)
    \/ LatchExpires
    \/ ChangeVisibility \/ Freeze \/ Resume \/ Restore

Spec == Init /\ [][Next]_vars

-----------------------------------------------------------------------------
(* Properties.                                                              *)

(* leave-beacon.ts:30-62, leave-latch.ts:7-21: a page that was left has     *)
(* told one leave of it, the redirect's or the beacon's and never both,     *)
(* however many SDKs were built, redirects dropped and restores gone before *)
(* -- unless the SDK built last has spent the funnel's budget on markers of *)
(* the funnel (gw-logger.ts:80-88), or the event could not be built.        *)
LeaveTold ==
    /\ told # "both"
    /\ page.where # "here" /\ built > 0 => told # "none"
    /\ told = "refused" => markers[built] = Budget["lifecycle"]

(* What a reader may expect and TLC refutes.  gw-logger.ts:1007: "The mount *)
(* that ended took its ready with it: a remount torn down before its own    *)
(* ready must not be timed from this one's".  A form whose result settled   *)
(* ends without unmount(), and its ready stays.                             *)
UnmountTimed == \A i \in SDKs : card[i].timed # "earlier"

=============================================================================
