---------------------------- MODULE BrowserCharge ----------------------------
(***************************************************************************)
(* awaitChargeState() of the browser SDK                                   *)
(* (browser-sdk/src/modules/payments/payments.module.ts): AwaitCharge on a *)
(* signal of its own, chained to the caller's, and raced against a         *)
(* watchdog that notices a 3DS redirect which never left the page.  The    *)
(* page may be left, frozen into the back/forward cache, and come back.    *)
(***************************************************************************)
EXTENDS AwaitCharge

CONSTANTS
    Insecure,   \* those of the redirect URLs that are not https
    MaxLeaves   \* how often the page is left

VARIABLES
    redirects,  \* threeDS.mode is not `manual'
    watch,      \* the race around the wait, below
    page,       \* here, or cached: nothing of it runs
    leaves,     \* how often it was left
    navigating  \* history: a redirect was issued and the page is still here

vars == <<waitVars, redirects, watch, page, leaves, navigating>>

Watches ==
    [stall    : {"unset", "armed", "cleared", "fired"},
     hiding   : BOOLEAN,   \* pagehide is listened to
     chained  : BOOLEAN,   \* the caller's abort is listened to
     result   : Outcomes \cup {"stalled"}]  \* of the promise returned

TypeOK ==
    /\ AwaitTypeOK
    /\ redirects \in BOOLEAN
    /\ watch \in Watches
    /\ page \in {"here", "cached"}
    /\ leaves \in 0 .. MaxLeaves
    /\ navigating \in BOOLEAN

(* stopWatching().                                                          *)
StopWatching(w) ==
    [w EXCEPT !.stall = IF @ = "armed" THEN "cleared" ELSE @,
              !.hiding = FALSE, !.chained = FALSE]

(* Promise.race([settled, stalled]).finally(stopWatching), which runs       *)
(* before the event loop takes another task.                                *)
Raced(w, outcome) ==
    IF w.result = "pending" /\ outcome # "pending"
    THEN [StopWatching(w) EXCEPT !.result = outcome]
    ELSE w

NewWatch(alreadyAborted) ==
    [stall |-> "unset", hiding |-> FALSE, chained |-> ~alreadyAborted,
     result |-> "pending"]

Init ==
    /\ AwaitInit
    /\ redirects \in BOOLEAN
    /\ watch = Raced(NewWatch(aborted), loop.outcome)
    /\ page = "here"
    /\ leaves = 0
    /\ navigating = FALSE

-----------------------------------------------------------------------------

(* A step of the wait that redirects nobody.                                *)
WaitStep(step) ==
    /\ page = "here"
    /\ step
    /\ watch' = Raced(watch, loop'.outcome)
    /\ UNCHANGED <<redirects, page, leaves, navigating>>

(* Mutant: pagehide is not listened to.                                     *)
ArmedDeaf(w) == IF w.stall = "unset" THEN [w EXCEPT !.stall = "armed"] ELSE w

(* Mutant: the mode is tested the wrong way round.                          *)
ArmedInManualMode(w) ==
    IF w.stall = "unset" /\ ~redirects
    THEN [w EXCEPT !.stall = "armed", !.hiding = TRUE] ELSE w

(* Armed once: `stall' stays set when its timer is cleared.                 *)
Armed(w) ==
    IF w.stall = "unset" THEN [w EXCEPT !.stall = "armed", !.hiding = TRUE] ELSE w

(* handle3DS() and, in redirect mode, the watchdog.                         *)
Acts(does, acts) ==
    /\ page = "here"
    /\ TickNewAction(does, acts, watch.chained)
    /\ reply.url \in Insecure => acts = "throws"
    /\ IF redirects /\ acts # "throws"
       THEN /\ navigating' = TRUE
            /\ watch' = Raced(Armed(watch), loop'.outcome)
       ELSE /\ watch' = Raced(watch, loop'.outcome)
            /\ UNCHANGED navigating
    /\ UNCHANGED <<redirects, page, leaves>>

(* Mutants of the watchdog: its poll goes on; the poll is aborted first.    *)
StallPollsOn == loop' = loop /\ watch' = Raced([watch EXCEPT !.stall = "fired"], "stalled")
StallAbortsFirst ==
    /\ loop' = AbortFires(loop)
    /\ watch' = Raced(Raced([watch EXCEPT !.stall = "fired"], loop'.outcome), "stalled")

(* giveUp() rejects first; the aborted poll's own rejection comes second.   *)
GiveUp ==
    /\ loop' = AbortFires(loop)
    /\ watch' = Raced(Raced([watch EXCEPT !.stall = "fired"], "stalled"), loop'.outcome)

(* GoPay does not wait for the page.                                        *)
ChargeMovesOn == ChargeMoves /\ UNCHANGED <<redirects, watch, page, leaves, navigating>>

StallTimer ==
    /\ page = "here"
    /\ watch.stall = "armed"
    /\ GiveUp
    /\ UNCHANGED <<lastUrl, reply, charge, moves, aborted, seen, told>>
    /\ UNCHANGED <<redirects, page, leaves, navigating>>

(* pagehide, by the redirect or by the customer, into the bfcache.          *)
PageHides ==
    /\ page = "here"
    /\ leaves < MaxLeaves
    /\ page' = "cached"
    /\ leaves' = leaves + 1
    /\ navigating' = FALSE
    /\ watch' = IF watch.hiding THEN StopWatching(watch) ELSE watch
    /\ UNCHANGED <<waitVars, redirects>>

PageShows ==
    /\ page = "cached"
    /\ page' = "here"
    /\ UNCHANGED <<waitVars, redirects, watch, leaves, navigating>>

Calm == {"returns", "aborts"}

Hears == watch.chained

TickTaken ==
    \/ WaitStep(TickThrows)
    \/ \E does \in Calm :
          \/ WaitStep(TickEnds(does, Hears)) \/ WaitStep(TickWaits(does, Hears))
          \/ WaitStep(TickSameAction(does, Hears))
          \/ \E acts \in Behaviours : Acts(does, acts)

Answers == WaitStep(RequestAnswered) \/ WaitStep(RequestFails)

Polls == WaitStep(PollTimer)

Limits == WaitStep(LimitTimer)

Next ==
    \/ ChargeMovesOn
    \/ Answers \/ WaitStep(LateAnswer)
    \/ TickTaken \/ Polls \/ Limits
    \/ StallTimer
    \/ WaitStep(CallerAborts(Hears))
    \/ PageHides \/ PageShows

Spec == Init /\ [][Next]_vars

(* Requests are answered or time out, timers fire while the page runs.      *)
Fairness ==
    /\ WF_vars(Answers) /\ WF_vars(TickTaken)
    /\ WF_vars(Polls) /\ WF_vars(Limits) /\ WF_vars(StallTimer)

FairSpec == Spec /\ Fairness

-----------------------------------------------------------------------------
(* Properties.                                                              *)

(* payments.module.ts:249-255,314-316: the promise settles exactly when the *)
(* polling stops; giving up on a redirect does not leave the charge polled  *)
(* for as long as the page stays open, and is reported as the timeout it    *)
(* is: `aborted' is what the caller did.                                    *)
SettledIsStopped ==
    /\ watch.result # "pending" <=> loop.stopped
    /\ watch.result = "aborted" => aborted

(* payments.module.ts:291-296: a page that did leave and comes back out of  *)
(* the cache is never told that the redirect stalled.                       *)
StallMeansStayed ==
    [][watch'.result = "stalled" /\ watch.result = "pending" => navigating]_vars

(* charge-polling.ts:9: aborting ends the wait.  It does not hold: pagehide *)
(* also takes the caller's abort away, and a page that comes back polls on. *)
AbortHeard == aborted => watch.result # "pending"

(* payments.module.ts:229-232: a redirect that leaves the customer on the   *)
(* page is reported.  It does not hold of a second redirect: after the page *)
(* has been left once, no watchdog is armed again.                          *)
RedirectWatched == navigating /\ watch.result = "pending" => watch.stall = "armed"

(* polling.ts:7: stopping tears the loop down.  It does not hold within a   *)
(* tick: when onStateChange aborts, the tick goes on to onActionRequired    *)
(* and takes the page to the 3DS challenge.                                 *)
NoActionOnceEnded == \A i \in 1 .. Len(told) : ~told[i].ended

(* In redirect mode a charge that asks for action ends the wait, or leaves  *)
(* the page, whatever the webview does with the navigation.                 *)
WaitEnds ==
    /\ charge.state \in Terminal ~> (watch.result # "pending" \/ leaves > 0)
    /\ navigating ~> (watch.result # "pending" \/ leaves > 0)

=============================================================================
