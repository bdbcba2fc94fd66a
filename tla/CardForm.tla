------------------------------ MODULE CardForm ------------------------------
(***************************************************************************)
(* mountCardForm() of the browser SDK (cards.module.ts) with the session   *)
(* it charges (gopay-browser-sdk.ts): one form is mounted at a time, its   *)
(* frame is taken down once the card is encrypted, and a direct charge     *)
(* goes on after that, beside the next form.                               *)
(*                                                                         *)
(* The integrator's onLoadingStateChange is called within a step and may   *)
(* unmount the form, log out or attach there.  Where nothing in the rest   *)
(* of the step reads what it did, that is the step followed by another.    *)
(*                                                                         *)
(* The integrator's spinner.render, and the removal it returns, are called *)
(* unguarded (loading-spinner.ts:73): either may throw, and nothing of the *)
(* step follows.  A removal that has thrown is taken to throw again when a *)
(* frame left behind by one loads after all: that frame is never shown.    *)
(***************************************************************************)
EXTENDS Naturals

CONSTANTS
    MaxMounts,    \* bound: forms mounted, numbered from 1
    MaxAttempts   \* bound: attachPayment() and logout() calls, numbered from 1

ASSUME MountsAssumption == MaxMounts \in Nat
ASSUME AttemptsAssumption == MaxAttempts \in Nat

VARIABLES
    attempt,      \* attachAttempt: the latest attach or logout
    exchanging,   \* the attaches whose exchange has no answer yet
    paymentsApi,  \* the payment attached, named by its attach; 0 for null
    active,       \* activeCardFormSession, named by its mount; 0 for null
    url,          \* cardFormUrlPromise, settled: see Urls
    mounts        \* the forms, below

vars == <<attempt, exchanging, paymentsApi, active, url, mounts>>

Mounts == 1 .. MaxMounts
Payments == 0 .. MaxAttempts

(* An untrusted URL has an origin that production refuses; an unparsable    *)
(* one is no URL at all.                                                    *)
Urls == {"none", "trusted", "untrusted", "unparsable"}

(* stalled    the frame is there, hidden, and is never initialised          *)
(* abandoned  mountCardForm() rejected past the code that releases          *)
(* lost       nothing of the flow runs any more, and its result is pending  *)
Framed == {"loading", "shown", "stalled"}
Charging == {"preparing", "posting", "polling"}

MountRecords ==
    [phase    : {"unused", "fetching", "abandoned", "lost", "over"}
                    \cup Framed \cup Charging,
     flow     : {"charge", "payload"},
     payment  : Payments,   \* history: attached when it was mounted
     charged  : Payments,   \* the payment its charge is for
     charging : BOOLEAN,
     aborted  : BOOLEAN,    \* chargeAbortController
     deaf     : BOOLEAN,    \* the poll no longer listens to it
     result   : {"pending", "payload", "succeeded", "failed", "error", "unmounted"},
     charge   : {"none", "sent", "open", "refused", "succeeded", "failed"},
     told     : {"none", "known", "inFlight"},  \* chargeInFlight of unmount's event
     events   : 0 .. 2]     \* unmount events; 2 stands for any more

TypeOK ==
    /\ attempt \in Payments
    /\ exchanging \subseteq 1 .. attempt
    /\ paymentsApi \in 0 .. attempt
    /\ active \in 0 .. MaxMounts
    /\ url \in Urls
    /\ mounts \in [Mounts -> MountRecords]

Unused ==
    [phase |-> "unused", flow |-> "payload", payment |-> 0, charged |-> 0,
     charging |-> FALSE, aborted |-> FALSE, deaf |-> FALSE,
     result |-> "pending", charge |-> "none", told |-> "none", events |-> 0]

Init ==
    /\ attempt = 0
    /\ exchanging = {}
    /\ paymentsApi = 0
    /\ active = 0
    /\ url = "none"
    /\ mounts = [m \in Mounts |-> Unused]

-----------------------------------------------------------------------------
(* The payment session.                                                     *)

Supersede(exchange) ==
    /\ attempt < MaxAttempts
    /\ attempt' = attempt + 1
    /\ exchanging' = IF exchange THEN exchanging \cup {attempt + 1} ELSE exchanging
    /\ paymentsApi' = 0

(* Mutant: a payment is attached under a mounted form.                      *)
AttachUnderForm == Supersede(TRUE) /\ UNCHANGED <<active, url, mounts>>

Attach == active = 0 /\ Supersede(TRUE) /\ UNCHANGED <<active, url, mounts>>

Logout == Supersede(FALSE) /\ UNCHANGED <<active, url, mounts>>

(* Mutant: an overtaken attach attaches its payment all the same.           *)
OvertakenAttaches(a, granted) ==
    /\ a \in exchanging
    /\ exchanging' = exchanging \ {a}
    /\ paymentsApi' = IF granted THEN a ELSE paymentsApi
    /\ UNCHANGED <<attempt, active, url, mounts>>

(* The exchange succeeds, or not; an overtaken attach attaches nothing.     *)
AttachEnds(a, granted) ==
    /\ a \in exchanging
    /\ exchanging' = exchanging \ {a}
    /\ paymentsApi' = IF granted /\ a = attempt THEN a ELSE paymentsApi
    /\ UNCHANGED <<attempt, active, url, mounts>>

session == <<attempt, exchanging, paymentsApi>>

-----------------------------------------------------------------------------
(* What the steps below do to the form's record.                            *)

(* resolveResult(), rejectResult().                                         *)
Settled(r, as) == IF r.result = "pending" THEN [r EXCEPT !.result = as] ELSE r

(* unmount(), whose own cleanup calls the integrator before the result is   *)
(* settled: a callback that unmounts on every `idle' comes back here.       *)
Unmounted(r, events) ==
    IF r.result = "pending"
    THEN [r EXCEPT !.aborted = TRUE,
                   !.told = IF r.charging THEN "inFlight" ELSE "known",
                   !.events = IF @ = 0 THEN events ELSE 2, !.result = "unmounted",
                   !.phase = IF @ \in Charging THEN @ ELSE "over"]
    ELSE r

(* unmount() whose cleanup throws: the event is sent and the charge is      *)
(* aborted, and the result stays pending.                                   *)
HalfUnmounted(r) ==
    [r EXCEPT !.aborted = TRUE,
              !.told = IF r.charging THEN "inFlight" ELSE "known",
              !.events = IF @ = 0 THEN 1 ELSE 2,
              !.phase = IF @ \in Charging THEN @ ELSE "lost"]

(* The spinner throws while the flow has no frame to take down.             *)
Stranded(r) == [r EXCEPT !.phase = IF r.result = "pending" THEN "lost" ELSE "over"]

(* A form that is shown has no spinner whose removal could throw.           *)
SpinnerThere(r) == r.phase # "shown"

(* emitLoadingState(): the callback returns, or unmounts.                   *)
Told(r, events) == IF events = 0 THEN r ELSE Unmounted(r, events)

(* Mutant: any mount's cleanup releases the session.                        *)
ReleaseAny(m) == active' = 0

(* releaseSession().                                                        *)
ReleaseSession(m) == active' = IF active = m THEN 0 ELSE active

-----------------------------------------------------------------------------
(* Mounting: from the call to the controller.                               *)

Fetching(r, flow) ==
    [r EXCEPT !.phase = "fetching", !.flow = flow, !.payment = paymentsApi]

(* mountCardForm() rejects where nothing releases the session: the spinner  *)
(* throws, or new URL() does.                                               *)
Abandoned(r) == [r EXCEPT !.phase = "abandoned", !.result = "error"]

Mount(m, flow) ==
    /\ mounts[m].phase = "unused"
    /\ \A n \in 1 .. m - 1 : mounts[n].phase # "unused"
    /\ active = 0
    /\ flow = "charge" => paymentsApi # 0
    /\ active' = m
    /\ LET r == Fetching(mounts[m], flow)
       IN  \/ mounts' = [mounts EXCEPT ![m] = r]
           \/ mounts' = [mounts EXCEPT ![m] = Abandoned(r)]
    /\ UNCHANGED <<session, url>>

(* mountCardForm() rejects: there is no controller.                         *)
MountFails(m) ==
    /\ ReleaseSession(m)
    /\ mounts' = [mounts EXCEPT ![m].phase = "over", ![m].result = "error"]

(* The URL, fetched or cached, is parsed outside the try around its await,  *)
(* and after it come the spinner's removal and the next one's render.  A    *)
(* URL that is untrusted or unparsable stays cached for every later mount.  *)
UrlArrives(m) ==
    /\ mounts[m].phase = "fetching"
    /\ url' \in IF url = "none" THEN Urls \ {"none"} ELSE {url}
    /\ \/ /\ url' = "trusted"
          /\ mounts' = [mounts EXCEPT ![m].phase = "loading"]
          /\ UNCHANGED active
       \/ /\ url' \in {"trusted", "unparsable"}
          /\ mounts' = [mounts EXCEPT ![m] = Abandoned(@)]
          /\ UNCHANGED active
       \/ url' = "untrusted" /\ MountFails(m)
    /\ UNCHANGED session

UrlFails(m) ==
    /\ mounts[m].phase = "fetching"
    /\ url = "none"
    /\ MountFails(m)
    /\ UNCHANGED <<session, url>>

-----------------------------------------------------------------------------
(* The frame.                                                               *)

(* onload: its timeout is cleared, and the spinner's removal may throw.     *)
Loaded(m) ==
    /\ mounts[m].phase = "loading"
    /\ \E phase \in {"shown", "stalled"} :
           mounts' = [mounts EXCEPT ![m].phase = phase]
    /\ UNCHANGED <<session, active, url>>

(* Mutant: cleanup() clears the spinner before it releases the session.     *)
SpinnerBeforeSession(m, events) ==
    /\ mounts' = [mounts EXCEPT ![m].phase = "lost"]
    /\ UNCHANGED <<session, active, url>>

(* cleanup(), whose callback may unmount, and the failure after it.  The    *)
(* session is released before the spinner's removal can throw.              *)
FormFails(m, events) ==
    /\ ReleaseSession(m)
    /\ \/ mounts' = [mounts EXCEPT
              ![m] = [Settled(Told(@, events), "error") EXCEPT !.phase = "over"]]
       \/ /\ SpinnerThere(mounts[m])
          /\ mounts' = [mounts EXCEPT ![m].phase = "lost"]
    /\ UNCHANGED <<session, url>>

(* onerror, or 30 seconds.                                                  *)
LoadFails(m, events) == mounts[m].phase = "loading" /\ FormFails(m, events)

EncryptError(m, events) == mounts[m].phase \in Framed /\ FormFails(m, events)

(* handleEncryptResult() up to its first await, for the payment that is     *)
(* attached by then.  A callback that unmounts at `charging', before        *)
(* `charging' is set, leaves the same record as one at `idle'.  The         *)
(* charge's own spinner may throw there, with nobody to hear it.            *)
Handled(r, payment) ==
    IF r.flow = "payload"
    THEN {[Settled(r, "payload") EXCEPT !.phase = "over"]}
    ELSE IF payment = 0
    THEN {[Settled(r, "error") EXCEPT !.phase = "over"]}
    ELSE {[r EXCEPT !.phase = "preparing", !.charged = payment, !.charging = TRUE],
          Stranded(r)}

(* The callback of cleanup('encrypted') runs first, and runs with the       *)
(* session released: it may unmount, and log out or attach.                 *)
Encrypted(m, events) ==
    /\ mounts[m].phase = "shown"
    /\ ReleaseSession(m)
    /\ \/ UNCHANGED session
       \/ \E exchange \in BOOLEAN : Supersede(exchange)
    /\ \E r \in Handled(Told(mounts[m], events), paymentsApi') :
           mounts' = [mounts EXCEPT ![m] = r]
    /\ UNCHANGED url

-----------------------------------------------------------------------------
(* The charge.                                                              *)

Becomes(m, r) ==
    /\ mounts' = [mounts EXCEPT ![m] = r]
    /\ UNCHANGED <<session, active, url>>

(* Mutant: the abort does not reach the charge.                             *)
SendAnyway(m) ==
    /\ mounts[m].phase = "preparing"
    /\ Becomes(m, [mounts[m] EXCEPT !.phase = "posting", !.charge = "sent"])

(* The browser data is there, or its endpoint is not deployed: POST charge. *)
Send(m) ==
    /\ mounts[m].phase = "preparing"
    /\ ~mounts[m].aborted
    /\ Becomes(m, [mounts[m] EXCEPT !.phase = "posting", !.charge = "sent"])

(* GoPay, whether or not anyone still waits for it.                         *)
GoPayMoves(m) ==
    \/ /\ mounts[m].charge = "sent"
       /\ \E c \in {"open", "refused"} : Becomes(m, [mounts[m] EXCEPT !.charge = c])
    \/ /\ mounts[m].charge = "open"
       /\ \E c \in {"succeeded", "failed"} : Becomes(m, [mounts[m] EXCEPT !.charge = c])

Accepted(m) ==
    /\ mounts[m].phase = "posting"
    /\ ~mounts[m].aborted
    /\ mounts[m].charge \in {"open", "succeeded", "failed"}
    /\ Becomes(m, [mounts[m] EXCEPT !.phase = "polling"])

(* Mutant: every end of the flow counts as a known outcome.                 *)
RejectionForgetsCharge(r, events) ==
    [Settled(Told([r EXCEPT !.charging = FALSE], events), "error") EXCEPT !.phase = "over"]

(* catch: without a charge state the outcome is not known.                  *)
Rejection(r, events) == [Settled(Told(r, events), "error") EXCEPT !.phase = "over"]

(* ... unless the spinner's removal throws, before anything else is done.   *)
Rejects(m, events) ==
    Becomes(m, Rejection(mounts[m], events)) \/ Becomes(m, Stranded(mounts[m]))

(* The browser data or the POST fails, answered or not.                     *)
RequestFails(m, events) ==
    /\ mounts[m].phase \in {"preparing", "posting"}
    /\ Rejects(m, events)

(* The page left for 3DS and was restored: stopWatching() has dropped the   *)
(* abort listener, and the poll goes on (AbortHeard of BrowserCharge).      *)
PageRestored(m) ==
    /\ mounts[m].phase = "polling"
    /\ ~mounts[m].aborted
    /\ Becomes(m, [mounts[m] EXCEPT !.deaf = TRUE])

(* Any end of awaitChargeState() that is not the charge's own.              *)
PollFails(m, events) ==
    /\ mounts[m].phase = "polling"
    /\ Rejects(m, events)

(* A terminal state was polled.  Where the spinner's removal throws, there  *)
(* and again in the catch, the charge still counts as under way.            *)
PollEnds(m, events) ==
    /\ mounts[m].phase = "polling"
    /\ mounts[m].aborted => mounts[m].deaf
    /\ mounts[m].charge \in {"succeeded", "failed"}
    /\ LET known == [mounts[m] EXCEPT !.charging = FALSE]
       IN  \/ Becomes(m, [Settled(Told(known, events), known.charge) EXCEPT !.phase = "over"])
           \/ Becomes(m, Stranded(mounts[m]))

(* Mutant: the polling is not given the signal.                             *)
AbortStopsRequest(m) ==
    /\ mounts[m].phase \in {"preparing", "posting"}
    /\ mounts[m].aborted /\ ~mounts[m].deaf
    /\ Becomes(m, Stranded(mounts[m]))

(* The request or the poll rejects, and the handler after it, in which the  *)
(* removal that threw in unmount() throws again.                            *)
AbortStops(m) ==
    /\ mounts[m].phase \in Charging
    /\ mounts[m].aborted /\ ~mounts[m].deaf
    /\ Becomes(m, Stranded(mounts[m]))

(* The integrator unmounts; there is a controller once the frame is there,  *)
(* and it can be asked again until the result has settled.                  *)
Unmount(m, events) ==
    /\ mounts[m].phase \in Framed \cup Charging \cup {"lost"}
    /\ mounts[m].result = "pending"
    /\ ReleaseSession(m)
    /\ \/ mounts' = [mounts EXCEPT ![m] = Unmounted(@, events)]
       \/ /\ SpinnerThere(mounts[m])
          /\ mounts' = [mounts EXCEPT ![m] = HalfUnmounted(@)]
    /\ UNCHANGED <<session, url>>

-----------------------------------------------------------------------------

UrlAnswered(m) == UrlArrives(m) \/ UrlFails(m)

LoadEnds(m) == Loaded(m) \/ \E events \in 0 .. 2 : LoadFails(m, events)

RequestEnds(m) ==
    Send(m) \/ Accepted(m) \/ \E events \in 0 .. 2 : RequestFails(m, events)

Next ==
    \/ Attach \/ Logout
    \/ \E a \in exchanging, granted \in BOOLEAN : AttachEnds(a, granted)
    \/ \E m \in Mounts :
        \/ \E flow \in {"charge", "payload"} : Mount(m, flow)
        \/ UrlAnswered(m) \/ LoadEnds(m) \/ RequestEnds(m)
        \/ GoPayMoves(m) \/ AbortStops(m) \/ PageRestored(m)
        \/ \E events \in 0 .. 2 :
            \/ EncryptError(m, events) \/ Encrypted(m, events)
            \/ PollFails(m, events) \/ PollEnds(m, events)
        \/ \E events \in 1 .. 2 : Unmount(m, events)

Spec == Init /\ [][Next]_vars

(* The URL's request and the charge's answer or time out, the frame loads   *)
(* or its 30 seconds pass, an abort is heard.                               *)
Fairness ==
    \A m \in Mounts :
        /\ WF_vars(UrlAnswered(m)) /\ WF_vars(LoadEnds(m))
        /\ WF_vars(RequestEnds(m)) /\ WF_vars(AbortStops(m))

FairSpec == Spec /\ Fairness

-----------------------------------------------------------------------------
(* Properties.                                                              *)

(* What holds the session: a form until it is taken down, and for ever a    *)
(* mount that was abandoned.                                                *)
Holding == {"fetching", "abandoned"} \cup Framed

(* cards.module.ts:157-163: the session is that of the mount whose frame is *)
(* on its way or on the page, so no two forms are there at once, and a flow *)
(* that goes on without its frame, or was stranded by its spinner, neither  *)
(* holds the next form off nor releases that form's session.  The exception *)
(* is a mount that was abandoned, which nothing can take down any more.     *)
SessionOwned == \A m \in Mounts : active = m <=> mounts[m].phase \in Holding

(* cards.module.ts:223,300-305: a mount that has failed is not in the way   *)
(* of the next.  It does not hold, for an abandoned one.                    *)
FailedMountReleases == \A m \in Mounts : mounts[m].result = "error" => active # m

(* gopay-browser-sdk.ts:131-132: a card typed for one payment does not      *)
(* charge another that was attached meanwhile.                              *)
ChargesMounted == \A m \in Mounts : mounts[m].charged \in {0, mounts[m].payment}

(* cards.module.ts:91-106,384-389: nothing is charged after unmount(), the   *)
(* result is that of the charge and is given once, and an unmount that      *)
(* says no charge is in flight means it.                                    *)
Flow == INSTANCE ChargeFlow WITH
    Flows <- Mounts,
    charge <- [m \in Mounts |-> mounts[m].charge],
    result <- [m \in Mounts |-> mounts[m].result],
    told <- [m \in Mounts |-> mounts[m].told]

ImplementsChargeFlow == Flow!Spec

(* cards.module.ts:91-98,616: no form is left loading for ever, no request  *)
(* holds a charge up, and an unmounted form comes to an end, polling        *)
(* included, unless the page had been restored from the cache by then.  The *)
(* end is no result where the integrator's spinner throws.                  *)
FormEnds ==
    \A m \in Mounts :
        /\ mounts[m].phase \in {"fetching", "loading"}
               ~> mounts[m].phase \notin {"fetching", "loading"}
        /\ mounts[m].phase \in {"preparing", "posting"}
               ~> mounts[m].phase \notin {"preparing", "posting"}
        /\ (mounts[m].aborted /\ ~mounts[m].deaf) ~> mounts[m].phase \in {"over", "lost"}

(* cards.module.ts:97,955-956: unmount() is idempotent, one teardown is one *)
(* event.  It does not hold: a callback that unmounts whenever it is told   *)
(* `idle' is called again by that very unmount, before the result settles.  *)
OneTeardownOneEvent == \A m \in Mounts : mounts[m].events < 2

=============================================================================
