--------------------------- MODULE MCBrowserCharge ---------------------------
(***************************************************************************)
(* Model checking of BrowserCharge, under names of its own, so that the    *)
(* proofs about the server's wait and the browser's can stand together.    *)
(***************************************************************************)
EXTENDS AwaitCharge

CONSTANTS Insecure, MaxLeaves                          \* of BrowserCharge

ASSUME InsecureAssumption == Insecure \subseteq Urls
ASSUME LeavesAssumption == MaxLeaves \in Nat

VARIABLES redirects, watch, page, leaves, navigating   \* of BrowserCharge

Browser == INSTANCE BrowserCharge

BrowserSpec == Browser!FairSpec

-----------------------------------------------------------------------------

(* payments.module.ts:249-255,314-316: BrowserCharge!SettledIsStopped.      *)
SettledIsStopped == Browser!SettledIsStopped

(* payments.module.ts:291-296: BrowserCharge!StallMeansStayed.              *)
StallMeansStayed == Browser!StallMeansStayed

(* In redirect mode a charge that asks for action ends the wait, or leaves  *)
(* the page: BrowserCharge!WaitEnds.                                        *)
RedirectsEnd == Browser!WaitEnds

(* What the customer and the caller of the race are told of it: a stall is  *)
(* an error of its own.                                                     *)
RaceOutcome == IF watch.result = "stalled" THEN "error" ELSE watch.result

ActionSeen == "ACTION_REQUIRED" \in seen

(* payments.module.ts:314-322: the race keeps the promise of the wait, the  *)
(* one ChargeOutcome describes, whatever the page goes through.  An abort   *)
(* is done when it is heard.                                                *)
Race == INSTANCE ChargeOutcome WITH
    outcome <- RaceOutcome, state <- charge.state,
    aborted <- watch.result = "aborted", acting <- ActionSeen

RaceKeepsPromise == Race!Spec

(* charge-polling.ts:9: BrowserCharge!AbortHeard.                           *)
AbortHeard == Browser!AbortHeard

=============================================================================
