---------------------------- MODULE ServerCharge ----------------------------
(***************************************************************************)
(* awaitChargeState() of the server SDK                                    *)
(* (sdk/src/modules/payments/payments.module.ts): AwaitCharge with the     *)
(* caller's signal and callbacks passed straight through.                  *)
(***************************************************************************)
EXTENDS AwaitCharge

vars == waitVars

TypeOK == AwaitTypeOK

Init == AwaitInit

Calm == {"returns", "aborts"}

TickTaken ==
    \/ TickThrows
    \/ \E does \in Calm :
          \/ TickEnds(does, TRUE) \/ TickWaits(does, TRUE)
          \/ TickSameAction(does, TRUE)
          \/ \E acts \in Behaviours : TickNewAction(does, acts, TRUE)

Next ==
    \/ ChargeMoves
    \/ RequestAnswered \/ RequestFails \/ LateAnswer
    \/ TickTaken
    \/ PollTimer \/ LimitTimer
    \/ CallerAborts(TRUE)

Spec == Init /\ [][Next]_vars

(* Every request is answered, or the client's own timeout fails it, and     *)
(* timers fire.                                                             *)
Fairness ==
    /\ WF_vars(RequestAnswered \/ RequestFails)
    /\ WF_vars(TickTaken)
    /\ WF_vars(PollTimer)
    /\ WF_vars(LimitTimer)

FairSpec == Spec /\ Fairness

-----------------------------------------------------------------------------
(* Properties.                                                              *)

(* polling.ts:29-38: a wait that is over leaves no timer and no listener    *)
(* behind, also when a callback ended it in the middle of a tick.           *)
EndedHoldsNothing ==
    loop.stopped => ~loop.timer /\ ~loop.limit /\ ~loop.listening

(* polling.ts:43-63: the next poll waits for the answer to the one before.  *)
OnePollAtATime == ~(loop.timer /\ loop.request # "none")

(* polling.ts:29-32,49,58: once the promise has settled it keeps its        *)
(* outcome, nothing more is polled, and an answer that comes late is told   *)
(* to nobody.                                                               *)
QuietOnceEnded ==
    [][loop.stopped =>
          /\ loop'.stopped /\ loop'.outcome = loop.outcome
          /\ loop'.request = "out" => loop.request = "out"
          /\ told' = told]_vars

(* The promise is the one ChargeOutcome describes: charge-polling.ts:13-26. *)
Promise == INSTANCE ChargeOutcome WITH
    outcome <- loop.outcome, state <- charge.state,
    acting <- "ACTION_REQUIRED" \in seen

ImplementsChargeOutcome == Promise!Spec

(* A charge that ends, or never gets anywhere, ends the wait.               *)
WaitEnds ==
    /\ charge.state \in Terminal ~> loop.stopped
    /\ <>(loop.stopped \/ charge.state \notin Initial)

=============================================================================
