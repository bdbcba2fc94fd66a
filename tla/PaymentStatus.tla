---------------------------- MODULE PaymentStatus ----------------------------
(***************************************************************************)
(* Waiting for a payment, a refund or a recurrence                         *)
(* (internal/core/src/payment-status-polling.ts, with the wrappers in      *)
(* sdk/src/modules/{payments,refunds,recurrences}).  There is no limit     *)
(* unless the caller sets one, so what keeps a wait from lasting for ever  *)
(* is that the polled thing ends, or is seen to be unable to.              *)
(***************************************************************************)
EXTENDS PollLoop

VARIABLES
    loop,      \* the polling loop
    thing,     \* the state of the polled thing at GoPay
    reply,     \* the state the request in flight has read
    limited,   \* the caller set timeoutMs
    watchful   \* a recurrence waited for with the default terminal states

vars == <<loop, thing, reply, limited, watchful>>

(* new         a recurrence nobody has started                              *)
(* open        on its way                                                   *)
(* unpayable   a recurrence whose first payment has ended unpaid            *)
(* ended       in one of the terminal states                                *)
States == {"new", "open", "unpayable", "ended"}

DeadEnds == {"new", "unpayable"}

TypeOK ==
    /\ loop \in Loops
    /\ thing \in States /\ reply \in States
    /\ limited \in BOOLEAN /\ watchful \in BOOLEAN

Init ==
    /\ limited \in BOOLEAN
    /\ watchful \in BOOLEAN
    /\ loop \in {Started(limited), Refused}
    /\ thing \in IF watchful THEN {"new", "open"} ELSE {"open"}
    /\ reply = thing

Unchanged == UNCHANGED <<limited, watchful>>

ThingMoves ==
    /\ thing # "ended"
    /\ thing' \in CASE thing = "new" -> {"open", "ended"}
                    [] thing = "open" -> IF watchful THEN {"unpayable", "ended"}
                                         ELSE {"ended"}
                    [] OTHER -> {"ended"}
    /\ Unchanged /\ UNCHANGED <<loop, reply>>

RequestAnswered ==
    /\ loop.request = "out"
    /\ loop' = [loop EXCEPT !.request = "answered"]
    /\ reply' = thing
    /\ Unchanged /\ UNCHANGED thing

RequestFails ==
    /\ loop.request = "out"
    /\ loop' = Rejected(Received(loop))
    /\ Unchanged /\ UNCHANGED <<thing, reply>>

(* Mutant: a recurrence is polled through its dead ends.                    *)
NothingUnreachable(state) == FALSE

(* assertStateStillReachable().                                             *)
Unreachable(state) == watchful /\ state \in DeadEnds

(* The answer, with what onStateChange does.                                *)
Tick(does) ==
    LET told == Callback(Received(loop), does)
    IN /\ loop.request = "answered"
       /\ loop' = IF loop.stopped THEN Received(loop)
                  ELSE IF Unreachable(reply) \/ does = "throws"
                  THEN Rejected(Received(loop))
                  ELSE IF reply = "ended" THEN Stop(told, "resolved")
                  ELSE Schedule(told)
       /\ Unchanged /\ UNCHANGED <<thing, reply>>

PollTimer == loop.timer /\ loop' = NextPoll(loop)
             /\ Unchanged /\ UNCHANGED <<thing, reply>>

LimitTimer == loop.limit /\ loop' = LimitReached(loop)
              /\ Unchanged /\ UNCHANGED <<thing, reply>>

CallerAborts == loop.listening /\ loop' = AbortFires(loop)
                /\ Unchanged /\ UNCHANGED <<thing, reply>>

Next ==
    \/ ThingMoves
    \/ RequestAnswered \/ RequestFails
    \/ \E does \in Behaviours : Tick(does)
    \/ PollTimer \/ LimitTimer \/ CallerAborts

Spec == Init /\ [][Next]_vars

(* Requests are answered or time out, and timers fire.                      *)
Fairness ==
    /\ WF_vars(RequestAnswered \/ RequestFails)
    /\ WF_vars(\E does \in Behaviours : Tick(does))
    /\ WF_vars(PollTimer) /\ WF_vars(LimitTimer)

FairSpec == Spec /\ Fairness

-----------------------------------------------------------------------------
(* Properties.                                                              *)

(* polling.ts:29-38,53: nothing runs on after the wait, also when           *)
(* onStateChange aborts it in the middle of a tick.                         *)
EndedHoldsNothing ==
    loop.stopped => ~loop.timer /\ ~loop.limit /\ ~loop.listening

(* recurrences.module.ts:236-250: the wait ends when the thing does, when   *)
(* the caller's limit runs out, and when a recurrence has come to a dead    *)
(* end, rather than leave a promise that cannot settle.                     *)
WaitEnds ==
    /\ thing = "ended" ~> loop.stopped
    /\ limited ~> loop.stopped
    /\ watchful /\ thing = "unpayable" ~> loop.stopped
    /\ watchful /\ [](thing = "new") => <>loop.stopped

=============================================================================
