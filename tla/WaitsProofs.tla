----------------------------- MODULE WaitsProofs -----------------------------
(***************************************************************************)
(* Proofs about what the SDKs wait for: ServerCharge and BrowserCharge,    *)
(* for any redirect URLs and any number of moves of the charge and         *)
(* departures of the page, PaymentStatus, and EventPaging, for any pages.  *)
(***************************************************************************)
EXTENDS MCServerWaits, MCBrowserCharge, TLAPS

(* A loop that is well: stopped when its promise has settled, listening     *)
(* until then, and never both waiting for an answer and for its timer.      *)
Well(l) ==
    /\ l \in Loops
    /\ l.stopped => ~l.timer /\ ~l.limit /\ ~l.listening
    /\ l.stopped <=> l.outcome # "pending"
    /\ ~l.stopped => l.listening
    /\ l.timer => l.request = "none"

(* A terminal state once read stays the charge's; the limit timer does not  *)
(* outlive the first ACTION_REQUIRED.                                       *)
IInv ==
    /\ TypeOK
    /\ Well(loop)
    /\ reply.state \in Terminal => charge = reply
    /\ loop.limit => "ACTION_REQUIRED" \notin seen

-----------------------------------------------------------------------------
(* The operators of the loop.                                               *)

(* polling.ts:29-38: stop() settles what was pending and nothing else.      *)
LEMMA StopWell ==
    ASSUME NEW l, Well(l), NEW o \in Outcomes \ {"pending"}
    PROVE  /\ Well(Stop(l, o))
           /\ Stop(l, o).stopped
           /\ Stop(l, o).outcome = (IF l.stopped THEN l.outcome ELSE o)
           /\ Stop(l, o).request = l.request
           /\ ~Stop(l, o).limit
           /\ ~Stop(l, o).timer
BY DEF Well, Loops, Stop, Outcomes

(* polling.ts:40-41: the abort listener stops a running loop.               *)
LEMMA AbortWell ==
    ASSUME NEW l, Well(l)
    PROVE  /\ Well(AbortFires(l))
           /\ AbortFires(l).stopped
           /\ AbortFires(l).outcome = (IF l.stopped THEN l.outcome ELSE "aborted")
           /\ AbortFires(l).request = l.request
           /\ ~AbortFires(l).limit
           /\ ~AbortFires(l).timer
<1>1. CASE l.listening
  BY <1>1, StopWell DEF AbortFires, Well, Outcomes
<1>2. CASE ~l.listening
  BY <1>2 DEF AbortFires, Well, Loops
<1> QED BY <1>1, <1>2

(* polling.ts:48-51: an answer taken in.                                    *)
LEMMA ReceivedWell ==
    ASSUME NEW l, Well(l)
    PROVE  /\ Well(Received(l))
           /\ Received(l).stopped = l.stopped
           /\ Received(l).outcome = l.outcome
           /\ Received(l).limit = l.limit
           /\ Received(l).timer = l.timer
           /\ Received(l).request = "none"
BY DEF Well, Loops, Received

(* charge-polling.ts:50-80: a callback may abort, and does nothing else to  *)
(* the loop.                                                                *)
LEMMA CallbackWell ==
    ASSUME NEW l, Well(l), NEW does
    PROVE  /\ Well(Callback(l, does))
           /\ Callback(l, does).request = l.request
           /\ Callback(l, does).limit => l.limit
           /\ Callback(l, does).timer => l.timer
           /\ Callback(l, does).stopped = (l.stopped \/ does = "aborts")
           /\ Callback(l, does).outcome =
                 (IF does = "aborts" /\ ~l.stopped THEN "aborted" ELSE l.outcome)
<1>1. CASE does = "aborts"
  BY <1>1, AbortWell DEF Callback, Well, Loops
<1>2. CASE does # "aborts"
  BY <1>2 DEF Callback, Well, Loops
<1> QED BY <1>1, <1>2

(* polling.ts:52-55: the next poll is scheduled unless the loop was stopped. *)
LEMMA ScheduleWell ==
    ASSUME NEW l, Well(l), l.request = "none"
    PROVE  /\ Well(Schedule(l))
           /\ Schedule(l).stopped = l.stopped
           /\ Schedule(l).outcome = l.outcome
           /\ Schedule(l).limit = l.limit
           /\ Schedule(l).request = "none"
BY DEF Well, Loops, Schedule

(* charge-polling.ts:71: the initial timer cleared.                         *)
LEMMA DisarmedWell ==
    ASSUME NEW l, Well(l)
    PROVE  /\ Well(Disarmed(l))
           /\ Disarmed(l).stopped = l.stopped
           /\ Disarmed(l).outcome = l.outcome
           /\ Disarmed(l).request = l.request
           /\ ~Disarmed(l).limit
BY DEF Well, Loops, Disarmed
-----------------------------------------------------------------------------
(* The invariant.                                                           *)

LEMMA StartWell == Init => IInv
<1> SUFFICES ASSUME Init PROVE IInv
  OBVIOUS
<1> USE DEF Init, AwaitInit, Loops, Outcomes, Refused, Started
<1>1. Well(loop)
  BY DEF Well
<1>2. TypeOK
  <2>1. charge \in Charges /\ reply \in Charges
    BY DEF Charges, Initial
  <2>2. told \in Seq([url : Urls, ended : BOOLEAN])
    OBVIOUS
  <2> QED BY <2>1, <2>2, <1>1, MovesAssumption DEF TypeOK, AwaitTypeOK, Well
<1> QED BY <1>1, <1>2 DEF IInv, Terminal

(* A tick without a new redirect leaves the loop well, stopped only by the  *)
(* state, by the callback's abort or by its throw.                          *)
LEMMA TickKeeps ==
    ASSUME IInv, NEW does \in Calm,
           TickThrows \/ TickEnds(does, TRUE) \/ TickWaits(does, TRUE)
              \/ TickSameAction(does, TRUE)
    PROVE  IInv'
<1> USE DEF IInv, Calm
<1>0. Well(Received(loop)) /\ Received(loop).limit = loop.limit
      /\ Received(loop).request = "none" /\ ~Received(loop).stopped
  BY ReceivedWell DEF TickThrows, TickEnds, TickWaits, TickSameAction, Tick, Running
<1> DEFINE told1 == Callback(Received(loop), does)
<1>1. Well(told1) /\ told1.request = "none" /\ (told1.limit => loop.limit)
  BY <1>0, CallbackWell
<1>2. Reported(does, TRUE) = told1
  BY DEF Reported
<1> HIDE DEF told1
<1>3. /\ UNCHANGED <<reply, charge, moves, lastUrl, told>>
      /\ seen' = seen \cup {reply.state}
      /\ aborted' \in BOOLEAN
  BY DEF TypeOK, AwaitTypeOK, TickThrows, TickEnds, TickWaits, TickSameAction,
         Tick, NoteAbort
<1>4. reply.state \in Initial \cup Terminal \cup {"ACTION_REQUIRED"}
  BY DEF TypeOK, AwaitTypeOK, Charges
<1>5. Well(loop') /\ (loop'.limit => loop.limit /\ reply.state # "ACTION_REQUIRED")
  <2>1. CASE TickThrows
    BY <2>1, <1>0, StopWell DEF TickThrows, Rejected, Outcomes
  <2>2. CASE TickEnds(does, TRUE)
    BY <2>2, <1>1, <1>2, StopWell DEF TickEnds, Outcomes
  <2>3. CASE TickWaits(does, TRUE)
    BY <2>3, <1>1, <1>2, ScheduleWell DEF TickWaits, Initial
  <2>4. CASE TickSameAction(does, TRUE)
    <3>1. Well(Disarmed(told1)) /\ Disarmed(told1).request = "none"
          /\ ~Disarmed(told1).limit
      BY <1>1, DisarmedWell
    <3> QED BY <2>4, <3>1, <1>2, ScheduleWell DEF TickSameAction
  <2> QED BY <2>1, <2>2, <2>3, <2>4
<1>6. TypeOK'
  BY <1>3, <1>4, <1>5 DEF TypeOK, AwaitTypeOK, Well
<1> QED BY <1>3, <1>5, <1>6

(* So does one with a new redirect.                                         *)
LEMMA NewActionKeeps ==
    ASSUME IInv, NEW does \in Calm, NEW acts \in Behaviours,
           TickNewAction(does, acts, TRUE)
    PROVE  IInv'
<1> USE DEF IInv
<1>0. Well(Received(loop)) /\ Received(loop).request = "none"
      /\ ~Received(loop).stopped
  BY ReceivedWell DEF TickNewAction, Running
<1> DEFINE told1 == Disarmed(Reported(does, TRUE))
<1>1. Well(told1) /\ told1.request = "none" /\ ~told1.limit
  BY <1>0, CallbackWell, DisarmedWell DEF Reported
<1> DEFINE told2 == Callback(told1, acts)
<1>2. Well(told2) /\ told2.request = "none" /\ ~told2.limit
  <2> HIDE DEF told1
  <2> QED BY <1>1, CallbackWell
<1>3. /\ UNCHANGED <<reply, charge, moves>>
      /\ seen' = seen \cup {reply.state}
      /\ aborted' \in BOOLEAN
      /\ lastUrl' = reply.url
      /\ told' = Append(told, [url |-> reply.url, ended |-> told1.stopped])
      /\ loop' = IF acts = "throws" THEN Rejected(told1) ELSE Schedule(told2)
      /\ reply.state = "ACTION_REQUIRED" /\ reply.url # NoUrl
  BY DEF TickNewAction, FreshUrl
<1>4. reply.url \in Urls
  BY <1>3 DEF TypeOK, AwaitTypeOK, Charges, Initial, Terminal
<1>5. told1.stopped \in BOOLEAN
  BY <1>1 DEF Well, Loops
<1> HIDE DEF told1, told2
<1>6. Well(loop') /\ ~loop'.limit
  <2>1. CASE acts = "throws"
    BY <2>1, <1>1, <1>3, StopWell DEF Rejected, Outcomes
  <2>2. CASE acts # "throws"
    BY <2>2, <1>2, <1>3, ScheduleWell
  <2> QED BY <2>1, <2>2
<1>7. told' \in Seq([url : Urls, ended : BOOLEAN])
  BY <1>3, <1>4, <1>5 DEF TypeOK, AwaitTypeOK
<1>8. TypeOK'
  BY <1>3, <1>4, <1>6, <1>7 DEF TypeOK, AwaitTypeOK, Well
<1> QED BY <1>3, <1>6, <1>8

LEMMA OthersKeep ==
    ASSUME IInv,
           ChargeMoves \/ RequestAnswered \/ RequestFails \/ LateAnswer
              \/ PollTimer \/ LimitTimer \/ CallerAborts(TRUE) \/ UNCHANGED vars
    PROVE  IInv'
<1> USE DEF IInv
<1>1. CASE ChargeMoves
  <2>1. charge' \in Charges /\ reply.state \notin Terminal /\ moves' \in 0 .. MaxMoves
    BY <1>1, MovesAssumption DEF ChargeMoves, TypeOK, AwaitTypeOK
  <2> QED BY <1>1, <2>1 DEF ChargeMoves, TypeOK, AwaitTypeOK, Well
<1>2. CASE RequestAnswered
  <2>1. Well(loop') /\ loop'.limit = loop.limit
    BY <1>2 DEF RequestAnswered, Well, Loops
  <2> QED BY <1>2, <2>1 DEF RequestAnswered, TypeOK, AwaitTypeOK, Well
<1>3. CASE RequestFails
  <2>1. Well(loop') /\ ~loop'.limit
    BY <1>3, ReceivedWell, StopWell DEF RequestFails, Rejected, Outcomes
  <2> QED BY <1>3, <2>1 DEF RequestFails, TypeOK, AwaitTypeOK, Well
<1>4. CASE LateAnswer
  <2>1. Well(loop') /\ loop'.limit = loop.limit
    BY <1>4, ReceivedWell DEF LateAnswer
  <2> QED BY <1>4, <2>1 DEF LateAnswer, TypeOK, AwaitTypeOK, Well
<1>5. CASE PollTimer
  <2>1. Well(loop') /\ loop'.limit = loop.limit
    BY <1>5 DEF PollTimer, NextPoll, Well, Loops
  <2> QED BY <1>5, <2>1 DEF PollTimer, TypeOK, AwaitTypeOK, Well
<1>6. CASE LimitTimer
  <2>1. Well([loop EXCEPT !.limit = FALSE])
    BY DEF Well, Loops
  <2>2. Well(loop') /\ ~loop'.limit
    BY <1>6, <2>1, StopWell DEF LimitTimer, LimitReached, Outcomes
  <2> QED BY <1>6, <2>2 DEF LimitTimer, TypeOK, AwaitTypeOK, Well
<1>7. CASE CallerAborts(TRUE)
  <2>1. Well(loop') /\ ~loop'.limit
    BY <1>7, AbortWell DEF CallerAborts
  <2> QED BY <1>7, <2>1 DEF CallerAborts, TypeOK, AwaitTypeOK, Well
<1>8. CASE UNCHANGED vars
  BY <1>8 DEF vars, waitVars, TypeOK, AwaitTypeOK, Well
<1> QED BY <1>1, <1>2, <1>3, <1>4, <1>5, <1>6, <1>7, <1>8

(* The steps of the specification, in the three groups of the lemmas.       *)
LEMMA StepCases ==
    ASSUME [Next]_vars
    PROVE  \/ ChargeMoves \/ RequestAnswered \/ RequestFails \/ LateAnswer
           \/ PollTimer \/ LimitTimer \/ CallerAborts(TRUE) \/ UNCHANGED vars
           \/ \E does \in Calm :
                 \/ TickThrows \/ TickEnds(does, TRUE) \/ TickWaits(does, TRUE)
                 \/ TickSameAction(does, TRUE)
           \/ \E does \in Calm, acts \in Behaviours : TickNewAction(does, acts, TRUE)
<1>1. "returns" \in Calm
  BY DEF Calm
<1> QED BY <1>1 DEF Next, TickTaken

LEMMA StepKeeps == IInv /\ [Next]_vars => IInv'
<1> SUFFICES ASSUME IInv, [Next]_vars PROVE IInv'
  OBVIOUS
<1> QED BY StepCases, TickKeeps, NewActionKeeps, OthersKeep

(* The invariant of every reachable state.                                  *)
LEMMA Invariance == Spec => []IInv
<1> QED BY StartWell, StepKeeps, PTL DEF Spec

-----------------------------------------------------------------------------
(* The theorems.                                                            *)

(* Every variable keeps its type.                                           *)
THEOREM TypeCorrect == Spec => []TypeOK
<1>1. IInv => TypeOK
  BY DEF IInv
<1> QED BY <1>1, Invariance, PTL

(* polling.ts:29-38: an ended wait leaves no timer and no listener.         *)
THEOREM NothingHeld == Spec => []EndedHoldsNothing
<1>1. IInv => EndedHoldsNothing
  BY DEF IInv, Well, EndedHoldsNothing
<1> QED BY <1>1, Invariance, PTL

(* polling.ts:43-63: there is never a poll out and another one scheduled.   *)
THEOREM OnePoll == Spec => []OnePollAtATime
<1>1. IInv => OnePollAtATime
  BY DEF IInv, Well, OnePollAtATime
<1> QED BY <1>1, Invariance, PTL

(* polling.ts:29-32,49,58: nothing happens to a wait that has ended.        *)
THEOREM Quiet == Spec => QuietOnceEnded
<1> DEFINE Still ==
      loop.stopped =>
         /\ loop'.stopped /\ loop'.outcome = loop.outcome
         /\ loop'.request = "out" => loop.request = "out"
         /\ told' = told
<1>1. ASSUME IInv, [Next]_vars PROVE Still
  <2> SUFFICES ASSUME loop.stopped
               PROVE  /\ loop'.stopped /\ loop'.outcome = loop.outcome
                      /\ loop'.request = "out" => loop.request = "out"
                      /\ told' = told
    OBVIOUS
  <2>0. loop \in Loops /\ ~loop.timer /\ ~loop.limit /\ ~loop.listening
    BY <1>1 DEF IInv, Well
  <2>1. CASE ChargeMoves \/ UNCHANGED vars
    BY <2>1 DEF ChargeMoves, vars, waitVars
  <2>2. CASE RequestAnswered \/ RequestFails \/ LateAnswer
    BY <2>0, <2>2 DEF RequestAnswered, RequestFails, LateAnswer, Rejected, Stop,
       Received, Loops
  <2>3. CASE PollTimer \/ LimitTimer
    BY <2>0, <2>3 DEF PollTimer, LimitTimer
  <2>4. CASE CallerAborts(TRUE)
    BY <2>0, <2>4 DEF CallerAborts, AbortFires
  <2>5. CASE \E does \in Calm :
                \/ TickThrows \/ TickEnds(does, TRUE) \/ TickWaits(does, TRUE)
                \/ TickSameAction(does, TRUE)
    BY <2>5 DEF TickThrows, TickEnds, TickWaits, TickSameAction, Tick, Running
  <2>6. CASE \E does \in Calm, acts \in Behaviours : TickNewAction(does, acts, TRUE)
    BY <2>6 DEF TickNewAction, Running
  <2> QED BY <1>1, <2>1, <2>2, <2>3, <2>4, <2>5, <2>6, StepCases
<1>2. IInv /\ [Next]_vars => [Still]_vars
  BY <1>1
<1> QED BY <1>2, Invariance, PTL DEF Spec, QuietOnceEnded

-----------------------------------------------------------------------------
(* The refinement: each step is one of ChargeOutcome's, or none of them.    *)

LEMMA StartImplements == Init => Promise!Init
BY DEF Init, AwaitInit, Promise!Init, Refused, Started

LEMMA OthersImplement ==
    ASSUME IInv,
           ChargeMoves \/ RequestAnswered \/ RequestFails \/ LateAnswer
              \/ PollTimer \/ LimitTimer \/ CallerAborts(TRUE) \/ UNCHANGED vars
    PROVE  [Promise!Next]_(Promise!vars)
<1> USE DEF Promise!Next, Promise!vars
<1>0. Well(loop) /\ loop \in Loops
  BY DEF IInv, Well
<1>1. CASE ChargeMoves
  BY <1>1 DEF ChargeMoves, Charges, Initial, Terminal, Promise!GoPayMoves
<1>2. CASE RequestAnswered \/ LateAnswer \/ PollTimer
  <2>1. loop'.outcome = loop.outcome
    BY <1>0, <1>2 DEF RequestAnswered, LateAnswer, PollTimer, Received, NextPoll, Loops
  <2> QED BY <1>2, <2>1 DEF RequestAnswered, LateAnswer, PollTimer
<1>3. CASE RequestFails
  <2>1. loop'.outcome = IF loop.stopped THEN loop.outcome ELSE "error"
    BY <1>0, <1>3, ReceivedWell, StopWell DEF RequestFails, Rejected, Outcomes
  <2> QED BY <1>0, <1>3, <2>1 DEF RequestFails, Well, Promise!BreakOff, Promise!Settle
<1>4. CASE LimitTimer
  <2>1. Well([loop EXCEPT !.limit = FALSE]) /\ ~loop.stopped
    BY <1>0, <1>4 DEF LimitTimer, Well, Loops
  <2>2. loop'.outcome = "timeout"
    BY <1>0, <1>4, <2>1, StopWell DEF LimitTimer, LimitReached, Outcomes, Loops
  <2> QED BY <1>0, <1>4, <2>1, <2>2
          DEF LimitTimer, IInv, Well, Promise!TimeOut, Promise!Settle
<1>5. CASE CallerAborts(TRUE)
  <2>1. loop'.outcome = IF loop.stopped THEN loop.outcome ELSE "aborted"
    BY <1>0, <1>5, AbortWell DEF CallerAborts
  <2> QED BY <1>0, <1>5, <2>1 DEF CallerAborts, Well, Promise!Abort
<1>6. CASE UNCHANGED vars
  BY <1>6 DEF vars, waitVars
<1> QED BY <1>1, <1>2, <1>3, <1>4, <1>5, <1>6

LEMMA TickImplements ==
    ASSUME IInv, NEW does \in Calm,
           TickThrows \/ TickEnds(does, TRUE) \/ TickWaits(does, TRUE)
              \/ TickSameAction(does, TRUE)
    PROVE  [Promise!Next]_(Promise!vars)
<1> USE DEF Promise!Next, Promise!vars
<1>0. /\ Well(loop) /\ loop.outcome = "pending" /\ ~loop.stopped
      /\ UNCHANGED charge /\ seen' = seen \cup {reply.state}
  BY DEF IInv, Well, TickThrows, TickEnds, TickWaits, TickSameAction, Tick, Running
<1>a. ("ACTION_REQUIRED" \in seen)' = TRUE \/ UNCHANGED ("ACTION_REQUIRED" \in seen)
  <2>1. ("ACTION_REQUIRED" \in seen)'
           <=> ("ACTION_REQUIRED" \in seen \/ reply.state = "ACTION_REQUIRED")
    BY <1>0
  <2>2. CASE reply.state = "ACTION_REQUIRED"
    BY <2>1, <2>2
  <2>3. CASE reply.state # "ACTION_REQUIRED"
    <3>1. ("ACTION_REQUIRED" \in seen)' <=> "ACTION_REQUIRED" \in seen
      BY <2>1, <2>3
    <3> QED BY <3>1
  <2> QED BY <2>2, <2>3
<1>b. ("ACTION_REQUIRED" \in seen)' \in {"ACTION_REQUIRED" \in seen, TRUE}
  BY <1>a, Zenon
<1>c. reply.state # "ACTION_REQUIRED" => UNCHANGED ("ACTION_REQUIRED" \in seen)
  <2> SUFFICES ASSUME reply.state # "ACTION_REQUIRED"
               PROVE  UNCHANGED ("ACTION_REQUIRED" \in seen)
    OBVIOUS
  <2>1. ("ACTION_REQUIRED" \in seen)' <=> "ACTION_REQUIRED" \in seen
    BY <1>0
  <2> QED BY <2>1
<1>1. /\ Well(Received(loop)) /\ Received(loop).outcome = "pending"
      /\ ~Received(loop).stopped /\ Received(loop).request = "none"
  BY <1>0, ReceivedWell
<1> DEFINE told1 == Callback(Received(loop), does)
<1>2. /\ Well(told1) /\ told1.request = "none"
      /\ told1.outcome = (IF does = "aborts" THEN "aborted" ELSE "pending")
      /\ told1.stopped = (does = "aborts")
      /\ Reported(does, TRUE) = told1
  BY <1>1, CallbackWell DEF Reported
<1> HIDE DEF told1
<1>3. CASE TickThrows
  <2>1. loop'.outcome = "error"
    BY <1>3, <1>1, StopWell DEF TickThrows, Rejected, Outcomes
  <2>2. aborted' = aborted
    BY <1>3 DEF TickThrows, Tick, NoteAbort, IInv, TypeOK, AwaitTypeOK
  <2>3. Promise!BreakOff
    BY <1>0, <1>b, <2>1, <2>2 DEF Promise!BreakOff, Promise!Settle
  <2> QED BY <2>3
<1>4. ASSUME ~TickThrows, loop'.outcome = told1.outcome PROVE [Promise!Next]_(Promise!vars)
  <2>1. aborted' = (aborted \/ does = "aborts") /\ aborted \in BOOLEAN
    BY <1>4 DEF TickEnds, TickWaits, TickSameAction, Tick, NoteAbort,
       IInv, TypeOK, AwaitTypeOK
  <2>2. CASE does = "aborts"
    <3>1. Promise!Abort
      BY <1>0, <1>b, <1>2, <1>4, <2>1, <2>2 DEF Promise!Abort
    <3> QED BY <3>1
  <2>3. CASE does # "aborts"
    <3>1. UNCHANGED <<loop.outcome, charge.state, aborted>>
      BY <1>0, <1>2, <1>4, <2>1, <2>3
    <3> QED BY <1>a, <3>1 DEF Promise!SeeAction
  <2> QED BY <2>2, <2>3
<1>5. CASE TickEnds(does, TRUE) /\ ~TickThrows
  <2> DEFINE end == IF reply.state = "SUCCEEDED" THEN "resolved" ELSE "failed"
  <2>0. end \in Outcomes \ {"pending"}
    BY DEF Outcomes
  <2>1. loop'.outcome = IF told1.stopped THEN told1.outcome ELSE end
    <3>1. loop' = Stop(told1, end)
      BY <1>5, <1>2 DEF TickEnds
    <3> HIDE DEF end
    <3> QED BY <1>2, <2>0, <3>1, StopWell
  <2>2. CASE does = "aborts"
    BY <1>2, <1>4, <1>5, <2>1, <2>2
  <2>3. CASE does # "aborts"
    <3>1. loop'.outcome = end /\ charge.state = reply.state /\ reply.state \in Terminal
      BY <1>2, <1>5, <2>1, <2>3 DEF TickEnds, IInv
    <3>2. aborted' = aborted
      BY <1>5, <2>3 DEF TickEnds, Tick, NoteAbort, IInv, TypeOK, AwaitTypeOK
    <3>3. UNCHANGED ("ACTION_REQUIRED" \in seen)
      BY <1>c, <3>1 DEF Terminal
    <3>4. CASE reply.state = "SUCCEEDED"
      <4>1. Promise!Succeed
        BY <1>0, <3>1, <3>2, <3>3, <3>4 DEF Promise!Succeed, Promise!Settle
      <4> QED BY <4>1
    <3>5. CASE reply.state = "FAILED"
      <4>1. Promise!Fail
        BY <1>0, <3>1, <3>2, <3>3, <3>5 DEF Promise!Fail, Promise!Settle
      <4> QED BY <4>1
    <3> QED BY <3>1, <3>4, <3>5 DEF Terminal
  <2> QED BY <2>2, <2>3
<1>6. CASE TickWaits(does, TRUE) /\ ~TickThrows
  BY <1>2, <1>4, <1>6, ScheduleWell DEF TickWaits
<1>7. CASE TickSameAction(does, TRUE) /\ ~TickThrows
  <2>1. /\ Well(Disarmed(told1)) /\ Disarmed(told1).request = "none"
        /\ Disarmed(told1).outcome = told1.outcome
    BY <1>2, DisarmedWell
  <2> QED BY <1>2, <1>4, <1>7, <2>1, ScheduleWell DEF TickSameAction
<1> QED BY <1>3, <1>5, <1>6, <1>7

LEMMA NewActionImplements ==
    ASSUME IInv, NEW does \in Calm, NEW acts \in Behaviours,
           TickNewAction(does, acts, TRUE)
    PROVE  [Promise!Next]_(Promise!vars)
<1> USE DEF Promise!Next, Promise!vars
<1> DEFINE told1 == Disarmed(Reported(does, TRUE))
           told2 == Callback(told1, acts)
<1>0. /\ Well(loop) /\ loop.outcome = "pending" /\ ~loop.stopped
      /\ UNCHANGED charge /\ seen' = seen \cup {"ACTION_REQUIRED"}
      /\ aborted' = (aborted \/ "aborts" \in {does, acts}) /\ aborted \in BOOLEAN
      /\ loop' = IF acts = "throws" THEN Rejected(told1) ELSE Schedule(told2)
  BY DEF IInv, Well, TickNewAction, Running, TypeOK, AwaitTypeOK
<1>1. /\ Well(Received(loop)) /\ Received(loop).outcome = "pending"
      /\ ~Received(loop).stopped /\ Received(loop).request = "none"
  BY <1>0, ReceivedWell
<1>2. /\ Well(told1) /\ told1.request = "none"
      /\ told1.outcome = (IF does = "aborts" THEN "aborted" ELSE "pending")
      /\ told1.stopped = (does = "aborts")
  BY <1>1, CallbackWell, DisarmedWell DEF Reported
<1> HIDE DEF told1
<1>3. /\ Well(told2) /\ told2.request = "none"
      /\ told2.outcome =
            (IF "aborts" \in {does, acts} THEN "aborted" ELSE "pending")
  BY <1>2, CallbackWell
<1> HIDE DEF told2
<1>4. CASE acts = "throws"
  <2>1. loop'.outcome = IF does = "aborts" THEN "aborted" ELSE "error"
    BY <1>0, <1>2, <1>4, StopWell DEF Rejected, Outcomes
  <2> QED BY <1>0, <1>4, <2>1 DEF Promise!Abort, Promise!BreakOff, Promise!Settle
<1>5. CASE acts # "throws"
  <2>1. loop'.outcome = told2.outcome
    BY <1>0, <1>3, <1>5, ScheduleWell
  <2> QED BY <1>0, <1>3, <2>1 DEF Promise!Abort, Promise!SeeAction
<1> QED BY <1>4, <1>5

(* charge-polling.ts:13-26: awaitCharge() keeps the promise its doc makes.  *)
THEOREM Implementation == Spec => ImplementsChargeOutcome
<1>1. IInv /\ [Next]_vars => [Promise!Next]_(Promise!vars)
  BY StepCases, OthersImplement, TickImplements, NewActionImplements
<1> QED BY <1>1, StartImplements, Invariance, PTL
        DEF Spec, ImplementsChargeOutcome, Promise!Spec

-----------------------------------------------------------------------------
(* PaymentStatus.                                                           *)

StatusInv == Status!TypeOK /\ Well(statusLoop)

(* The loops of the modules are the same.                                   *)
LEMMA StatusLoops ==
    ASSUME NEW l, NEW o
    PROVE  /\ Status!Loops = Loops
           /\ Status!Stop(l, o) = Stop(l, o)
           /\ Status!AbortFires(l) = AbortFires(l)
           /\ Status!Callback(l, o) = Callback(l, o)
           /\ Status!Received(l) = Received(l)
           /\ Status!Rejected(l) = Rejected(l)
           /\ Status!Schedule(l) = Schedule(l)
           /\ Status!NextPoll(l) = NextPoll(l)
           /\ Status!LimitReached(l) = LimitReached(l)
BY DEF Status!Loops, Loops, Status!Outcomes, Outcomes, Status!Stop, Stop,
       Status!AbortFires, AbortFires, Status!Callback, Callback,
       Status!Received, Received, Status!Rejected, Rejected,
       Status!Schedule, Schedule, Status!NextPoll, NextPoll,
       Status!LimitReached, LimitReached

(* polling.ts:57-62, 95-104: what stops a loop whatever its state.          *)
LEMMA EndsWell ==
    ASSUME NEW l, Well(l)
    PROVE  /\ Well(Rejected(Received(l)))
           /\ Well(LimitReached(l))
           /\ Well(NextPoll(l)) \/ ~l.timer
<1>1. Well(Rejected(Received(l)))
  BY ReceivedWell, StopWell DEF Rejected, Outcomes
<1>2. Well([l EXCEPT !.limit = FALSE])
  BY DEF Well, Loops
<1>3. Well(LimitReached(l))
  BY <1>2, StopWell DEF LimitReached, Outcomes
<1>4. Well(NextPoll(l)) \/ ~l.timer
  BY DEF NextPoll, Well, Loops
<1> QED BY <1>1, <1>3, <1>4

LEMMA StatusStep ==
    ASSUME StatusInv, [Status!Next]_(Status!vars)
    PROVE  StatusInv'
<1> USE DEF StatusInv
<1>0. /\ statusLoop \in Loops
      /\ \A l : Well(l) => l \in Status!Loops
  BY StatusLoops DEF Well
<1>1. CASE Status!ThingMoves
  <2>1. thing' \in Status!States
    BY <1>1 DEF Status!ThingMoves, Status!TypeOK, Status!States
  <2> QED BY <1>1, <2>1 DEF Status!ThingMoves, Status!Unchanged, Status!TypeOK
<1>2. CASE Status!RequestAnswered
  <2>1. Well(statusLoop')
    BY <1>2 DEF Status!RequestAnswered, Well, Loops
  <2> QED BY <1>0, <1>2, <2>1 DEF Status!RequestAnswered, Status!Unchanged, Status!TypeOK
<1>3. ASSUME Well(statusLoop'), UNCHANGED <<limited, watchful, thing, statusReply>>
      PROVE  StatusInv'
  BY <1>0, <1>3 DEF Status!TypeOK
<1>4. CASE Status!RequestFails
  BY <1>3, <1>4, EndsWell, StatusLoops DEF Status!RequestFails, Status!Unchanged
<1>5. CASE \E does \in Status!Behaviours : Status!Tick(does)
  <2>1. PICK does \in Status!Behaviours : Status!Tick(does)
    BY <1>5
  <2> DEFINE answered == Received(statusLoop)
             heard == Callback(answered, does)
  <2>2. Well(answered) /\ answered.request = "none"
    BY ReceivedWell
  <2>3. Well(heard) /\ heard.request = "none"
    <3> HIDE DEF answered
    <3> QED BY <2>2, CallbackWell
  <2>4. /\ statusLoop' \in {answered, Rejected(answered), Stop(heard, "resolved"), Schedule(heard)}
        /\ UNCHANGED <<limited, watchful, thing, statusReply>>
    BY <2>1, StatusLoops DEF Status!Tick, Status!Unchanged
  <2>5. Well(Rejected(answered)) /\ Well(Stop(heard, "resolved")) /\ Well(Schedule(heard))
    <3> HIDE DEF answered, heard
    <3> QED BY <2>2, <2>3, StopWell, ScheduleWell DEF Rejected, Outcomes
  <2>6. Well(statusLoop')
    <3> HIDE DEF answered, heard
    <3> QED BY <2>2, <2>4, <2>5
  <2> QED BY <1>3, <2>4, <2>6
<1>6. CASE Status!PollTimer \/ Status!LimitTimer
  BY <1>3, <1>6, EndsWell, StatusLoops
     DEF Status!PollTimer, Status!LimitTimer, Status!Unchanged
<1>7. CASE Status!CallerAborts
  BY <1>3, <1>7, AbortWell, StatusLoops DEF Status!CallerAborts, Status!Unchanged
<1>8. CASE UNCHANGED Status!vars
  BY <1>3, <1>8 DEF Status!vars
<1> QED BY <1>1, <1>2, <1>4, <1>5, <1>6, <1>7, <1>8 DEF Status!Next

(* polling.ts:29-38,53: nor does a wait for a payment, a refund or a        *)
(* recurrence leave a timer or a listener.                                  *)
THEOREM StatusHoldsNothing == Status!Spec => []Status!EndedHoldsNothing
<1>1. ASSUME Status!Init PROVE StatusInv
  <2>1. Well(statusLoop)
    <3>1. Well(Started(limited)) /\ Well(Refused)
      BY <1>1 DEF Status!Init, Started, Refused, Well, Loops, Outcomes
    <3>2. Status!Started(limited) = Started(limited) /\ Status!Refused = Refused
      BY DEF Status!Started, Started, Status!Refused, Refused
    <3> QED BY <1>1, <3>1, <3>2 DEF Status!Init
  <2>2. statusLoop \in Status!Loops
    BY <2>1, StatusLoops DEF Well
  <2> QED BY <1>1, <2>1, <2>2 DEF StatusInv, Status!Init, Status!TypeOK, Status!States
<1>2. StatusInv => Status!EndedHoldsNothing
  BY DEF StatusInv, Well, Status!EndedHoldsNothing
<1> QED BY <1>1, <1>2, StatusStep, PTL DEF Status!Spec

-----------------------------------------------------------------------------
(* EventPaging.                                                             *)

(* What the caller is owed is what is left of the page, and nothing while   *)
(* the generator is not at its page, unless a cursor has ended it.          *)
PagingInv ==
    /\ buffer \in Nat
    /\ phase # "thrown" => owed = IF phase = "ready" THEN buffer ELSE 0

(* events.module.ts:182-183: every event received reaches the caller, but   *)
(* for those of a page whose cursor is no URL.                              *)
THEOREM EventsReach == Events!Spec => []EventsReachCaller
<1>1. Events!Init => PagingInv
  BY DEF Events!Init, PagingInv
<1>2. ASSUME PagingInv, [Events!Next]_(Events!vars) PROVE PagingInv'
  <2> USE DEF PagingInv
  <2>1. CASE Events!Yield
    BY <1>2, <2>1 DEF Events!Yield
  <2>2. CASE Events!UseUp \/ Events!FetchPage \/ Events!NoMorePages \/ Events!PageBroken
    BY <1>2, <2>2 DEF Events!UseUp, Events!FetchPage, Events!NoMorePages, Events!PageBroken
  <2>3. ASSUME NEW items \in 0 .. MaxItems, NEW cursor \in Pages \cup {NoPage},
               Events!PageArrives(items, cursor)
        PROVE  PagingInv'
    BY <2>3 DEF Events!PageArrives, Events!Kept
  <2>4. ASSUME NEW items \in 0 .. MaxItems, Events!CursorThrows(items)
        PROVE  PagingInv'
    BY <1>2, <2>4 DEF Events!CursorThrows
  <2>5. CASE UNCHANGED Events!vars
    BY <1>2, <2>5 DEF Events!vars
  <2> QED BY <1>2, <2>1, <2>2, <2>3, <2>4, <2>5 DEF Events!Next, Events!Answer
<1>3. PagingInv => EventsReachCaller
  BY DEF PagingInv, EventsReachCaller, Events!EventsReachCaller
<1> QED BY <1>1, <1>2, <1>3, PTL DEF Events!Spec

-----------------------------------------------------------------------------
(* BrowserCharge.                                                           *)

(* The watchdog is armed only while nothing has settled, and until the page *)
(* hides after the redirect it watches.                                     *)
BrowserInv ==
    /\ Well(loop)
    /\ watch \in Browser!Watches
    /\ aborted \in BOOLEAN
    /\ watch.result # "pending" => watch.stall # "armed"
    /\ watch.stall = "armed" => watch.hiding /\ navigating
    /\ SettledIsStopped

LEMMA BrowserLoops ==
    ASSUME NEW l, NEW o
    PROVE  /\ Browser!Outcomes = Outcomes
           /\ Browser!Stop(l, o) = Stop(l, o)
           /\ Browser!AbortFires(l) = AbortFires(l)
           /\ Browser!Callback(l, o) = Callback(l, o)
           /\ Browser!Received(l) = Received(l)
           /\ Browser!Rejected(l) = Rejected(l)
           /\ Browser!Schedule(l) = Schedule(l)
           /\ Browser!Disarmed(l) = Disarmed(l)
           /\ Browser!NextPoll(l) = NextPoll(l)
           /\ Browser!LimitReached(l) = LimitReached(l)
           /\ Browser!Started(o) = Started(o) /\ Browser!Refused = Refused
BY DEF Browser!Outcomes, Outcomes, Browser!Stop, Stop,
       Browser!AbortFires, AbortFires, Browser!Callback, Callback,
       Browser!Received, Received, Browser!Rejected, Rejected,
       Browser!Schedule, Schedule, Browser!Disarmed, Disarmed,
       Browser!NextPoll, NextPoll, Browser!LimitReached, LimitReached,
       Browser!Started, Started, Browser!Refused, Refused

(* What a step may do to the loop and the caller's abort.                   *)
LoopGoesOn ==
    /\ Well(loop')
    /\ loop.stopped => loop'.stopped
    /\ ~loop.stopped /\ loop'.outcome = "aborted" => aborted'
    /\ aborted => aborted'
    /\ aborted' \in BOOLEAN

(* payments.module.ts:264-270: what stopWatching() leaves.                  *)
LEMMA StopWatchingLeaves ==
    ASSUME NEW w \in Browser!Watches
    PROVE  /\ Browser!StopWatching(w) \in Browser!Watches
           /\ Browser!StopWatching(w).stall # "armed"
           /\ Browser!StopWatching(w).result = w.result
<1> DEFINE s == IF w.stall = "armed" THEN "cleared" ELSE w.stall
           v == Browser!StopWatching(w)
<1>1. s \in {"unset", "cleared", "fired"}
  BY DEF Browser!Watches
<1>2. v = [w EXCEPT !.stall = s, !.hiding = FALSE, !.chained = FALSE]
  BY DEF Browser!StopWatching
<1> HIDE DEF s, v
<1>3. /\ v \in Browser!Watches /\ v.stall = s /\ v.result = w.result
  BY <1>1, <1>2 DEF Browser!Watches
<1> QED BY <1>1, <1>3 DEF v

(* payments.module.ts:322: the first to settle wins, and ends the watch.    *)
LEMMA RacedSettles ==
    ASSUME NEW w \in Browser!Watches, NEW o \in Outcomes \cup {"stalled"}
    PROVE  /\ Browser!Raced(w, o) \in Browser!Watches
           /\ Browser!Raced(w, o).result = (IF w.result = "pending" THEN o ELSE w.result)
           /\ \/ Browser!Raced(w, o) = w
              \/ Browser!Raced(w, o).stall # "armed"
           /\ w.result = "pending" /\ o # "pending" => Browser!Raced(w, o).stall # "armed"
<1>1. CASE w.result = "pending" /\ o # "pending"
  <2> DEFINE s == Browser!StopWatching(w)
             v == [s EXCEPT !.result = o]
  <2>1. s \in Browser!Watches /\ s.stall # "armed"
    BY StopWatchingLeaves
  <2>2. Browser!Raced(w, o) = v
    BY <1>1 DEF Browser!Raced
  <2> HIDE DEF s
  <2>3. v \in Browser!Watches /\ v.result = o /\ v.stall = s.stall
    BY <2>1, BrowserLoops DEF Browser!Watches
  <2> QED BY <1>1, <2>1, <2>2, <2>3
<1>2. CASE ~(w.result = "pending" /\ o # "pending")
  BY <1>2 DEF Browser!Raced
<1> QED BY <1>1, <1>2

(* A step after which the race is run again.                                *)
LEMMA RaceKeeps ==
    ASSUME BrowserInv, LoopGoesOn, NEW w \in Browser!Watches,
           w.result = watch.result,
           w.result # "pending" => w.stall # "armed",
           w.stall = "armed" => w.hiding /\ navigating',
           watch' = Browser!Raced(w, loop'.outcome)
    PROVE  BrowserInv'
<1> USE DEF BrowserInv, LoopGoesOn
<1>1. loop'.outcome \in Outcomes
  BY DEF Well, Loops
<1>2. /\ watch' \in Browser!Watches
      /\ watch'.result = (IF w.result = "pending" THEN loop'.outcome ELSE w.result)
      /\ watch' = w \/ watch'.stall # "armed"
      /\ w.result = "pending" /\ loop'.outcome # "pending" => watch'.stall # "armed"
  BY <1>1, RacedSettles
<1>3. watch.result # "pending" <=> loop.stopped
  BY DEF SettledIsStopped, Browser!SettledIsStopped
<1>4. loop'.stopped <=> loop'.outcome # "pending"
  BY DEF Well
<1>5. SettledIsStopped'
  <2>1. watch'.result # "pending" <=> loop'.stopped
    BY <1>2, <1>3, <1>4
  <2>2. watch'.result = "aborted" => aborted'
    BY <1>2, <1>3 DEF SettledIsStopped, Browser!SettledIsStopped
  <2> QED BY <2>1, <2>2 DEF SettledIsStopped, Browser!SettledIsStopped
<1>6. watch'.result # "pending" => watch'.stall # "armed"
  BY <1>2
<1>7. watch'.stall = "armed" => watch'.hiding /\ navigating'
  BY <1>2
<1> QED BY <1>2, <1>5, <1>6, <1>7

(* charge-polling.ts:47-93, with an abort that is heard or not.             *)
LEMMA BrowserTick ==
    ASSUME BrowserInv, NEW does \in Calm, NEW hears \in BOOLEAN,
           \/ Browser!TickThrows \/ Browser!TickEnds(does, hears)
           \/ Browser!TickWaits(does, hears) \/ Browser!TickSameAction(does, hears)
    PROVE  LoopGoesOn
<1> USE DEF BrowserInv, Calm
<1> DEFINE answered == Received(loop)
           heard == IF hears THEN Callback(answered, does) ELSE answered
<1>1. ~loop.stopped /\ loop.outcome = "pending"
  BY DEF Browser!TickThrows, Browser!TickEnds, Browser!TickWaits,
     Browser!TickSameAction, Browser!Tick, Browser!Running, Well
<1>2. /\ Well(answered) /\ answered.request = "none"
      /\ answered.outcome = "pending" /\ ~answered.stopped
  BY <1>1, ReceivedWell
<1>3. /\ Well(heard) /\ heard.request = "none"
      /\ heard.outcome = "aborted" => does = "aborts"
      /\ heard.outcome \in {"pending", "aborted"}
  <2> HIDE DEF answered
  <2> QED BY <1>2, CallbackWell
<1>4. Browser!Reported(does, hears) = heard
  BY BrowserLoops DEF Browser!Reported
<1> HIDE DEF answered, heard
<1>5. CASE Browser!TickThrows
  <2>1. loop' = Rejected(answered)
    BY <1>5, BrowserLoops DEF Browser!TickThrows, answered
  <2>2. Well(loop') /\ loop'.outcome = "error"
    BY <1>2, <2>1, StopWell DEF Rejected, Outcomes
  <2>3. aborted' \in BOOLEAN /\ (aborted => aborted')
    BY <1>5 DEF Browser!TickThrows, Browser!Tick, Browser!NoteAbort
  <2> QED BY <1>1, <2>2, <2>3 DEF LoopGoesOn
<1>6. ASSUME Browser!Tick(does), Well(loop'),
             loop'.outcome = "aborted" => heard.outcome = "aborted"
      PROVE  LoopGoesOn
  BY <1>1, <1>3, <1>6 DEF LoopGoesOn, Browser!Tick, Browser!NoteAbort
<1>7. CASE Browser!TickEnds(does, hears)
  <2>1. PICK end \in {"resolved", "failed"} : loop' = Stop(heard, end)
    BY <1>4, <1>7, BrowserLoops DEF Browser!TickEnds
  <2>2. /\ Well(loop')
        /\ loop'.outcome = (IF heard.stopped THEN heard.outcome ELSE end)
    BY <1>3, <2>1, StopWell DEF Outcomes
  <2> QED BY <1>6, <1>7, <2>2 DEF Browser!TickEnds
<1>8. CASE Browser!TickWaits(does, hears)
  <2>1. loop' = Schedule(heard)
    BY <1>4, <1>8, BrowserLoops DEF Browser!TickWaits
  <2> QED BY <1>3, <1>6, <1>8, <2>1, ScheduleWell DEF Browser!TickWaits
<1>9. CASE Browser!TickSameAction(does, hears)
  <2>1. loop' = Schedule(Disarmed(heard))
    BY <1>4, <1>9, BrowserLoops DEF Browser!TickSameAction
  <2>2. /\ Well(Disarmed(heard)) /\ Disarmed(heard).request = "none"
        /\ Disarmed(heard).outcome = heard.outcome
    BY <1>3, DisarmedWell
  <2> QED BY <1>6, <1>9, <2>1, <2>2, ScheduleWell DEF Browser!TickSameAction
<1> QED BY <1>5, <1>7, <1>8, <1>9

LEMMA BrowserNewAction ==
    ASSUME BrowserInv, NEW does \in Calm, NEW acts \in Browser!Behaviours,
           NEW hears \in BOOLEAN, Browser!TickNewAction(does, acts, hears)
    PROVE  LoopGoesOn /\ ~loop.stopped
<1> USE DEF BrowserInv, Calm
<1> DEFINE answered == Received(loop)
           heard == IF hears THEN Callback(answered, does) ELSE answered
           told1 == Disarmed(heard)
           told2 == IF hears THEN Callback(told1, acts) ELSE told1
<1>1. ~loop.stopped /\ loop.outcome = "pending"
  BY DEF Browser!TickNewAction, Browser!Running, Well
<1>2. /\ Well(answered) /\ answered.request = "none"
      /\ answered.outcome = "pending" /\ ~answered.stopped
  BY <1>1, ReceivedWell
<1> HIDE DEF answered
<1>3. /\ Well(heard) /\ heard.request = "none"
      /\ heard.outcome = "aborted" => does = "aborts"
  BY <1>2, CallbackWell
<1>4. Browser!Reported(does, hears) = heard
  BY BrowserLoops DEF Browser!Reported, answered
<1> HIDE DEF heard
<1>5. /\ Well(told1) /\ told1.request = "none"
      /\ told1.outcome = heard.outcome
  BY <1>3, DisarmedWell
<1> HIDE DEF told1
<1>6. /\ Well(told2) /\ told2.request = "none"
      /\ told2.outcome = "aborted" => does = "aborts" \/ acts = "aborts"
  BY <1>3, <1>5, CallbackWell
<1>7. /\ loop' = IF acts = "throws" THEN Rejected(told1) ELSE Schedule(told2)
      /\ aborted' = (aborted \/ "aborts" \in {does, acts})
  BY <1>4, BrowserLoops DEF Browser!TickNewAction, told1
<1> HIDE DEF told2
<1>8. Well(loop') /\ (loop'.outcome = "aborted" => "aborts" \in {does, acts})
  <2>1. CASE acts = "throws"
    BY <1>3, <1>5, <1>7, <2>1, StopWell DEF Rejected, Outcomes
  <2>2. CASE acts # "throws"
    BY <1>6, <1>7, <2>2, ScheduleWell
  <2> QED BY <2>1, <2>2
<1> QED BY <1>1, <1>7, <1>8 DEF LoopGoesOn

(* The other steps of the wait.                                             *)
LEMMA BrowserRest ==
    ASSUME BrowserInv,
           \/ Browser!RequestAnswered \/ Browser!RequestFails \/ Browser!LateAnswer
           \/ Browser!PollTimer \/ Browser!LimitTimer
           \/ Browser!CallerAborts(Browser!Hears)
    PROVE  LoopGoesOn
<1> USE DEF BrowserInv
<1>0. loop.stopped => ~loop.timer /\ ~loop.limit /\ ~loop.listening
  BY DEF Well
<1>1. CASE Browser!RequestAnswered
  BY <1>1 DEF Browser!RequestAnswered, LoopGoesOn, Well, Loops
<1>2. CASE Browser!RequestFails
  <2>1. loop' = Rejected(Received(loop)) /\ aborted' = aborted
    BY <1>2, BrowserLoops DEF Browser!RequestFails
  <2>2. /\ Well(loop') /\ loop'.stopped
        /\ loop'.outcome = IF loop.stopped THEN loop.outcome ELSE "error"
    BY <2>1, ReceivedWell, StopWell DEF Rejected, Outcomes
  <2> QED BY <2>1, <2>2 DEF LoopGoesOn
<1>3. CASE Browser!LateAnswer
  <2>1. loop' = Received(loop) /\ aborted' = aborted
    BY <1>3, BrowserLoops DEF Browser!LateAnswer
  <2> QED BY <1>3, <2>1, ReceivedWell DEF LoopGoesOn, Browser!LateAnswer, Browser!Running
<1>4. CASE Browser!PollTimer
  <2>1. loop' = NextPoll(loop) /\ aborted' = aborted /\ loop.timer
    BY <1>4, BrowserLoops DEF Browser!PollTimer
  <2> QED BY <1>0, <2>1 DEF LoopGoesOn, NextPoll, Well, Loops
<1>5. CASE Browser!LimitTimer
  <2>1. loop' = LimitReached(loop) /\ aborted' = aborted /\ loop.limit
    BY <1>5, BrowserLoops DEF Browser!LimitTimer
  <2> DEFINE l == [loop EXCEPT !.limit = FALSE]
  <2>2. Well(l) /\ ~l.stopped /\ loop' = Stop(l, "timeout")
    BY <1>0, <2>1 DEF Well, Loops, LimitReached
  <2> HIDE DEF l
  <2>3. Well(loop') /\ loop'.outcome = "timeout"
    BY <2>2, StopWell DEF Outcomes
  <2> QED BY <1>0, <2>1, <2>3 DEF LoopGoesOn
<1>6. CASE Browser!CallerAborts(Browser!Hears)
  <2>1. loop' \in {AbortFires(loop), loop} /\ aborted' = TRUE
    BY <1>6, BrowserLoops DEF Browser!CallerAborts
  <2> QED BY <2>1, AbortWell DEF LoopGoesOn
<1> QED BY <1>1, <1>2, <1>3, <1>4, <1>5, <1>6

LEMMA WaitStepKeeps ==
    ASSUME BrowserInv, LoopGoesOn, navigating' = navigating,
           watch' = Browser!Raced(watch, loop'.outcome)
    PROVE  BrowserInv'
BY RaceKeeps DEF BrowserInv

LEMMA ActsKeeps ==
    ASSUME BrowserInv, NEW does \in Calm, NEW acts \in Browser!Behaviours,
           Browser!Acts(does, acts)
    PROVE  BrowserInv'
<1>1. LoopGoesOn /\ ~loop.stopped
  BY BrowserNewAction DEF Browser!Acts, BrowserInv, Browser!Watches
<1>2. CASE redirects /\ acts # "throws"
  <2> DEFINE w == Browser!Armed(watch)
  <2>1. /\ w \in Browser!Watches /\ w.result = watch.result
        /\ w.stall = "armed" => w.hiding
    BY DEF Browser!Armed, Browser!Watches, BrowserInv
  <2>2. watch.result = "pending"
    BY <1>1 DEF BrowserInv, SettledIsStopped, Browser!SettledIsStopped
  <2>3. watch' = Browser!Raced(w, loop'.outcome) /\ navigating' = TRUE
    BY <1>2 DEF Browser!Acts
  <2> HIDE DEF w
  <2> QED BY <1>1, <2>1, <2>2, <2>3, RaceKeeps
<1>3. CASE ~(redirects /\ acts # "throws")
  BY <1>1, <1>3, WaitStepKeeps DEF Browser!Acts
<1> QED BY <1>2, <1>3

(* payments.module.ts:304-316: the watchdog gives up.                       *)
LEMMA GiveUpKeeps ==
    ASSUME BrowserInv, Browser!StallTimer
    PROVE  /\ BrowserInv'
           /\ watch.result = "pending" /\ navigating
<1> USE DEF BrowserInv
<1>1. /\ watch.stall = "armed" /\ watch.result = "pending" /\ navigating
      /\ UNCHANGED <<aborted, navigating>>
  BY DEF Browser!StallTimer
<1> DEFINE fired == [watch EXCEPT !.stall = "fired"]
           lost == Browser!Raced(fired, "stalled")
<1>2. fired \in Browser!Watches /\ fired.result = "pending"
  BY <1>1 DEF Browser!Watches
<1>3. loop' = AbortFires(loop) /\ watch' = Browser!Raced(lost, loop'.outcome)
  BY BrowserLoops DEF Browser!StallTimer, Browser!GiveUp
<1>4. Well(loop') /\ loop'.stopped /\ loop'.outcome \in Outcomes
  BY <1>3, AbortWell DEF Well, Loops
<1> HIDE DEF fired
<1>5. lost \in Browser!Watches /\ lost.result = "stalled" /\ lost.stall # "armed"
  BY <1>2, RacedSettles
<1> HIDE DEF lost
<1>6. watch' = lost
  BY <1>3, <1>5 DEF Browser!Raced
<1> QED BY <1>1, <1>4, <1>5, <1>6 DEF SettledIsStopped, Browser!SettledIsStopped

(* Steps of the page and of GoPay.                                          *)
LEMMA PageKeeps ==
    ASSUME BrowserInv,
           \/ Browser!ChargeMovesOn \/ Browser!PageHides \/ Browser!PageShows
           \/ UNCHANGED Browser!vars
    PROVE  BrowserInv' /\ watch'.result = watch.result
<1> USE DEF BrowserInv
<1>1. CASE Browser!ChargeMovesOn \/ Browser!PageShows \/ UNCHANGED Browser!vars
  <2>1. UNCHANGED <<loop, aborted, watch, navigating>>
    BY <1>1 DEF Browser!ChargeMovesOn, Browser!ChargeMoves, Browser!PageShows,
       Browser!vars, Browser!waitVars
  <2> QED BY <2>1 DEF Well, SettledIsStopped, Browser!SettledIsStopped
<1>2. CASE Browser!PageHides
  <2>1. UNCHANGED <<loop, aborted>>
    BY <1>2 DEF Browser!PageHides, Browser!waitVars
  <2>2. /\ watch' \in Browser!Watches /\ watch'.result = watch.result
        /\ watch'.stall # "armed"
    BY <1>2, StopWatchingLeaves DEF Browser!PageHides
  <2> QED BY <2>1, <2>2 DEF Well, SettledIsStopped, Browser!SettledIsStopped
<1> QED BY <1>1, <1>2

LEMMA BrowserStepCases ==
    ASSUME [Browser!Next]_(Browser!vars)
    PROVE  \/ Browser!ChargeMovesOn \/ Browser!PageHides \/ Browser!PageShows
           \/ UNCHANGED Browser!vars
           \/ Browser!StallTimer
           \/ /\ \/ Browser!RequestAnswered \/ Browser!RequestFails \/ Browser!LateAnswer
                 \/ Browser!PollTimer \/ Browser!LimitTimer
                 \/ Browser!CallerAborts(Browser!Hears)
              /\ watch' = Browser!Raced(watch, loop'.outcome) /\ navigating' = navigating
           \/ \E does \in Calm :
                 /\ \/ Browser!TickThrows \/ Browser!TickEnds(does, Browser!Hears)
                    \/ Browser!TickWaits(does, Browser!Hears)
                    \/ Browser!TickSameAction(does, Browser!Hears)
                 /\ watch' = Browser!Raced(watch, loop'.outcome) /\ navigating' = navigating
           \/ \E does \in Calm, acts \in Browser!Behaviours : Browser!Acts(does, acts)
<1>1. Browser!Calm = Calm /\ "returns" \in Calm
  BY DEF Browser!Calm, Calm
<1>2. CASE Browser!TickTaken
  BY <1>1, <1>2 DEF Browser!TickTaken, Browser!WaitStep
<1>3. CASE \/ Browser!Answers \/ Browser!WaitStep(Browser!LateAnswer)
           \/ Browser!Polls \/ Browser!Limits
           \/ Browser!WaitStep(Browser!CallerAborts(Browser!Hears))
  BY <1>3 DEF Browser!Answers, Browser!Polls, Browser!Limits, Browser!WaitStep
<1> QED BY <1>2, <1>3 DEF Browser!Next

LEMMA BrowserStepKeeps ==
    ASSUME BrowserInv, [Browser!Next]_(Browser!vars)
    PROVE  /\ BrowserInv'
           /\ watch'.result = "stalled" /\ watch.result = "pending" => navigating
<1>1. Browser!Hears \in BOOLEAN
  BY DEF Browser!Hears, BrowserInv, Browser!Watches
<1>2. ASSUME LoopGoesOn, watch' = Browser!Raced(watch, loop'.outcome)
      PROVE  watch.result = "pending" => watch'.result # "stalled"
  <2>1. loop'.outcome \in Outcomes
    BY <1>2 DEF LoopGoesOn, Well, Loops
  <2> QED BY <1>2, <2>1, RacedSettles DEF BrowserInv, Outcomes
<1>3. ASSUME NEW does \in Calm, NEW acts \in Browser!Behaviours, Browser!Acts(does, acts)
      PROVE  watch.result = "pending" => watch'.result # "stalled"
  <2>1. LoopGoesOn
    BY <1>1, <1>3, BrowserNewAction DEF Browser!Acts, Browser!Hears
  <2>2. loop'.outcome \in Outcomes /\ "stalled" \notin Outcomes
    BY <2>1 DEF LoopGoesOn, Well, Loops, Outcomes
  <2>3. PICK w \in {watch, Browser!Armed(watch)} : watch' = Browser!Raced(w, loop'.outcome)
    BY <1>3 DEF Browser!Acts
  <2>4. w \in Browser!Watches /\ w.result = watch.result
    BY <2>3 DEF Browser!Armed, Browser!Watches, BrowserInv
  <2> QED BY <2>2, <2>3, <2>4, RacedSettles
<1> QED BY <1>1, <1>2, <1>3, BrowserStepCases, BrowserRest, BrowserTick, WaitStepKeeps,
           ActsKeeps, GiveUpKeeps, PageKeeps

LEMMA BrowserStarts == Browser!Init => BrowserInv
<1> SUFFICES ASSUME Browser!Init PROVE BrowserInv
  OBVIOUS
<1>1. aborted \in BOOLEAN /\ loop = IF aborted THEN Refused ELSE Started(TRUE)
  BY BrowserLoops DEF Browser!Init, Browser!AwaitInit
<1>2. /\ Well(loop) /\ (loop.stopped <=> aborted)
      /\ loop.outcome = IF aborted THEN "aborted" ELSE "pending"
  BY <1>1 DEF Refused, Started, Well, Loops, Outcomes
<1> DEFINE w == Browser!NewWatch(aborted)
<1>3. w \in Browser!Watches /\ w.result = "pending" /\ w.stall = "unset"
  BY <1>1 DEF Browser!NewWatch, Browser!Watches, Browser!Outcomes
<1>4. watch = Browser!Raced(w, loop.outcome)
  BY DEF Browser!Init
<1> HIDE DEF w
<1>5. /\ watch \in Browser!Watches /\ watch.result = loop.outcome
      /\ watch.stall # "armed"
  BY <1>2, <1>3, <1>4, RacedSettles DEF Outcomes
<1> QED BY <1>1, <1>2, <1>5
        DEF BrowserInv, SettledIsStopped, Browser!SettledIsStopped

LEMMA BrowserInvariance == Browser!Spec => []BrowserInv
<1>1. BrowserInv /\ [Browser!Next]_(Browser!vars) => BrowserInv'
  BY BrowserStepKeeps
<1> QED BY <1>1, BrowserStarts, PTL DEF Browser!Spec

(* payments.module.ts:249-255,314-316: the promise is settled exactly when  *)
(* the poll is stopped, and says "aborted" only if the caller aborted.      *)
THEOREM SettledTogether == Browser!Spec => []SettledIsStopped
<1>1. BrowserInv => SettledIsStopped
  BY DEF BrowserInv
<1> QED BY <1>1, BrowserInvariance, PTL

(* payments.module.ts:291-296: only a page the redirect has not left is     *)
(* told that it stalled.                                                    *)
THEOREM StalledStayed == Browser!Spec => StallMeansStayed
<1> DEFINE Told == watch'.result = "stalled" /\ watch.result = "pending" => navigating
<1>1. BrowserInv /\ [Browser!Next]_(Browser!vars) => [Told]_(Browser!vars)
  BY BrowserStepKeeps
<1> QED BY <1>1, BrowserInvariance, PTL
        DEF Browser!Spec, StallMeansStayed, Browser!StallMeansStayed

-----------------------------------------------------------------------------
(* The race implements ChargeOutcome, as the server's wait does.            *)

(* A terminal state once read stays the charge's; the limit timer does not  *)
(* outlive the first ACTION_REQUIRED.                                       *)
PromiseInv ==
    /\ reply.state \in Terminal => charge = reply
    /\ loop.limit => ~ActionSeen

(* What a step of the wait says of the charge when it settles the loop.     *)
PromiseGoesOn ==
    /\ charge' = charge
    /\ ActionSeen => ActionSeen'
    /\ ~loop.stopped /\ loop'.outcome = "resolved" =>
          charge.state = "SUCCEEDED" /\ (ActionSeen' => ActionSeen)
    /\ ~loop.stopped /\ loop'.outcome = "failed" =>
          charge.state = "FAILED" /\ (ActionSeen' => ActionSeen)
    /\ ~loop.stopped /\ loop'.outcome = "timeout" =>
          ~ActionSeen /\ ~ActionSeen'

(* A tick ends the wait as the charge ended, and never with a timeout.      *)
LEMMA PromiseTick ==
    ASSUME BrowserInv, PromiseInv, NEW does \in Calm, NEW hears \in BOOLEAN,
           \/ Browser!TickThrows \/ Browser!TickEnds(does, hears)
           \/ Browser!TickWaits(does, hears) \/ Browser!TickSameAction(does, hears)
    PROVE  PromiseGoesOn /\ PromiseInv'
<1> USE DEF BrowserInv, Calm
<1> DEFINE answered == Received(loop)
           heard == IF hears THEN Callback(answered, does) ELSE answered
<1>1. /\ ~loop.stopped /\ loop.outcome = "pending"
      /\ UNCHANGED <<reply, charge>> /\ seen' = seen \cup {reply.state}
  BY DEF Browser!TickThrows, Browser!TickEnds, Browser!TickWaits,
     Browser!TickSameAction, Browser!Tick, Browser!Running, Well
<1>2. /\ Well(answered) /\ answered.request = "none" /\ ~answered.stopped
      /\ answered.outcome = "pending" /\ answered.limit = loop.limit
  BY <1>1, ReceivedWell
<1>3. /\ Well(heard) /\ heard.request = "none"
      /\ heard.outcome \in {"pending", "aborted"}
      /\ heard.limit => loop.limit
  <2> HIDE DEF answered
  <2> QED BY <1>2, CallbackWell
<1>4. Browser!Reported(does, hears) = heard
  BY BrowserLoops DEF Browser!Reported
<1> HIDE DEF answered, heard
<1>5. ActionSeen' <=> ActionSeen \/ reply.state = "ACTION_REQUIRED"
  BY <1>1 DEF ActionSeen
<1>6. ASSUME loop'.outcome \notin {"resolved", "failed", "timeout"},
             loop'.limit => loop.limit /\ reply.state # "ACTION_REQUIRED"
      PROVE  PromiseGoesOn /\ PromiseInv'
  BY <1>1, <1>5, <1>6 DEF PromiseGoesOn, PromiseInv
<1>7. CASE Browser!TickThrows
  <2>1. loop' = Rejected(answered)
    BY <1>7, BrowserLoops DEF Browser!TickThrows, answered
  <2>2. ~loop'.limit /\ loop'.outcome = "error"
    BY <1>2, <2>1, StopWell DEF Rejected, Outcomes
  <2> QED BY <1>6, <2>2
<1>8. CASE Browser!TickEnds(does, hears)
  <2> DEFINE end == IF reply.state = "SUCCEEDED" THEN "resolved" ELSE "failed"
  <2>1. loop' = Stop(heard, end) /\ reply.state \in Terminal
    BY <1>4, <1>8, BrowserLoops DEF Browser!TickEnds, Browser!Terminal, Terminal
  <2>2. end \in Outcomes \ {"pending"}
    BY DEF Outcomes
  <2>3. /\ ~loop'.limit
        /\ loop'.outcome = (IF heard.stopped THEN heard.outcome ELSE end)
    <3> HIDE DEF end
    <3> QED BY <1>3, <2>1, <2>2, StopWell
  <2>4. charge.state = reply.state /\ reply.state \in {"SUCCEEDED", "FAILED"}
    BY <2>1 DEF PromiseInv, Terminal
  <2> QED BY <1>1, <1>3, <1>5, <2>3, <2>4 DEF PromiseGoesOn, PromiseInv
<1>9. CASE Browser!TickWaits(does, hears)
  <2>1. loop' = Schedule(heard) /\ reply.state # "ACTION_REQUIRED"
    BY <1>4, <1>9, BrowserLoops DEF Browser!TickWaits, Browser!Initial
  <2>2. loop'.outcome = heard.outcome /\ loop'.limit = heard.limit
    BY <1>3, <2>1, ScheduleWell
  <2> QED BY <1>3, <1>6, <2>1, <2>2
<1>10. CASE Browser!TickSameAction(does, hears)
  <2>1. loop' = Schedule(Disarmed(heard))
    BY <1>4, <1>10, BrowserLoops DEF Browser!TickSameAction
  <2>2. /\ Well(Disarmed(heard)) /\ Disarmed(heard).request = "none"
        /\ Disarmed(heard).outcome = heard.outcome /\ ~Disarmed(heard).limit
    BY <1>3, DisarmedWell
  <2>3. loop'.outcome = heard.outcome /\ ~loop'.limit
    BY <2>1, <2>2, ScheduleWell
  <2> QED BY <1>3, <1>6, <2>3
<1> QED BY <1>7, <1>8, <1>9, <1>10

(* Nor does a tick with a new redirect.                                     *)
LEMMA PromiseNewAction ==
    ASSUME BrowserInv, PromiseInv, NEW does \in Calm,
           NEW acts \in Browser!Behaviours, NEW hears \in BOOLEAN,
           Browser!TickNewAction(does, acts, hears)
    PROVE  PromiseGoesOn /\ PromiseInv'
<1> USE DEF BrowserInv, Calm
<1> DEFINE answered == Received(loop)
           heard == IF hears THEN Callback(answered, does) ELSE answered
           told1 == Disarmed(heard)
           told2 == IF hears THEN Callback(told1, acts) ELSE told1
<1>1. /\ ~loop.stopped /\ loop.outcome = "pending"
      /\ UNCHANGED <<reply, charge>> /\ ActionSeen'
  BY DEF Browser!TickNewAction, Browser!Running, Well, ActionSeen
<1>2. /\ Well(answered) /\ answered.request = "none"
      /\ answered.outcome = "pending" /\ ~answered.stopped
  BY <1>1, ReceivedWell
<1> HIDE DEF answered
<1>3. /\ Well(heard) /\ heard.request = "none"
      /\ heard.outcome \in {"pending", "aborted"}
  BY <1>2, CallbackWell
<1>4. Browser!Reported(does, hears) = heard
  BY BrowserLoops DEF Browser!Reported, answered
<1> HIDE DEF heard
<1>5. /\ Well(told1) /\ told1.request = "none" /\ ~told1.limit
      /\ told1.outcome \in {"pending", "aborted"}
  BY <1>3, DisarmedWell
<1> HIDE DEF told1
<1>6. /\ Well(told2) /\ told2.request = "none" /\ ~told2.limit
      /\ told2.outcome \in {"pending", "aborted"}
  BY <1>5, CallbackWell
<1>7. loop' = IF acts = "throws" THEN Rejected(told1) ELSE Schedule(told2)
  BY <1>4, BrowserLoops DEF Browser!TickNewAction, told1
<1> HIDE DEF told2
<1>8. ~loop'.limit /\ loop'.outcome \notin {"resolved", "failed", "timeout"}
  <2>1. CASE acts = "throws"
    <3>1. loop' = Stop(told1, "error")
      BY <1>7, <2>1 DEF Rejected
    <3>2. ~loop'.limit /\ loop'.outcome \in {told1.outcome, "error"}
      BY <1>5, <3>1, StopWell DEF Outcomes
    <3> QED BY <1>5, <3>2
  <2>2. CASE acts # "throws"
    BY <1>6, <1>7, <2>2, ScheduleWell
  <2> QED BY <2>1, <2>2
<1> QED BY <1>1, <1>8 DEF PromiseGoesOn, PromiseInv

(* Of the rest, only the limit timer can time the wait out.                 *)
LEMMA PromiseRest ==
    ASSUME BrowserInv, PromiseInv,
           \/ Browser!RequestAnswered \/ Browser!RequestFails \/ Browser!LateAnswer
           \/ Browser!PollTimer \/ Browser!LimitTimer
           \/ Browser!CallerAborts(Browser!Hears)
    PROVE  PromiseGoesOn /\ PromiseInv'
<1>0. /\ Well(loop) /\ loop \in Loops
      /\ ~loop.stopped => loop.outcome = "pending"
  BY DEF BrowserInv, Well
<1>1. UNCHANGED <<charge, seen>>
  BY DEF Browser!RequestAnswered, Browser!RequestFails, Browser!LateAnswer,
     Browser!PollTimer, Browser!LimitTimer, Browser!CallerAborts
<1>2. ActionSeen' <=> ActionSeen
  BY <1>1 DEF ActionSeen
<1>3. reply' = reply \/ reply' = charge
  BY DEF Browser!RequestAnswered, Browser!RequestFails, Browser!LateAnswer,
     Browser!PollTimer, Browser!LimitTimer, Browser!CallerAborts
<1>4. ASSUME loop'.limit => loop.limit,
             ~loop.stopped => loop'.outcome \notin {"resolved", "failed", "timeout"}
      PROVE  PromiseGoesOn /\ PromiseInv'
  BY <1>1, <1>2, <1>3, <1>4 DEF PromiseGoesOn, PromiseInv
<1>5. CASE Browser!RequestAnswered
  <2>1. loop'.limit = loop.limit /\ loop'.outcome = loop.outcome
    BY <1>0, <1>5 DEF Browser!RequestAnswered, Loops
  <2> QED BY <1>0, <1>4, <2>1
<1>6. CASE Browser!RequestFails
  <2>1. loop' = Rejected(Received(loop))
    BY <1>6, BrowserLoops DEF Browser!RequestFails
  <2>2. ~loop'.limit /\ (~loop.stopped => loop'.outcome = "error")
    BY <1>0, <2>1, ReceivedWell, StopWell DEF Rejected, Outcomes
  <2> QED BY <1>4, <2>2
<1>7. CASE Browser!LateAnswer
  <2>1. loop' = Received(loop)
    BY <1>7, BrowserLoops DEF Browser!LateAnswer
  <2> QED BY <1>0, <1>4, <2>1, ReceivedWell
<1>8. CASE Browser!PollTimer
  <2>1. loop' = NextPoll(loop)
    BY <1>8, BrowserLoops DEF Browser!PollTimer
  <2>2. loop'.limit = loop.limit /\ loop'.outcome = loop.outcome
    BY <1>0, <2>1 DEF NextPoll, Loops
  <2> QED BY <1>0, <1>4, <2>2
<1>9. CASE Browser!LimitTimer
  <2>1. loop' = LimitReached(loop) /\ loop.limit
    BY <1>9, BrowserLoops DEF Browser!LimitTimer
  <2> DEFINE l == [loop EXCEPT !.limit = FALSE]
  <2>2. Well(l) /\ ~l.stopped /\ loop' = Stop(l, "timeout")
    BY <1>0, <2>1 DEF Well, Loops, LimitReached
  <2> HIDE DEF l
  <2>3. ~loop'.limit /\ loop'.outcome = "timeout"
    BY <2>2, StopWell DEF Outcomes
  <2> QED BY <1>1, <1>2, <1>3, <2>1, <2>3 DEF PromiseGoesOn, PromiseInv
<1>10. CASE Browser!CallerAborts(Browser!Hears)
  <2>1. loop' \in {AbortFires(loop), loop}
    BY <1>10, BrowserLoops DEF Browser!CallerAborts
  <2> QED BY <1>0, <1>4, <2>1, AbortWell
<1> QED BY <1>5, <1>6, <1>7, <1>8, <1>9, <1>10

(* payments.module.ts:322: what the loop came to is what the race says of   *)
(* it, once.                                                                *)
LEMMA RaceFollows ==
    ASSUME BrowserInv, LoopGoesOn, PromiseGoesOn, NEW w \in Browser!Watches,
           w.result = watch.result, watch' = Browser!Raced(w, loop'.outcome)
    PROVE  [Race!Next]_(Race!vars)
<1> USE DEF Race!Next, Race!vars
<1> DEFINE o == loop'.outcome
<1>1. o \in Outcomes
  BY DEF LoopGoesOn, Well, Loops
<1>2. watch'.result = IF watch.result = "pending" THEN o ELSE watch.result
  BY <1>1, RacedSettles
<1>3. charge' = charge
  BY DEF PromiseGoesOn
<1>4. ActionSeen' \in {ActionSeen, TRUE}
  <2>1. CASE ActionSeen'
    <3>1. ActionSeen' = TRUE
      BY <2>1 DEF ActionSeen
    <3> QED BY <3>1, Zenon
  <2>2. CASE ~ActionSeen'
    <3>1. ActionSeen' = ActionSeen
      BY <2>2 DEF PromiseGoesOn, ActionSeen
    <3> QED BY <3>1, Zenon
  <2> QED BY <2>1, <2>2
<1>5. ASSUME watch'.result = watch.result PROVE [Race!Next]_(Race!vars)
  <2>1. UNCHANGED <<RaceOutcome, charge.state, watch.result = "aborted">>
    BY <1>3, <1>5 DEF RaceOutcome
  <2>2. CASE ActionSeen' = TRUE
    BY <2>1, <2>2 DEF Race!SeeAction
  <2>3. CASE ActionSeen' = ActionSeen
    BY <2>1, <2>3
  <2> QED BY <1>4, <2>2, <2>3, Zenon
<1>6. CASE watch.result = "pending" /\ o # "pending"
  <2>0. /\ ~loop.stopped /\ o # "stalled"
        /\ RaceOutcome = "pending" /\ RaceOutcome' = o
    BY <1>1, <1>2, <1>6
       DEF BrowserInv, SettledIsStopped, Browser!SettledIsStopped, RaceOutcome, Outcomes
  <2>1. UNCHANGED charge.state /\ (watch'.result = "aborted" <=> o = "aborted")
    BY <1>2, <1>3, <1>6
  <2>2. CASE o = "resolved"
    BY <1>4, <1>6, <2>0, <2>1, <2>2 DEF PromiseGoesOn, Race!Succeed, Race!Settle
  <2>3. CASE o = "failed"
    BY <1>4, <1>6, <2>0, <2>1, <2>3 DEF PromiseGoesOn, Race!Fail, Race!Settle
  <2>4. CASE o = "timeout"
    BY <1>4, <1>6, <2>0, <2>1, <2>4 DEF PromiseGoesOn, Race!TimeOut, Race!Settle
  <2>5. CASE o = "aborted"
    BY <1>4, <1>6, <2>0, <2>1, <2>5 DEF Race!Abort
  <2>6. CASE o = "error"
    BY <1>4, <1>6, <2>0, <2>1, <2>6 DEF Race!BreakOff, Race!Settle
  <2> QED BY <1>1, <1>6, <2>2, <2>3, <2>4, <2>5, <2>6 DEF Outcomes
<1> QED BY <1>2, <1>5, <1>6

(* The watchdog breaks the wait off, with the loop it aborts on its way.    *)
LEMMA StallImplements ==
    ASSUME BrowserInv, PromiseInv, Browser!StallTimer
    PROVE  [Race!Next]_(Race!vars) /\ PromiseInv'
<1> USE DEF Race!Next, Race!vars
<1> DEFINE fired == [watch EXCEPT !.stall = "fired"]
           lost == Browser!Raced(fired, "stalled")
<1>1. /\ watch.result = "pending" /\ UNCHANGED <<charge, reply, seen>>
      /\ loop' = AbortFires(loop) /\ watch' = Browser!Raced(lost, loop'.outcome)
  BY BrowserLoops DEF BrowserInv, Browser!StallTimer, Browser!GiveUp
<1>2. fired \in Browser!Watches /\ fired.result = "pending"
  BY <1>1 DEF BrowserInv, Browser!Watches
<1>3. loop'.outcome \in Outcomes /\ ~loop'.limit
  BY <1>1, AbortWell DEF BrowserInv, Well, Loops
<1> HIDE DEF fired
<1>4. lost \in Browser!Watches /\ lost.result = "stalled"
  BY <1>2, RacedSettles
<1> HIDE DEF lost
<1>5. watch'.result = "stalled"
  BY <1>1, <1>3, <1>4, RacedSettles
<1>6. RaceOutcome = "pending" /\ RaceOutcome' = "error"
  BY <1>1, <1>5 DEF RaceOutcome
<1>7. UNCHANGED <<charge.state, watch.result = "aborted", ActionSeen>>
  BY <1>1, <1>5 DEF ActionSeen
<1>8. Race!BreakOff
  BY <1>6, <1>7, Zenon DEF Race!BreakOff, Race!Settle
<1>9. PromiseInv'
  BY <1>1, <1>3 DEF PromiseInv
<1> QED BY <1>8, <1>9

(* The page's steps are not the promise's; the charge's are GoPay's.        *)
LEMMA PageImplements ==
    ASSUME BrowserInv, PromiseInv,
           \/ Browser!ChargeMovesOn \/ Browser!PageHides \/ Browser!PageShows
           \/ UNCHANGED Browser!vars
    PROVE  [Race!Next]_(Race!vars) /\ PromiseInv'
<1> USE DEF Race!Next, Race!vars
<1>1. watch'.result = watch.result
  BY PageKeeps
<1>2. UNCHANGED <<RaceOutcome, watch.result = "aborted">>
  BY <1>1 DEF RaceOutcome
<1>3. UNCHANGED <<loop, reply, seen>>
  BY DEF Browser!ChargeMovesOn, Browser!ChargeMoves, Browser!PageHides,
     Browser!PageShows, Browser!vars, Browser!waitVars
<1>4. UNCHANGED ActionSeen
  BY <1>3 DEF ActionSeen
<1>5. CASE Browser!ChargeMovesOn
  <2>1. charge.state \notin Terminal /\ charge' \in Charges
    BY <1>5 DEF Browser!ChargeMovesOn, Browser!ChargeMoves, Browser!Charges, Charges,
       Browser!Terminal, Terminal, Browser!Initial, Initial
  <2>2. charge'.state \in Initial \cup Terminal \cup {"ACTION_REQUIRED"}
    BY <2>1 DEF Charges
  <2>3. Race!GoPayMoves
    BY <1>2, <1>4, <2>1, <2>2 DEF Race!GoPayMoves, Initial, Terminal
  <2>4. PromiseInv'
    BY <1>3, <1>4, <2>1 DEF PromiseInv
  <2> QED BY <2>3, <2>4
<1>6. CASE Browser!PageHides \/ Browser!PageShows \/ UNCHANGED Browser!vars
  <2>1. UNCHANGED charge
    BY <1>6 DEF Browser!PageHides, Browser!PageShows, Browser!vars, Browser!waitVars
  <2> QED BY <1>2, <1>3, <1>4, <2>1 DEF PromiseInv
<1> QED BY <1>5, <1>6

LEMMA ActsImplements ==
    ASSUME BrowserInv, PromiseInv, NEW does \in Calm, NEW acts \in Browser!Behaviours,
           Browser!Acts(does, acts)
    PROVE  [Race!Next]_(Race!vars) /\ PromiseInv'
<1>1. LoopGoesOn /\ PromiseGoesOn /\ PromiseInv'
  BY BrowserNewAction, PromiseNewAction DEF Browser!Acts, BrowserInv, Browser!Watches
<1>2. PICK w \in {watch, Browser!Armed(watch)} : watch' = Browser!Raced(w, loop'.outcome)
  BY DEF Browser!Acts
<1>3. w \in Browser!Watches /\ w.result = watch.result
  BY <1>2 DEF Browser!Armed, Browser!Watches, BrowserInv
<1> QED BY <1>1, <1>2, <1>3, RaceFollows

LEMMA RaceSteps ==
    ASSUME BrowserInv, PromiseInv, [Browser!Next]_(Browser!vars)
    PROVE  [Race!Next]_(Race!vars) /\ PromiseInv'
<1>1. Browser!Hears \in BOOLEAN /\ watch \in Browser!Watches
  BY DEF Browser!Hears, BrowserInv, Browser!Watches
<1>2. ASSUME LoopGoesOn, PromiseGoesOn, watch' = Browser!Raced(watch, loop'.outcome)
      PROVE  [Race!Next]_(Race!vars)
  BY <1>1, <1>2, RaceFollows
<1> QED BY <1>1, <1>2, BrowserStepCases, BrowserRest, PromiseRest, BrowserTick,
           PromiseTick, ActsImplements, StallImplements, PageImplements

LEMMA RaceStarts == Browser!Init => Race!Init /\ PromiseInv
<1> SUFFICES ASSUME Browser!Init PROVE Race!Init /\ PromiseInv
  OBVIOUS
<1>1. /\ aborted \in BOOLEAN /\ loop = IF aborted THEN Refused ELSE Started(TRUE)
      /\ charge.state = "REQUESTED" /\ reply = charge /\ seen = {}
  BY BrowserLoops DEF Browser!Init, Browser!AwaitInit
<1>2. loop.outcome = IF aborted THEN "aborted" ELSE "pending"
  BY <1>1 DEF Refused, Started
<1> DEFINE w == Browser!NewWatch(aborted)
<1>3. w \in Browser!Watches /\ w.result = "pending"
  BY <1>1 DEF Browser!NewWatch, Browser!Watches, Browser!Outcomes
<1>4. watch = Browser!Raced(w, loop.outcome)
  BY DEF Browser!Init
<1> HIDE DEF w
<1>5. watch.result = loop.outcome
  BY <1>2, <1>3, <1>4, RacedSettles DEF Outcomes
<1>6. ActionSeen = FALSE
  BY <1>1 DEF ActionSeen
<1>7. RaceOutcome = IF aborted THEN "aborted" ELSE "pending"
  BY <1>2, <1>5 DEF RaceOutcome
<1>8. (watch.result = "aborted") = aborted
  BY <1>1, <1>2, <1>5
<1>9. Race!Init
  BY <1>1, <1>6, <1>7, <1>8, Zenon DEF Race!Init
<1> QED BY <1>1, <1>6, <1>9 DEF PromiseInv, Terminal

(* payments.module.ts:314-322: the race keeps the promise of the wait.      *)
THEOREM RaceImplementation == Browser!Spec => RaceKeepsPromise
<1>1. BrowserInv /\ PromiseInv /\ [Browser!Next]_(Browser!vars)
         => PromiseInv' /\ [Race!Next]_(Race!vars)
  BY RaceSteps
<1> QED BY <1>1, RaceStarts, BrowserInvariance, PTL
        DEF Browser!Spec, RaceKeepsPromise, Race!Spec

=============================================================================
