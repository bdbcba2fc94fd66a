------------------------------ MODULE PollLoop ------------------------------
(***************************************************************************)
(* The polling loop every wait of the SDKs is made of                      *)
(* (internal/core/src/polling.ts), as operators on a loop: one request at  *)
(* a time, a timer between two of them, a limit timer the caller of the    *)
(* loop may arm, and the listener on the caller's abort signal.  Stopping  *)
(* settles the caller's promise.                                           *)
(***************************************************************************)
EXTENDS Naturals

(* failed    the polled thing failed       timeout  the limit ran out       *)
(* aborted   by the signal                 error    a request or a callback *)
Outcomes == {"pending", "resolved", "failed", "timeout", "aborted", "error"}

Loops ==
    [stopped   : BOOLEAN,
     request   : {"none", "out", "answered"},
     timer     : BOOLEAN,       \* pollHandle is armed
     limit     : BOOLEAN,       \* initialTimer or timeoutHandle is armed
     listening : BOOLEAN,       \* the abort listener is attached
     outcome   : Outcomes]      \* of the promise

(* The first poll goes out at once.                                         *)
Started(limited) ==
    [stopped |-> FALSE, request |-> "out", timer |-> FALSE,
     limit |-> limited, listening |-> TRUE, outcome |-> "pending"]

(* The signal had fired before the wait began: there is no loop.            *)
Refused ==
    [stopped |-> TRUE, request |-> "none", timer |-> FALSE,
     limit |-> FALSE, listening |-> FALSE, outcome |-> "aborted"]

(* stop(fn): the first one wins.                                            *)
Stop(l, outcome) ==
    IF l.stopped THEN l
    ELSE [l EXCEPT !.stopped = TRUE, !.timer = FALSE, !.limit = FALSE,
                   !.listening = FALSE, !.outcome = outcome]

AbortFires(l) == IF l.listening THEN Stop(l, "aborted") ELSE l

(* What a callback of the integrator does before it returns.                *)
Behaviours == {"returns", "aborts", "throws"}

(* A throw is for whoever invoked the callback to deal with.                *)
Callback(l, does) == IF does = "aborts" THEN AbortFires(l) ELSE l

Received(l) == [l EXCEPT !.request = "none"]

Rejected(l) == Stop(l, "error")

(* Mutant: the timer is armed whatever onTick did.                          *)
ScheduleAnyway(l) == [l EXCEPT !.timer = TRUE]

(* Mutant: an unfinished poll is the last one.                              *)
ScheduleNever(l) == l

Schedule(l) == IF l.stopped THEN l ELSE [l EXCEPT !.timer = TRUE]

(* The poll timer: doPoll().                                                *)
NextPoll(l) ==
    IF l.stopped THEN [l EXCEPT !.timer = FALSE]
    ELSE [l EXCEPT !.timer = FALSE, !.request = "out"]

LimitReached(l) == Stop([l EXCEPT !.limit = FALSE], "timeout")

=============================================================================
