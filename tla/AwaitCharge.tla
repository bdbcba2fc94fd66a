---------------------------- MODULE AwaitCharge ----------------------------
(***************************************************************************)
(* Waiting for a charge (internal/core/src/charge-polling.ts): the state   *)
(* and the steps shared by the server SDK's awaitChargeState               *)
(* (ServerCharge) and the browser SDK's (BrowserCharge), over a gateway    *)
(* whose charge moves on by itself.                                        *)
(***************************************************************************)
EXTENDS PollLoop, Sequences

CONSTANTS
    Urls,      \* redirect URLs a charge may ask for
    NoUrl,     \* none
    MaxMoves   \* how often the charge moves on at GoPay

ASSUME UrlsAssumption == NoUrl \notin Urls
ASSUME MovesAssumption == MaxMoves \in Nat

VARIABLES
    loop,      \* the polling loop
    lastUrl,   \* lastActionRequiredUrl
    reply,     \* the charge as the request in flight has read it
    charge,    \* the charge at GoPay
    moves,     \* how often it has moved
    aborted,   \* the caller has aborted its signal
    seen,      \* history: charge states handed to onTick
    told       \* history: calls of onActionRequired

waitVars == <<loop, lastUrl, reply, charge, moves, aborted, seen, told>>

Initial == {"REQUESTED", "PROCESSING"}
Terminal == {"SUCCEEDED", "FAILED"}

Charges ==
    [state : Initial \cup Terminal, url : {NoUrl}]
        \cup [state : {"ACTION_REQUIRED"}, url : Urls \cup {NoUrl}]

AwaitTypeOK ==
    /\ loop \in Loops
    /\ lastUrl \in Urls \cup {NoUrl}
    /\ reply \in Charges
    /\ charge \in Charges
    /\ moves \in 0 .. MaxMoves
    /\ aborted \in BOOLEAN
    /\ seen \subseteq Initial \cup Terminal \cup {"ACTION_REQUIRED"}
    /\ told \in Seq([url : Urls, ended : BOOLEAN])

AwaitInit ==
    /\ aborted \in BOOLEAN
    /\ loop = IF aborted THEN Refused ELSE Started(TRUE)
    /\ charge = [state |-> "REQUESTED", url |-> NoUrl]
    /\ reply = charge
    /\ lastUrl = NoUrl
    /\ moves = 0
    /\ seen = {}
    /\ told = <<>>

-----------------------------------------------------------------------------
(* GoPay.                                                                   *)

ChargeMoves ==
    /\ moves < MaxMoves
    /\ charge.state \notin Terminal
    /\ charge' \in Charges \ {charge}
    /\ moves' = moves + 1
    /\ UNCHANGED <<loop, lastUrl, reply, aborted, seen, told>>

(* The request reads the charge; what it read reaches the SDK later.        *)
RequestAnswered ==
    /\ loop.request = "out"
    /\ loop' = [loop EXCEPT !.request = "answered"]
    /\ reply' = charge
    /\ UNCHANGED <<lastUrl, charge, moves, aborted, seen, told>>

-----------------------------------------------------------------------------
(* Steps of the wait.  In each, `hears' says whether an abort by the        *)
(* integrator's callback reaches the loop.                                  *)

Running == ~loop.stopped

Reported(does, hears) ==
    IF hears THEN Callback(Received(loop), does) ELSE Received(loop)

NoteAbort(does) == aborted' = (aborted \/ does = "aborts")

(* The answer of a request that outlived the loop.                          *)
LateAnswer ==
    /\ loop.request = "answered"
    /\ ~Running
    /\ loop' = Received(loop)
    /\ UNCHANGED <<lastUrl, reply, charge, moves, aborted, seen, told>>

(* No answer, or one the client throws for.                                 *)
RequestFails ==
    /\ loop.request = "out"
    /\ loop' = Rejected(Received(loop))
    /\ UNCHANGED <<lastUrl, reply, charge, moves, aborted, seen, told>>

Tick(does) ==
    /\ loop.request = "answered"
    /\ Running
    /\ seen' = seen \cup {reply.state}
    /\ NoteAbort(does)
    /\ UNCHANGED <<reply, charge, moves>>

(* onStateChange threw.                                                     *)
TickThrows ==
    /\ Tick("throws")
    /\ loop' = Rejected(Received(loop))
    /\ UNCHANGED <<lastUrl, told>>

TickEnds(does, hears) ==
    /\ Tick(does)
    /\ reply.state \in Terminal
    /\ loop' = Stop(Reported(does, hears),
                    IF reply.state = "SUCCEEDED" THEN "resolved" ELSE "failed")
    /\ UNCHANGED <<lastUrl, told>>

TickWaits(does, hears) ==
    /\ Tick(does)
    /\ reply.state \in Initial
    /\ loop' = Schedule(Reported(does, hears))
    /\ UNCHANGED <<lastUrl, told>>

(* Mutant: the initial timer keeps running.                                 *)
LimitStays(l) == l

Disarmed(l) == [l EXCEPT !.limit = FALSE]

FreshUrl(url) == url # NoUrl /\ url # lastUrl

TickSameAction(does, hears) ==
    /\ Tick(does)
    /\ reply.state = "ACTION_REQUIRED"
    /\ ~FreshUrl(reply.url)
    /\ loop' = Schedule(Disarmed(Reported(does, hears)))
    /\ UNCHANGED <<lastUrl, told>>

(* A URL not seen in the tick before: onActionRequired is called, and may   *)
(* throw or abort in turn.                                                  *)
TickNewAction(does, acts, hears) ==
    LET told1 == Disarmed(Reported(does, hears))
        told2 == IF hears THEN Callback(told1, acts) ELSE told1
    IN /\ loop.request = "answered"
       /\ Running
       /\ reply.state = "ACTION_REQUIRED"
       /\ FreshUrl(reply.url)
       /\ lastUrl' = reply.url
       /\ told' = Append(told, [url |-> reply.url, ended |-> told1.stopped])
       /\ loop' = IF acts = "throws" THEN Rejected(told1) ELSE Schedule(told2)
       /\ seen' = seen \cup {reply.state}
       /\ aborted' = (aborted \/ "aborts" \in {does, acts})
       /\ UNCHANGED <<reply, charge, moves>>

PollTimer ==
    /\ loop.timer
    /\ loop' = NextPoll(loop)
    /\ UNCHANGED <<lastUrl, reply, charge, moves, aborted, seen, told>>

LimitTimer ==
    /\ loop.limit
    /\ loop' = LimitReached(loop)
    /\ UNCHANGED <<lastUrl, reply, charge, moves, aborted, seen, told>>

CallerAborts(hears) ==
    /\ ~aborted
    /\ aborted' = TRUE
    /\ loop' = IF hears THEN AbortFires(loop) ELSE loop
    /\ UNCHANGED <<lastUrl, reply, charge, moves, seen, told>>

=============================================================================
