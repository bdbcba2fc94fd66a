---------------------------- MODULE HeightTracker ----------------------------
(***************************************************************************)
(* createHeightTracker() (browser-sdk/src/modules/cards/height-tracker.ts):*)
(* whether the heights the card form's frame reports go up and down faster *)
(* than a customer could make them.  The clock runs in parts of            *)
(* OSCILLATION_WINDOW_MS.                                                  *)
(***************************************************************************)
EXTENDS Integers, Sequences, FiniteSets

CONSTANTS
    Heights,      \* the heights the frame may report, none below zero
    Window,       \* OSCILLATION_WINDOW_MS
    MaxMessages,  \* messages of the frame
    MaxTime       \* the clock stops here

OscillationReversals == 3

NoHeight == -1

VARIABLES
    now,
    last,        \* the height reported last
    direction,   \* of the last change: 1, -1 or none
    times,       \* reversalTimes, each with the number of its message
    oscillated,
    told,        \* times record() has returned true
    path         \* history: the messages, with their times

vars == <<now, last, direction, times, oscillated, told, path>>

TypeOK ==
    /\ now \in 0 .. MaxTime
    /\ last \in Heights \cup {NoHeight}
    /\ direction \in {-1, 0, 1}
    /\ times \subseteq [message : Nat, at : 0 .. MaxTime]
    /\ oscillated \in BOOLEAN
    /\ told \in Nat
    /\ path \in Seq([height : Heights, at : 0 .. MaxTime])

Init ==
    /\ now = 0
    /\ last = NoHeight
    /\ direction = 0
    /\ times = {}
    /\ oscillated = FALSE
    /\ told = 0
    /\ path = <<>>

Towards(from, to) == IF to > from THEN 1 ELSE -1

(* Mutants: no reversal is ever too old; a repeated height ends a movement. *)
AllTimes(t) == TRUE
NoDirection == 0

Recent(t) == now - t < Window

Reverses(height) == direction # 0 /\ Towards(last, height) # direction

Reversal ==
    LET reversal == [message |-> Len(path) + 1, at |-> now]
        recent == {r \in times : Recent(r.at)} \cup {reversal}
        crosses == ~oscillated /\ Cardinality(recent) >= OscillationReversals IN
    /\ times' = recent
    /\ oscillated' = (oscillated \/ crosses)
    /\ told' = IF crosses THEN told + 1 ELSE told

(* A height that is repeated changes nothing.                               *)
DirectionKept == direction

Record(height) ==
    /\ Len(path) < MaxMessages
    /\ path' = Append(path, [height |-> height, at |-> now])
    /\ last' = height
    /\ direction' = IF last = NoHeight THEN 0
                    ELSE IF last = height THEN DirectionKept
                    ELSE Towards(last, height)
    /\ IF last \notin {NoHeight, height} /\ Reverses(height)
       THEN Reversal
       ELSE UNCHANGED <<times, oscillated, told>>
    /\ UNCHANGED now

Tick ==
    /\ now < MaxTime
    /\ now' = now + 1
    /\ UNCHANGED <<last, direction, times, oscillated, told, path>>

Next == Tick \/ \E height \in Heights : Record(height)

Spec == Init /\ [][Next]_vars

-----------------------------------------------------------------------------
(* Properties.                                                              *)

(* The messages that changed the height, and of them those that turned.     *)
Changes == {k \in 2 .. Len(path) : path[k].height # path[k - 1].height}

Turns ==
    {k \in Changes : \E j \in Changes :
        /\ j < k
        /\ \A i \in Changes : i <= j \/ k <= i
        /\ Towards(path[j - 1].height, path[j].height)
              # Towards(path[k - 1].height, path[k].height)}

(* height-tracker.ts:16-21, 55-58: an oscillation is three turns within the *)
(* window, whatever was repeated or turned long before, and is told once.   *)
OscillationTold ==
    /\ told <= 1
    /\ told = 1 <=> \E i, j, k \in Turns :
          i < j /\ j < k /\ path[k].at - path[i].at < Window

=============================================================================
