----------------------------- MODULE EventUpload -----------------------------
(***************************************************************************)
(* How the events of a page get to gw-logger (post() of gw-logger.ts,      *)
(* ids.ts).  Every SDK built on the page numbers its events with the       *)
(* page's numbers and tells with each how many the page knows it has       *)
(* failed to send.  Nobody waits for a request, and none is repeated.      *)
(*                                                                         *)
(* fetch() is the browser's, whose every failure is a promise rejected.  A *)
(* replacement that throws from the call (gw-logger.ts:817) leaves a gap   *)
(* which is not counted; it is left out.                                   *)
(***************************************************************************)
EXTENDS GwLogger, Sequences, FiniteSets

CONSTANTS
    MaxSDKs,   \* SDKs built on the page
    Traffic    \* the events they send

SDKs == 1 .. MaxSDKs

VARIABLES
    spent,     \* SDK -> kind -> events sent
    sequence,  \* the number the last event sent has
    unsent,    \* unsentCount
    wire       \* the requests handed to fetch(), in their order

vars == <<spent, sequence, unsent, wire>>

(* A request is under way, or has been taken by gw-logger on its way; it is *)
(* answered; it is lost, or answered badly; it is taken and never answered. *)
Fates == {"flying", "taken", "answered", "lost", "unanswered"}

Pending == {"flying", "taken"}
Arrived == {"taken", "answered", "unanswered"}

(* An event as gw-logger gets it, what became of it, and (history) whether  *)
(* the page knew the fate of all others when it was built.                  *)
Requests == [sdk : SDKs, seq : Nat, unsent : Nat, fate : Fates, calm : BOOLEAN]

TypeOK ==
    /\ spent \in [SDKs -> [Kinds -> Nat]]
    /\ sequence \in Nat /\ unsent \in Nat
    /\ wire \in Seq(Requests)

Init ==
    /\ spent = [i \in SDKs |-> Unspent]
    /\ sequence = 0
    /\ unsent = 0
    /\ wire = <<>>

-----------------------------------------------------------------------------

(* Mutants: a refused event takes a number; an SDK counts its own events;   *)
(* what was told is forgotten.                                              *)
RefusedWithNumber == sequence' = sequence + 1 /\ UNCHANGED <<spent, unsent, wire>>
OwnSequence(i) == Cardinality({n \in DOMAIN wire : wire[n].sdk = i}) + 1
ForgetTold(count) == 0

(* The budget is used up, or the event cannot be built.                     *)
Refused == UNCHANGED vars

NextSequence(i) == sequence + 1

(* The count goes on when it was told.                                      *)
CountFrom(count) == count

Handed(i) ==
    [sdk |-> i, seq |-> NextSequence(i), unsent |-> unsent, fate |-> "flying",
     calm |-> \A n \in DOMAIN wire : wire[n].fate \notin Pending]

Post(i, name) ==
    \/ Refused
    \/ /\ Within(spent[i], name)
       /\ wire' = Append(wire, Handed(i))
       /\ sequence' = NextSequence(i)
       /\ spent' = [spent EXCEPT ![i] = Spend(@, name)]
       /\ unsent' = CountFrom(unsent)

(* gw-logger has the event, whatever the page hears of it.                  *)
Take(n) ==
    /\ wire[n].fate = "flying"
    /\ wire' = [wire EXCEPT ![n].fate = "taken"]
    /\ UNCHANGED <<spent, sequence, unsent>>

Answered(n) ==
    /\ wire[n].fate = "taken"
    /\ wire' = [wire EXCEPT ![n].fate = "answered"]
    /\ UNCHANGED <<spent, sequence, unsent>>

(* Mutant: an answer that is no success does not count.                     *)
RejectionsOnly == \E rejected \in BOOLEAN : unsent' = unsent + (IF rejected THEN 1 ELSE 0)

CountUnsent == unsent' = unsent + 1

(* Offline, blocked, timed out, or answered other than 2xx.                 *)
Failed(n) ==
    /\ wire[n].fate \in Pending
    /\ wire' = [wire EXCEPT ![n].fate = IF @ = "flying" THEN "lost" ELSE "unanswered"]
    /\ CountUnsent
    /\ UNCHANGED <<spent, sequence>>

Next ==
    \/ \E i \in SDKs, name \in Traffic : Post(i, name)
    \/ \E n \in DOMAIN wire : Take(n) \/ Answered(n) \/ Failed(n)

Spec == Init /\ [][Next]_vars

-----------------------------------------------------------------------------
(* Properties.                                                              *)

(* gw-logger.ts:257-271, ids.ts:64-78: a gap in the numbers gw-logger has   *)
(* is an event lost on the way, and the next event sent once all fates were *)
(* known accounts for the whole of it, whichever SDK sent it and whatever   *)
(* was lost in between.                                                     *)
Missing(n) ==
    {s \in 1 .. wire[n].seq - 1 :
        \A m \in DOMAIN wire : wire[m].seq = s => wire[m].fate \notin Arrived}

GapsExplained ==
    \A n \in DOMAIN wire :
        /\ \A m \in DOMAIN wire : wire[m].seq = wire[n].seq => m = n
        /\ wire[n].calm => Cardinality(Missing(n)) <= wire[n].unsent

=============================================================================
