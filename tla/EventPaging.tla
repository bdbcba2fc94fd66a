----------------------------- MODULE EventPaging -----------------------------
(***************************************************************************)
(* iterateEvents() (sdk/src/modules/events/events.module.ts): an async     *)
(* generator over pages, each fetched when the events of the one before    *)
(* are used up, by the cursor that one carries.  The gateway may answer    *)
(* anything: the paging has to end all the same.                           *)
(***************************************************************************)
EXTENDS Naturals

CONSTANTS
    Pages,      \* the queries a page can be fetched with, as pageKey() has them
    NoPage,     \* no cursor, and none of Pages
    MaxItems    \* most events on a page

VARIABLES
    phase,      \* where the generator is
    nextPage,   \* nextParams
    more,       \* more
    stuck,      \* stuck is set
    fetched,    \* every query fetched so far
    buffer,     \* events of the page not yet yielded
    owed        \* history: events received that the caller has not got

vars == <<phase, nextPage, more, stuck, fetched, buffer, owed>>

(* ready     the caller may ask for an event     turning   the page is used *)
(* fetching  a page is awaited                   up: pages.next() is next   *)
(* ended     done                                broken    a page failed,   *)
(* refused   stopped for paging in circles       or was none                *)
(* thrown    a cursor was no URL, and its page is never returned            *)
Phases == {"ready", "turning", "fetching", "ended", "broken", "refused", "thrown"}

TypeOK ==
    /\ phase \in Phases
    /\ nextPage \in Pages
    /\ more \in BOOLEAN /\ stuck \in BOOLEAN
    /\ fetched \subseteq Pages
    /\ buffer \in 0 .. MaxItems
    /\ owed \in 0 .. MaxItems

Init ==
    /\ phase = "turning"
    /\ nextPage \in Pages
    /\ fetched = {nextPage}
    /\ more = TRUE
    /\ stuck = FALSE
    /\ buffer = 0
    /\ owed = 0

-----------------------------------------------------------------------------

Yield ==
    /\ phase = "ready"
    /\ buffer > 0
    /\ buffer' = buffer - 1
    /\ owed' = owed - 1
    /\ UNCHANGED <<phase, nextPage, more, stuck, fetched>>

UseUp ==
    /\ phase = "ready"
    /\ buffer = 0
    /\ phase' = "turning"
    /\ UNCHANGED <<nextPage, more, stuck, fetched, buffer, owed>>

FetchPage ==
    /\ phase = "turning"
    /\ ~stuck /\ more
    /\ phase' = "fetching"
    /\ UNCHANGED <<nextPage, more, stuck, fetched, buffer, owed>>

NoMorePages ==
    /\ phase = "turning"
    /\ stuck \/ ~more
    /\ phase' = IF stuck THEN "refused" ELSE "ended"
    /\ UNCHANGED <<nextPage, more, stuck, fetched, buffer, owed>>

(* Mutants: a cursor is followed wherever it points; the events of the page *)
(* that shows the circle are dropped.                                       *)
NeverCircular(cursor) == FALSE
NothingKept(items, circular) == IF circular THEN 0 ELSE items

Circular(cursor) == cursor \in fetched

Kept(items, circular) == items

(* An empty page is refused for any cursor: it is not parsed.               *)
PageArrives(items, cursor) ==
    LET circular == cursor # NoPage /\ (items = 0 \/ Circular(cursor))
    IN /\ phase = "fetching"
       /\ phase' = "ready"
       /\ more' = (cursor # NoPage)
       /\ stuck' = circular
       /\ IF cursor # NoPage /\ items > 0
          THEN nextPage' = cursor /\ fetched' = fetched \cup {cursor}
          ELSE UNCHANGED <<nextPage, fetched>>
       /\ buffer' = Kept(items, circular)
       /\ owed' = items

(* new URL() throws on the cursor of a page with events, before next() has  *)
(* returned the page or noted anything; nothing reports the error.          *)
CursorThrows(items) ==
    /\ phase = "fetching"
    /\ items > 0
    /\ phase' = "thrown"
    /\ owed' = items
    /\ UNCHANGED <<nextPage, more, stuck, fetched, buffer>>

(* The request fails, or the answer has no item list.                       *)
PageBroken ==
    /\ phase = "fetching"
    /\ phase' = "broken"
    /\ UNCHANGED <<nextPage, more, stuck, fetched, buffer, owed>>

Answer ==
    \/ \E items \in 0 .. MaxItems, cursor \in Pages \cup {NoPage} :
          PageArrives(items, cursor)
    \/ \E items \in 0 .. MaxItems : CursorThrows(items)
    \/ PageBroken

Next == Yield \/ UseUp \/ FetchPage \/ NoMorePages \/ Answer

Spec == Init /\ [][Next]_vars

(* The caller keeps asking, the gateway answers or the request times out.   *)
FairSpec == Spec /\ WF_vars(Next)

-----------------------------------------------------------------------------
(* Properties.                                                              *)

(* events.module.ts:182-183: however the paging goes on or ends, the caller *)
(* gets every event received, also those of the page that shows the paging  *)
(* goes in circles.  The one exception is a page whose cursor is no URL.    *)
EventsReachCaller == phase \notin {"ready", "thrown"} => owed = 0

(* ... which does not hold without the exception.                           *)
EveryEventReachesCaller == phase # "ready" => owed = 0

(* events.module.ts:179-181: whatever the gateway answers, the paging ends. *)
PagingEnds == <>(phase \in {"ended", "broken", "refused", "thrown"})

=============================================================================
