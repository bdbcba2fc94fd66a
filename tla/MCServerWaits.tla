---------------------------- MODULE MCServerWaits ----------------------------
(***************************************************************************)
(* Model checking of what a server waits for: ServerCharge, or EventPaging *)
(* and PaymentStatus side by side, a server that iterates over the events  *)
(* while it waits for a payment, a refund or a recurrence.  They share no  *)
(* state of the SDK, so the steps of one leave the others alone.           *)
(***************************************************************************)
EXTENDS ServerCharge

CONSTANTS Pages, NoPage, MaxItems    \* of EventPaging

VARIABLES
    part,                                                        \* "charge" or "reads"
    phase, nextPage, more, stuck, fetched, buffer, owed,         \* of EventPaging
    statusLoop, thing, statusReply, limited, watchful            \* of PaymentStatus

Events == INSTANCE EventPaging
Status == INSTANCE PaymentStatus WITH loop <- statusLoop, reply <- statusReply

eventVars == <<phase, nextPage, more, stuck, fetched, buffer, owed>>
statusVars == <<statusLoop, thing, statusReply, limited, watchful>>

WaitsInit ==
    /\ part \in {"charge", "reads"}
    /\ Init /\ Events!Init /\ Status!Init
    \* One beginning is enough of what stands still.
    /\ part = "reads" => loop.stopped
    /\ part = "charge" =>
          /\ nextPage = CHOOSE p \in Pages : TRUE
          /\ ~limited /\ ~watchful /\ statusLoop.stopped

WaitsNext ==
    /\ UNCHANGED part
    /\ \/ part = "charge" /\ Next /\ UNCHANGED <<eventVars, statusVars>>
       \/ part = "reads" /\ Events!Next /\ UNCHANGED <<vars, statusVars>>
       \/ part = "reads" /\ Status!Next /\ UNCHANGED <<vars, eventVars>>

WaitsFairness ==
    /\ WF_vars(part = "charge" /\ (RequestAnswered \/ RequestFails))
    /\ WF_vars(part = "charge" /\ TickTaken)
    /\ WF_vars(part = "charge" /\ PollTimer)
    /\ WF_vars(part = "charge" /\ LimitTimer)
    /\ WF_eventVars(part = "reads" /\ Events!Next)
    /\ WF_statusVars(part = "reads" /\ (Status!RequestAnswered \/ Status!RequestFails))
    /\ WF_statusVars(part = "reads" /\ \E does \in Behaviours : Status!Tick(does))
    /\ WF_statusVars(part = "reads" /\ Status!PollTimer)
    /\ WF_statusVars(part = "reads" /\ Status!LimitTimer)

WaitsSpec == WaitsInit /\ [][WaitsNext]_<<part, vars, eventVars, statusVars>> /\ WaitsFairness

-----------------------------------------------------------------------------

(* events.module.ts:182-183: EventPaging!EventsReachCaller: the caller gets *)
(* every event received, but those of a page whose cursor is no URL.        *)
EventsReachCaller == Events!EventsReachCaller

(* charge-polling.ts:13-26, polling.ts:43-63, events.module.ts:179-181,     *)
(* recurrences.module.ts:236-272: whatever GoPay answers, every wait and    *)
(* every iteration over the events ends.                                    *)
EverythingEnds ==
    /\ part = "charge" => WaitEnds
    /\ part = "reads" => Events!PagingEnds /\ Status!WaitEnds

=============================================================================
