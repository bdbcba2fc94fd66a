---------------------------- MODULE MCTelemetry ----------------------------
(***************************************************************************)
(* Model checking of what the browser SDK tells of itself: PageVisit,      *)
(* EventUpload, CardFormReports, HeightTracker and Sanitize.  No step of   *)
(* one reads the state of another, so each is run with the others at rest. *)
(***************************************************************************)
EXTENDS PageVisit, Sequences

CONSTANTS
    Fields, Errors, Junk, MaxVisits,              \* of CardFormReports
    Heights, Window, MaxMessages, MaxTime,        \* of HeightTracker
    Chunks, MaxChunks, MaxPath, MinSegment, MaxDepth   \* of Sanitize

ASSUME HeightsAssumption == Heights \subseteq Nat /\ Window \in Nat \ {0}

Characters == {"x", ".", "@", "?", "blank"}
ASSUME ChunksAssumption == Chunks \subseteq Seq(Characters)
ASSUME LimitsAssumption ==
    /\ {MaxChunks, MaxPath, MaxDepth} \subseteq Nat
    /\ MinSegment \in Nat \ {0}

VARIABLES
    part,                                                    \* the module that runs
    uploaded, sequence, unsent, wire,                        \* of EventUpload
    formPage, frame, loaded, hide, restore, summed,          \* of CardFormReports
    valid, form, integrator, history,
    now, last, direction, times, oscillated, heightTold, path, \* of HeightTracker
    call, given, printed                                     \* of Sanitize

MCBudget == [k \in Kinds |-> IF k = "lifecycle" THEN 3 ELSE 1]
UploadBudget == [k \in Kinds |-> 2]

MCChunks ==
    {<<"x">>, <<".">>, <<"blank">>, <<"?">>, <<"x", ".", "x", ".", "x">>,
     <<"x", "@", "x", ".", "x">>, <<"@", "x", ".", "x">>}

Upload == INSTANCE EventUpload
              WITH spent <- uploaded, Budget <- UploadBudget, Traffic <- {"apiCall"}
Form == INSTANCE CardFormReports WITH page <- formPage
Height == INSTANCE HeightTracker WITH told <- heightTold
Text == INSTANCE Sanitize

uploadVars == <<uploaded, sequence, unsent, wire>>
formVars == <<formPage, frame, loaded, hide, restore, summed, valid, form, integrator, history>>
heightVars == <<now, last, direction, times, oscillated, heightTold, path>>
textVars == <<call, given, printed>>

TelemetryInit ==
    /\ part \in {"page", "upload", "form", "height", "text"}
    /\ Init /\ Upload!Init /\ Form!Init /\ Height!Init /\ Text!Init
    /\ part # "page" => page.shown = "visible"

TelemetryNext ==
    /\ UNCHANGED part
    /\ \/ /\ part = "page" /\ Next
          /\ UNCHANGED <<uploadVars, formVars, heightVars, textVars>>
       \/ /\ part = "upload" /\ Upload!Next
          /\ UNCHANGED <<vars, formVars, heightVars, textVars>>
       \/ /\ part = "form" /\ Form!Next
          /\ UNCHANGED <<vars, uploadVars, heightVars, textVars>>
       \/ /\ part = "height" /\ Height!Next
          /\ UNCHANGED <<vars, uploadVars, formVars, textVars>>
       \/ /\ part = "text" /\ Text!Next
          /\ UNCHANGED <<vars, uploadVars, formVars, heightVars>>

TelemetrySpec ==
    TelemetryInit
        /\ [][TelemetryNext]_<<part, vars, uploadVars, formVars, heightVars, textVars>>

-----------------------------------------------------------------------------

(* ids.ts:64-78, gw-logger.ts:257-271: EventUpload!GapsExplained.           *)
GapsExplained == Upload!GapsExplained

(* form-progress.ts:158-224, cards.module.ts:478-537: of a card form the    *)
(* progress is told, and a summary of every visit, once each.               *)
FormReported == Form!FormTold /\ Form!OneSummaryPerVisit

(* height-tracker.ts:16-21: HeightTracker!OscillationTold.                  *)
OscillationTold == Height!OscillationTold

(* sanitize.ts:41-189, 318-407: of what may be read by others, Sanitize     *)
(* lets through all there is no harm in and nothing else.                   *)
TextScrubbed == Text!MessageScrubbed /\ Text!BodyScrubbed

=============================================================================
