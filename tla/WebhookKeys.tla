----------------------------- MODULE WebhookKeys -----------------------------
(***************************************************************************)
(* How a server finds the key a webhook is signed with                     *)
(* (sdk/src/modules/webhooks/webhooks.module.ts): a set of keys, loaded    *)
(* when it is old or lacks the key named, never more often than the        *)
(* interval allows, and shared by the webhooks that arrive at once.        *)
(* Webhooks are cut where they await; GoPay adds and withdraws keys.       *)
(***************************************************************************)
EXTENDS Integers

CONSTANTS
    Webhooks,         \* slots for webhooks being verified
    Kids,             \* key ids a webhook may name, forged ones included
    Signing,          \* those GoPay publishes at one time or another
    RefetchInterval,  \* REFETCH_INTERVAL_MS
    MaxAge,           \* KEYS_MAX_AGE_MS
    MaxTime,          \* the clock stops here
    MaxRotations      \* how often GoPay changes what it publishes

ASSUME SigningAssumption == Signing \subseteq Kids
ASSUME TimesAssumption ==
    /\ RefetchInterval \in Nat \ {0} /\ MaxAge \in Nat /\ MaxTime \in Nat
    /\ RefetchInterval < MaxAge
ASSUME RotationsAssumption == MaxRotations \in Nat

VARIABLES
    now,          \* Date.now()
    published,    \* at GoPay
    rotations,    \* how often that has changed
    keys,         \* the key set held
    fetchedAt,    \* last success
    attemptedAt,  \* last attempt
    failing,      \* lastFailure is set
    load,         \* the load running, if one is
    webhook,      \* slot -> the webhook in it
    loads         \* history: how many loads were started

vars == <<now, published, rotations, keys, fetchedAt, attemptedAt, failing,
          load, webhook, loads>>

(* Number.NEGATIVE_INFINITY: longer ago than any interval.                  *)
Never == -MaxAge - 1

Loads == [phase : {"none", "out", "answered"},
          set   : SUBSET Signing]      \* the keys the answer carries

(* waiting for a load    ready to go on    accepted    unknown: a 4xx,      *)
(* GoPay does not send it again    unavailable: a 5xx, it does              *)
Phases == {"idle", "waiting", "ready", "accepted", "unknown", "unavailable"}

WebhookRecords ==
    [phase   : Phases,
     kid     : Kids,
     checked : BOOLEAN,    \* it started or joined a load
     arrived : 0 .. MaxTime,
     lacking : BOOLEAN,    \* history: its key was seen not to be published
     answer  : BOOLEAN]    \* history: a load succeeded while it waited

TypeOK ==
    /\ now \in 0 .. MaxTime
    /\ published \in SUBSET Signing
    /\ rotations \in 0 .. MaxRotations
    /\ keys \in SUBSET Signing
    /\ {fetchedAt, attemptedAt} \subseteq {Never} \cup (0 .. MaxTime)
    /\ failing \in BOOLEAN
    /\ load \in Loads
    /\ webhook \in [Webhooks -> WebhookRecords]
    /\ loads \in Nat

Idle(k) == [phase |-> "idle", kid |-> k, checked |-> FALSE, arrived |-> 0,
            lacking |-> FALSE, answer |-> FALSE]

Init ==
    /\ now = 0
    /\ published \in SUBSET Signing
    /\ rotations = 0
    /\ keys = {}
    /\ fetchedAt = Never
    /\ attemptedAt = Never
    /\ failing = FALSE
    /\ load = [phase |-> "none", set |-> {}]
    /\ \E k \in Kids : webhook = [w \in Webhooks |-> Idle(k)]
    /\ loads = 0

(* Continuations run before the event loop takes another task.              *)
Drained == \A w \in Webhooks : webhook[w].phase # "ready"

-----------------------------------------------------------------------------
(* GoPay and the clock.                                                     *)

Tick ==
    /\ Drained
    /\ now < MaxTime
    /\ now' = now + 1
    /\ UNCHANGED <<published, rotations, keys, fetchedAt, attemptedAt, failing,
                   load, webhook, loads>>

Rotate ==
    /\ rotations < MaxRotations
    /\ rotations' = rotations + 1
    /\ published' \in SUBSET Signing \ {published}
    /\ webhook' = [w \in Webhooks |->
          [webhook[w] EXCEPT !.lacking = @ \/ webhook[w].kid \notin published']]
    /\ UNCHANGED <<now, keys, fetchedAt, attemptedAt, failing, load, loads>>

(* What GoPay answers is what it publishes when it reads the request.       *)
LoadRead ==
    /\ load.phase = "out"
    /\ load' = [phase |-> "answered", set |-> published]
    /\ UNCHANGED <<now, published, rotations, keys, fetchedAt, attemptedAt,
                   failing, webhook, loads>>

-----------------------------------------------------------------------------
(* keyFor().                                                                *)

(* Mutant: keys do not age.                                                 *)
DueIfUnknown(kid) == kid \notin keys

Due(kid) == now - fetchedAt >= MaxAge \/ kid \notin keys

MayLoad == load.phase = "none" /\ now - attemptedAt >= RefetchInterval

Arrive(w, kid) ==
    LET starts == MayLoad /\ Due(kid)
        joins == starts \/ load.phase # "none"
    IN /\ Drained
       /\ webhook[w].phase = "idle"
       /\ load' = IF starts THEN [phase |-> "out", set |-> {}] ELSE load
       /\ loads' = IF starts THEN loads + 1 ELSE loads
       /\ webhook' = [webhook EXCEPT ![w] =
             [phase |-> IF joins THEN "waiting" ELSE "ready", kid |-> kid,
              checked |-> joins, arrived |-> now,
              lacking |-> kid \notin published, answer |-> FALSE]]
       /\ UNCHANGED <<now, published, rotations, keys, fetchedAt, attemptedAt,
                      failing>>

(* Mutant: whatever was not found is a forgery.                             *)
UncheckedIsUnknown(w) ==
    IF webhook[w].kid \in keys THEN "accepted"
    ELSE IF failing THEN "unavailable" ELSE "unknown"

Verdict(w) ==
    IF webhook[w].kid \in keys THEN "accepted"
    ELSE IF ~webhook[w].checked \/ failing THEN "unavailable" ELSE "unknown"

(* keyFor() after its await, and what verifyWebhook() makes of it.          *)
GoOn(w) ==
    /\ webhook[w].phase = "ready"
    /\ webhook' = [webhook EXCEPT ![w].phase = Verdict(w)]
    /\ UNCHANGED <<now, published, rotations, keys, fetchedAt, attemptedAt,
                   failing, load, loads>>

(* The response is out and the slot free again.                             *)
Forget(w) ==
    /\ webhook[w].phase \in {"accepted", "unknown", "unavailable"}
    /\ webhook' = [webhook EXCEPT ![w] = Idle(webhook[w].kid)]
    /\ UNCHANGED <<now, published, rotations, keys, fetchedAt, attemptedAt,
                   failing, load, loads>>

-----------------------------------------------------------------------------
(* load().                                                                  *)

(* Mutant: a load that fails leaves its webhooks waiting.                   *)
WakesOnSuccess(succeeded) ==
    /\ load' = [phase |-> "none", set |-> {}]
    /\ webhook' = [w \in Webhooks |->
          IF webhook[w].phase = "waiting" /\ succeeded
          THEN [webhook[w] EXCEPT !.phase = "ready", !.answer = TRUE]
          ELSE webhook[w]]

LoadEnds(succeeded) ==
    /\ load' = [phase |-> "none", set |-> {}]
    /\ webhook' = [w \in Webhooks |->
          IF webhook[w].phase = "waiting"
          THEN [webhook[w] EXCEPT !.phase = "ready", !.answer = succeeded]
          ELSE webhook[w]]

Usable == load.set # {}

LoadSucceeds ==
    /\ Drained
    /\ load.phase = "answered"
    /\ Usable
    /\ keys' = load.set
    /\ failing' = FALSE
    /\ fetchedAt' = now
    /\ attemptedAt' = now
    /\ LoadEnds(TRUE)
    /\ UNCHANGED <<now, published, rotations, loads>>

(* Mutant: only a success counts as an attempt.                             *)
OnlySuccessCounts == attemptedAt

FailedAttemptAt == now

(* The request failed, or its answer is an empty set.                       *)
LoadFails ==
    /\ Drained
    /\ load.phase = "out" \/ (load.phase = "answered" /\ ~Usable)
    /\ failing' = TRUE
    /\ attemptedAt' = FailedAttemptAt
    /\ LoadEnds(FALSE)
    /\ UNCHANGED <<now, published, rotations, keys, fetchedAt, loads>>

Next ==
    \/ Tick \/ Rotate \/ LoadRead \/ LoadSucceeds \/ LoadFails
    \/ \E w \in Webhooks :
          \/ \E kid \in Kids : Arrive(w, kid)
          \/ GoOn(w) \/ Forget(w)

Spec == Init /\ [][Next]_vars

(* GoPay answers or the request times out; continuations run.               *)
Fairness ==
    /\ SF_vars(LoadSucceeds \/ LoadFails) /\ WF_vars(LoadRead)
    /\ \A w \in Webhooks : WF_vars(GoOn(w))

FairSpec == Spec /\ Fairness

-----------------------------------------------------------------------------
(* Properties.                                                              *)

(* webhooks.module.ts:22-26: whatever webhooks arrive, forged ones          *)
(* included, GoPay is asked for its keys no more than once an interval.     *)
LoadsAreSpaced == loads <= 1 + now \div RefetchInterval

(* webhooks.module.ts:28-29,74-75: a key that has outlived its hour is      *)
(* used only when GoPay was asked for a newer set and did not answer.       *)
OldKeysAreRefreshed ==
    \A w \in Webhooks :
       webhook[w].phase = "accepted" =>
          fetchedAt > webhook[w].arrived - MaxAge \/ failing

(* webhooks.module.ts:94-97: once there are keys, no failure and no empty   *)
(* answer leaves the server without them.                                   *)
KeysAreKept == fetchedAt # Never => keys # {}

(* webhooks.module.ts:123-126,139: a webhook is refused for good only after *)
(* a set that came while it waited was seen to lack its key.                *)
RefusedAfterLoad ==
    \A w \in Webhooks : webhook[w].phase = "unknown" => webhook[w].answer

(* webhooks.module.ts:123-126: ... so GoPay did not publish the key at some *)
(* moment since the webhook arrived.  It does not hold of a webhook that    *)
(* joined a load GoPay had answered before it rotated the key in.           *)
RefusedKeyIsUnpublished ==
    \A w \in Webhooks : webhook[w].phase = "unknown" => webhook[w].lacking

(* Every webhook is answered.                                               *)
WebhooksAnswered ==
    \A w \in Webhooks :
       webhook[w].phase = "waiting" ~> webhook[w].phase \notin {"waiting", "ready"}

=============================================================================
