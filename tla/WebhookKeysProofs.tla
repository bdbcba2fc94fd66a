-------------------------- MODULE WebhookKeysProofs --------------------------
(***************************************************************************)
(* Proofs about WebhookKeys, for any number of webhooks, key ids and       *)
(* rotations, and any interval shorter than the keys' age, and about       *)
(* WebhookSignature, for signatures of any length.                         *)
(***************************************************************************)
EXTENDS MCWebhookKeys, Sequences, TLAPS

(* What the clock allows: the last attempt is the last success unless a     *)
(* failure stands.                                                          *)
TimesAgree ==
    /\ fetchedAt <= now /\ attemptedAt <= now
    /\ ~failing => attemptedAt = fetchedAt
    /\ \A w \in Webhooks : webhook[w].arrived <= now

(* A webhook that goes on: what its wait has told it still stands, for      *)
(* nothing else runs before it has read it.                                 *)
ReadyKnows ==
    \A w \in Webhooks :
       webhook[w].phase = "ready" =>
          /\ webhook[w].checked => webhook[w].answer = ~failing
          /\ webhook[w].kid \in keys =>
                fetchedAt > webhook[w].arrived - MaxAge \/ failing

(* The loads begun before the last lie an interval apart, up to the last    *)
(* attempt; the one running is the last.                                    *)
LoadsFit ==
    /\ load.phase = "none" /\ loads # 0 =>
          attemptedAt \in Nat /\ (loads - 1) * RefetchInterval <= attemptedAt
    /\ load.phase # "none" => loads # 0 /\ (loads - 1) * RefetchInterval <= now

IInv ==
    /\ TypeOK
    /\ TimesAgree
    /\ LoadsFit
    /\ ReadyKnows
    /\ KeysAreKept
    /\ RefusedAfterLoad
    /\ OldKeysAreRefreshed

-----------------------------------------------------------------------------

LEMMA IdleRecord ==
    ASSUME NEW k \in Kids
    PROVE  Idle(k) \in WebhookRecords
<1>1. 0 \in 0 .. MaxTime
  BY TimesAssumption
<1> QED BY <1>1 DEF Idle, WebhookRecords, Phases

LEMMA StartHolds == Init => IInv
<1> SUFFICES ASSUME Init PROVE IInv
  OBVIOUS
<1>0. PICK k \in Kids : webhook = [w \in Webhooks |-> Idle(k)]
  BY DEF Init
<1>1. webhook \in [Webhooks -> WebhookRecords]
  BY <1>0, IdleRecord
<1>2. TypeOK
  <2>1. now \in 0 .. MaxTime /\ rotations \in 0 .. MaxRotations /\ loads \in Nat
    BY TimesAssumption, RotationsAssumption DEF Init
  <2> QED BY <1>1, <2>1 DEF Init, TypeOK, Loads
<1>3. TimesAgree
  BY <1>0, TimesAssumption DEF Init, TimesAgree, Never, Idle
<1>5. LoadsFit
  BY DEF Init, LoadsFit
<1>4. ReadyKnows /\ KeysAreKept /\ RefusedAfterLoad /\ OldKeysAreRefreshed
  BY <1>0 DEF Init, Idle, ReadyKnows, KeysAreKept, RefusedAfterLoad,
     OldKeysAreRefreshed
<1> QED BY <1>2, <1>3, <1>4, <1>5 DEF IInv

(* What fits an interval after the last attempt, ...                        *)
LEMMA OneMoreLoad ==
    ASSUME NEW n \in Nat, NEW at \in Nat, NEW t \in Nat, NEW r \in Nat,
           (n - 1) * r <= at, t - at >= r
    PROVE  n * r <= t
<1>1. n * r = (n - 1) * r + r
  OBVIOUS
<1> QED BY <1>1

(* ... later fits, too, ...                                                 *)
LEMMA LoadsFitLater ==
    ASSUME IInv, now' \in 0 .. MaxTime, now <= now',
           UNCHANGED <<load, loads, attemptedAt>>
    PROVE  LoadsFit'
<1>1. /\ now \in Nat /\ now' \in Nat
      /\ loads # 0 => (loads - 1) * RefetchInterval \in Int
  BY TimesAssumption DEF IInv, TypeOK
<1> QED BY <1>1 DEF IInv, LoadsFit

(* ... and is counted by a quotient.                                        *)
LEMMA Quotient ==
    ASSUME NEW k \in Nat, NEW n \in Nat, NEW r \in Nat \ {0}, k * r <= n
    PROVE  k <= n \div r
OBVIOUS

(* The steps of GoPay and the clock touch no key and no verdict.            *)
LEMMA OutsideKeeps ==
    ASSUME IInv, Tick \/ Rotate \/ LoadRead \/ UNCHANGED vars
    PROVE  IInv'
<1> USE DEF IInv
<1>1. CASE Tick
  <2>1. now' \in 0 .. MaxTime /\ now <= now'
    BY <1>1, TimesAssumption DEF Tick, TypeOK
  <2>2. TypeOK'
    BY <1>1, <2>1 DEF Tick, TypeOK
  <2>3. TimesAgree'
    BY <1>1, <2>1, TimesAssumption DEF Tick, TypeOK, TimesAgree, WebhookRecords, Never
  <2>4. LoadsFit'
    BY <1>1, <2>1, LoadsFitLater DEF Tick
  <2> QED BY <1>1, <2>2, <2>3, <2>4
          DEF Tick, ReadyKnows, KeysAreKept, RefusedAfterLoad, OldKeysAreRefreshed
<1>2. CASE Rotate
  <2>1. /\ rotations' \in 0 .. MaxRotations
        /\ published' \in SUBSET Signing
    BY <1>2, RotationsAssumption DEF Rotate, TypeOK
  <2>4. webhook' \in [Webhooks -> WebhookRecords]
    <3>1. ASSUME NEW w \in Webhooks
          PROVE  [webhook[w] EXCEPT !.lacking = @ \/ webhook[w].kid \notin published']
                    \in WebhookRecords
      BY DEF TypeOK, WebhookRecords
    <3> QED BY <1>2, <3>1 DEF Rotate
  <2>2. TypeOK'
    BY <1>2, <2>1, <2>4 DEF Rotate, TypeOK
  <2>3. \A w \in Webhooks :
           /\ webhook'[w].phase = webhook[w].phase
           /\ webhook'[w].kid = webhook[w].kid
           /\ webhook'[w].checked = webhook[w].checked
           /\ webhook'[w].arrived = webhook[w].arrived
           /\ webhook'[w].answer = webhook[w].answer
    BY <1>2 DEF Rotate, TypeOK, WebhookRecords
  <2> QED BY <1>2, <2>2, <2>3
          DEF Rotate, TimesAgree, LoadsFit, ReadyKnows, KeysAreKept,
              RefusedAfterLoad, OldKeysAreRefreshed
<1>3. CASE LoadRead
  <2>1. TypeOK'
    BY <1>3 DEF LoadRead, TypeOK, Loads
  <2> QED BY <1>3, <2>1
          DEF LoadRead, TimesAgree, LoadsFit, ReadyKnows, KeysAreKept,
              RefusedAfterLoad, OldKeysAreRefreshed
<1>4. CASE UNCHANGED vars
  BY <1>4 DEF vars, TypeOK, TimesAgree, LoadsFit, ReadyKnows, KeysAreKept,
     RefusedAfterLoad, OldKeysAreRefreshed
<1> QED BY <1>1, <1>2, <1>3, <1>4

(* keyFor() up to its await: a webhook that starts or joins no load has its *)
(* key from a fresh set, or from an old one while a failure stands.         *)
LEMMA ArriveKeeps ==
    ASSUME IInv, NEW w \in Webhooks, NEW kid \in Kids, Arrive(w, kid)
    PROVE  IInv'
<1> USE DEF IInv
<1> DEFINE starts == MayLoad /\ Due(kid)
           joins == starts \/ load.phase # "none"
           new == [phase |-> IF joins THEN "waiting" ELSE "ready", kid |-> kid,
                   checked |-> joins, arrived |-> now,
                   lacking |-> kid \notin published, answer |-> FALSE]
<1>1. /\ webhook' = [webhook EXCEPT ![w] = new]
      /\ UNCHANGED <<now, published, rotations, keys, fetchedAt, attemptedAt, failing>>
      /\ load' \in Loads /\ loads' \in Nat
  BY DEF Arrive, TypeOK, Loads
<1>2. new \in WebhookRecords
  BY DEF WebhookRecords, Phases, TypeOK
<1>3. TypeOK'
  BY <1>1, <1>2 DEF TypeOK
<1>4. \A v \in Webhooks : webhook'[v] = IF v = w THEN new ELSE webhook[v]
  BY <1>1 DEF TypeOK
<1>5. ~joins /\ kid \in keys => fetchedAt > now - MaxAge \/ failing
  BY TimesAssumption DEF MayLoad, Due, TimesAgree, TypeOK, Never
<1>6. joins \in BOOLEAN
  BY DEF MayLoad, Due
<1> HIDE DEF joins
<1>7. TimesAgree'
  <2>1. new.arrived = now /\ now <= now
    BY DEF TypeOK
  <2> HIDE DEF new
  <2> QED BY <1>1, <1>4, <2>1 DEF TimesAgree
<1>8. ReadyKnows'
  <2>1. /\ new.phase = "ready" <=> ~joins
        /\ new.checked = joins /\ new.kid = kid /\ new.arrived = now
    BY <1>6
  <2> HIDE DEF new
  <2>2. ASSUME NEW v \in Webhooks, webhook'[v].phase = "ready"
        PROVE  /\ webhook'[v].checked => webhook'[v].answer = ~failing'
               /\ webhook'[v].kid \in keys' =>
                     fetchedAt' > webhook'[v].arrived - MaxAge \/ failing'
    <3>1. CASE v = w
      BY <1>1, <1>4, <1>5, <2>1, <2>2, <3>1
    <3>2. CASE v # w
      BY <1>1, <1>4, <2>2, <3>2 DEF ReadyKnows
    <3> QED BY <3>1, <3>2
  <2> QED BY <2>2 DEF ReadyKnows
<1>10. LoadsFit'
  <2>1. CASE starts
    <3>1. load.phase = "none" /\ now - attemptedAt >= RefetchInterval
      BY <2>1 DEF MayLoad
    <3>2. loads' = loads + 1 /\ load'.phase # "none" /\ now' = now
      BY <2>1 DEF Arrive
    <3>3. loads * RefetchInterval <= now
      <4>1. now \in Nat /\ loads \in Nat /\ RefetchInterval \in Nat
        BY TimesAssumption DEF TypeOK
      <4>2. CASE loads = 0
        BY <4>1, <4>2
      <4>3. CASE loads # 0
        BY <3>1, <4>1, <4>3, OneMoreLoad DEF LoadsFit
      <4> QED BY <4>2, <4>3
    <3> QED BY <3>2, <3>3 DEF LoadsFit, TypeOK
  <2>2. CASE ~starts
    <3>1. UNCHANGED <<load, loads, now, attemptedAt>>
      BY <1>1, <2>2 DEF Arrive
    <3> QED BY <3>1 DEF LoadsFit
  <2> QED BY <2>1, <2>2
<1>9. KeysAreKept' /\ RefusedAfterLoad' /\ OldKeysAreRefreshed'
  BY <1>1, <1>4 DEF KeysAreKept, RefusedAfterLoad, OldKeysAreRefreshed
<1> QED BY <1>3, <1>7, <1>8, <1>9, <1>10

(* keyFor() after its await.                                                *)
LEMMA GoOnKeeps ==
    ASSUME IInv, NEW w \in Webhooks, GoOn(w) \/ Forget(w)
    PROVE  IInv'
<1> USE DEF IInv
<1>0. UNCHANGED <<now, published, rotations, keys, fetchedAt, attemptedAt,
                  failing, load, loads>>
  BY DEF GoOn, Forget
<1>3. LoadsFit'
  BY <1>0 DEF LoadsFit
<1>1. CASE GoOn(w)
  <2>1. Verdict(w) \in {"accepted", "unknown", "unavailable"}
    BY DEF Verdict
  <2>2. webhook' = [webhook EXCEPT ![w].phase = Verdict(w)]
    BY <1>1 DEF GoOn
  <2>3. \A v \in Webhooks :
           /\ webhook'[v].phase = (IF v = w THEN Verdict(w) ELSE webhook[v].phase)
           /\ webhook'[v].kid = webhook[v].kid
           /\ webhook'[v].checked = webhook[v].checked
           /\ webhook'[v].arrived = webhook[v].arrived
           /\ webhook'[v].answer = webhook[v].answer
    BY <2>2 DEF TypeOK, WebhookRecords
  <2>4. TypeOK'
    BY <1>0, <2>1, <2>2 DEF TypeOK, WebhookRecords, Phases
  <2>5. /\ Verdict(w) = "unknown" => webhook[w].answer
        /\ Verdict(w) = "accepted" =>
              fetchedAt > webhook[w].arrived - MaxAge \/ failing
    BY <1>1 DEF Verdict, GoOn, ReadyKnows
  <2>6. TimesAgree' /\ ReadyKnows'
    BY <1>0, <2>1, <2>3 DEF TimesAgree, ReadyKnows
  <2>7. KeysAreKept' /\ RefusedAfterLoad' /\ OldKeysAreRefreshed'
    BY <1>0, <2>3, <2>5 DEF KeysAreKept, RefusedAfterLoad, OldKeysAreRefreshed
  <2> QED BY <1>3, <2>4, <2>6, <2>7
<1>2. CASE Forget(w)
  <2> DEFINE idle == Idle(webhook[w].kid)
  <2>1. idle \in WebhookRecords
    BY IdleRecord DEF TypeOK, WebhookRecords
  <2>2. webhook' = [webhook EXCEPT ![w] = idle] /\ idle.phase = "idle" /\ idle.arrived = 0
    BY <1>2 DEF Forget, Idle
  <2> HIDE DEF idle
  <2>3. \A v \in Webhooks : webhook'[v] = IF v = w THEN idle ELSE webhook[v]
    BY <2>2 DEF TypeOK
  <2>4. TypeOK'
    BY <1>0, <2>1, <2>2 DEF TypeOK
  <2>5. TimesAgree'
    BY <1>0, <2>2, <2>3 DEF TimesAgree, TypeOK
  <2>6. ReadyKnows' /\ KeysAreKept' /\ RefusedAfterLoad' /\ OldKeysAreRefreshed'
    BY <1>0, <2>2, <2>3 DEF ReadyKnows, KeysAreKept, RefusedAfterLoad,
       OldKeysAreRefreshed
  <2> QED BY <1>3, <2>4, <2>5, <2>6
<1> QED BY <1>1, <1>2

(* load(): it wakes those who wait, and only when nobody else is about to   *)
(* go on.                                                                   *)
LEMMA LoadKeeps ==
    ASSUME IInv, LoadSucceeds \/ LoadFails
    PROVE  IInv'
<1> USE DEF IInv
<1>0. /\ \A w \in Webhooks : webhook[w].phase # "ready"
      /\ UNCHANGED <<now, published, rotations, loads>>
      /\ attemptedAt' = now
  BY DEF LoadSucceeds, LoadFails, Drained, FailedAttemptAt
<1>1. /\ load' \in Loads
      /\ webhook' \in [Webhooks -> WebhookRecords]
      /\ \A w \in Webhooks :
            /\ webhook'[w].phase =
                  (IF webhook[w].phase = "waiting" THEN "ready" ELSE webhook[w].phase)
            /\ webhook'[w].kid = webhook[w].kid
            /\ webhook'[w].checked = webhook[w].checked
            /\ webhook'[w].arrived = webhook[w].arrived
            /\ webhook[w].phase # "waiting" => webhook'[w].answer = webhook[w].answer
  <2>1. PICK ok \in BOOLEAN : LoadEnds(ok)
    BY DEF LoadSucceeds, LoadFails
  <2>2. ASSUME NEW w \in Webhooks
        PROVE  /\ webhook[w] \in WebhookRecords
               /\ [webhook[w] EXCEPT !.phase = "ready", !.answer = ok] \in WebhookRecords
    BY DEF TypeOK, WebhookRecords, Phases
  <2>3. webhook' \in [Webhooks -> WebhookRecords]
    BY <2>1, <2>2 DEF LoadEnds
  <2> QED BY <2>1, <2>2, <2>3 DEF LoadEnds, Loads, WebhookRecords
<1>4. LoadsFit'
  <2>1. load.phase # "none"
    BY DEF LoadSucceeds, LoadFails
  <2>2. load' = [phase |-> "none", set |-> {}]
    BY DEF LoadSucceeds, LoadFails, LoadEnds
  <2>3. load'.phase = "none"
    BY <2>2
  <2> QED BY <1>0, <2>1, <2>3 DEF LoadsFit, TypeOK
<1>2. CASE LoadSucceeds
  <2>1. /\ keys' \in SUBSET Signing /\ keys' # {}
        /\ fetchedAt' = now /\ failing' = FALSE
        /\ \A w \in Webhooks :
              webhook[w].phase = "waiting" => webhook'[w].answer
    BY <1>2 DEF LoadSucceeds, LoadEnds, Usable, TypeOK, WebhookRecords, Loads
  <2>2. TypeOK'
    BY <1>0, <1>1, <2>1 DEF TypeOK
  <2>3. ASSUME NEW w \in Webhooks PROVE now > webhook[w].arrived - MaxAge
    <3>1. webhook[w].arrived \in Nat /\ now \in Nat /\ MaxAge \in Nat \ {0}
      BY TimesAssumption DEF TypeOK, WebhookRecords
    <3> QED BY <3>1 DEF TimesAgree
  <2>4. TimesAgree'
    BY <1>0, <1>1, <2>1 DEF TimesAgree, TypeOK
  <2>5. ReadyKnows'
    BY <1>0, <1>1, <2>1, <2>2, <2>3 DEF ReadyKnows, TypeOK, WebhookRecords
  <2>6. KeysAreKept' /\ RefusedAfterLoad' /\ OldKeysAreRefreshed'
    BY <1>0, <1>1, <2>1, <2>3 DEF KeysAreKept, RefusedAfterLoad, OldKeysAreRefreshed
  <2> QED BY <1>4, <2>2, <2>4, <2>5, <2>6
<1>3. CASE LoadFails
  <2>1. /\ UNCHANGED <<keys, fetchedAt>> /\ failing' = TRUE
        /\ \A w \in Webhooks :
              webhook[w].phase = "waiting" => webhook'[w].answer = FALSE
    BY <1>3 DEF LoadFails, LoadEnds, TypeOK, WebhookRecords
  <2>2. TypeOK'
    BY <1>0, <1>1, <2>1 DEF TypeOK
  <2>3. TimesAgree'
    BY <1>0, <1>1, <2>1 DEF TimesAgree, TypeOK
  <2>4. ReadyKnows'
    BY <1>0, <1>1, <2>1 DEF ReadyKnows
  <2>5. KeysAreKept' /\ RefusedAfterLoad' /\ OldKeysAreRefreshed'
    BY <1>0, <1>1, <2>1 DEF KeysAreKept, RefusedAfterLoad, OldKeysAreRefreshed
  <2> QED BY <1>4, <2>2, <2>3, <2>4, <2>5
<1> QED BY <1>2, <1>3

LEMMA Invariance == Spec => []IInv
<1>1. IInv /\ [Next]_vars => IInv'
  BY OutsideKeeps, ArriveKeeps, GoOnKeeps, LoadKeeps DEF Next
<1> QED BY <1>1, StartHolds, PTL DEF Spec

-----------------------------------------------------------------------------
(* The theorems.                                                            *)

(* Every variable keeps its type.                                           *)
THEOREM TypeCorrect == Spec => []TypeOK
<1>1. IInv => TypeOK
  BY DEF IInv
<1> QED BY <1>1, Invariance, PTL

(* webhooks.module.ts:94-97: a key set once loaded is never lost.           *)
THEOREM KeysKept == Spec => []KeysAreKept
<1>1. IInv => KeysAreKept
  BY DEF IInv
<1> QED BY <1>1, Invariance, PTL

(* webhooks.module.ts:139: no webhook is refused for good unchecked.        *)
THEOREM RefusedOnlyChecked == Spec => []RefusedAfterLoad
<1>1. IInv => RefusedAfterLoad
  BY DEF IInv
<1> QED BY <1>1, Invariance, PTL

(* webhooks.module.ts:28-29: no old key is used without having asked.       *)
THEOREM OldKeysRefreshed == Spec => []OldKeysAreRefreshed
<1>1. IInv => OldKeysAreRefreshed
  BY DEF IInv
<1> QED BY <1>1, Invariance, PTL

(* webhooks.module.ts:22-26: GoPay is not asked for its keys more often     *)
(* than once an interval.                                                   *)
THEOREM LoadsSpaced == Spec => []LoadsAreSpaced
<1>1. ASSUME IInv PROVE LoadsAreSpaced
  <2>0. /\ now \in Nat /\ loads \in Nat /\ RefetchInterval \in Nat \ {0}
        /\ attemptedAt <= now
    BY <1>1, TimesAssumption DEF IInv, TypeOK, TimesAgree
  <2>1. CASE loads = 0
    <3>1. 0 <= now \div RefetchInterval
      BY <2>0, Quotient
    <3> QED BY <2>0, <2>1, <3>1 DEF LoadsAreSpaced
  <2>2. CASE loads # 0
    <3>1. loads - 1 \in Nat /\ (loads - 1) * RefetchInterval \in Nat
      BY <2>0, <2>2
    <3>2. (loads - 1) * RefetchInterval <= now
      BY <1>1, <2>0, <2>2, <3>1 DEF IInv, LoadsFit
    <3>3. loads - 1 <= now \div RefetchInterval
      BY <2>0, <3>1, <3>2, Quotient
    <3>4. now \div RefetchInterval \in Int
      BY <2>0
    <3> QED BY <2>0, <3>3, <3>4 DEF LoadsAreSpaced
  <2> QED BY <2>1, <2>2
<1> QED BY <1>1, Invariance, PTL

-----------------------------------------------------------------------------
(* The signature.                                                           *)

(* The one form of a header that is asked about.                            *)
Detached(p) == <<"signed", "", p>>

Asked == \E p \in Signature!Parts \ {"", "junk"} : request.headers = <<Detached(p)>>

SignatureInv ==
    /\ phase \in {"none", "asking", "over"}
    /\ key \in Signature!Keys \cup {"none"}
    /\ request.body \in Signature!Bodies
    /\ phase # "over" => key = "none"
    /\ phase = "asking" => request.body # "parsed"
    /\ phase = "asking" \/ key # "none" => Asked
    /\ OnlyGenuineAccepted

LEMMA TupleForm ==
    ASSUME NEW P, NEW n \in Nat, NEW parts \in [1 .. n -> P]
    PROVE  Len(parts) = 3 => parts = <<parts[1], parts[2], parts[3]>> /\ parts[3] \in P
<1>1. parts \in Seq(P) /\ Len(parts) = n
  OBVIOUS
<1>2. ASSUME n = 3 PROVE parts = <<parts[1], parts[2], parts[3]>> /\ parts[3] \in P
  BY <1>2
<1> QED BY <1>1, <1>2

(* parseSignatureHeader() lets nothing pass but a detached JWS.             *)
LEMMA HeaderForm ==
    ASSUME NEW headers \in Signature!OneHeader \cup Signature!OtherHeaders
    PROVE  Signature!Parses(headers)
              <=> \E p \in Signature!Parts \ {"", "junk"} : headers = <<Detached(p)>>
<1> DEFINE Parts == Signature!Parts
<1>1. ASSUME NEW x PROVE Len(<<x>>) = 1 /\ <<x>>[1] = x
  OBVIOUS
<1>2. CASE headers \in Signature!OneHeader
  <2>1. PICK n \in 1 .. MaxParts : \E parts \in [1 .. n -> Parts] : headers = <<parts>>
    BY <1>2 DEF Signature!OneHeader
  <2>2. PICK parts \in [1 .. n -> Parts] : headers = <<parts>>
    BY <2>1
  <2>3. headers[1] = parts /\ Len(headers) = 1
    BY <1>1, <2>2
  <2>4. n \in Nat
    OBVIOUS
  <2>5. Len(parts) = 3 => parts = <<parts[1], parts[2], parts[3]>> /\ parts[3] \in Parts
    BY <2>4, TupleForm
  <2>6. ASSUME Signature!Parses(headers)
        PROVE  \E p \in Parts \ {"", "junk"} : headers = <<Detached(p)>>
    <3>1. /\ Len(parts) = 3 /\ parts[1] = "signed" /\ parts[2] = ""
          /\ parts[3] \in Parts \ {"", "junk"}
      BY <2>3, <2>5, <2>6
         DEF Signature!Parses, Signature!IsDetached, Signature!IsBase64Url,
             Signature!JwsHeaders
    <3>2. parts = Detached(parts[3])
      BY <2>5, <3>1 DEF Detached
    <3> QED BY <2>2, <3>1, <3>2
  <2>7. ASSUME NEW p \in Parts \ {"", "junk"}, headers = <<Detached(p)>>
        PROVE  Signature!Parses(headers)
    <3>1. /\ Len(Detached(p)) = 3 /\ Detached(p)[1] = "signed"
          /\ Detached(p)[2] = "" /\ Detached(p)[3] = p
      BY DEF Detached
    <3>2. Len(headers) = 1 /\ headers[1] = Detached(p)
      BY <1>1, <2>7
    <3> QED BY <3>1, <3>2
            DEF Signature!Parses, Signature!IsDetached, Signature!IsBase64Url,
                Signature!JwsHeaders, Signature!IsOne
  <2> QED BY <2>6, <2>7
<1>3. CASE headers \in Signature!OtherHeaders
  <2>1. PICK x : headers = <<>> \/ headers = <<x, x>>
    BY <1>3 DEF Signature!OtherHeaders
  <2>2. Len(headers) # 1
    BY <2>1
  <2> QED BY <1>1, <2>2 DEF Signature!Parses, Signature!IsOne
<1> QED BY <1>2, <1>3

(* Such a header verifies if its last part is GoPay's signature.            *)
LEMMA DetachedVerifies ==
    ASSUME Asked, NEW body
    PROVE  Signature!Verifies(request.headers, body)
              <=> request.headers = <<Detached("signature")>> /\ body \in {"event", "data"}
<1>1. PICK p \in Signature!Parts : request.headers = <<Detached(p)>>
  BY DEF Asked
<1>2. \A q : <<Detached(q)>>[1][1] = "signed" /\ <<Detached(q)>>[1][3] = q
  BY DEF Detached
<1> QED BY <1>1, <1>2 DEF Signature!Verifies

(* ... and it is an event exactly if all of the rest holds.                 *)
LEMMA GenuineForm ==
    ASSUME Asked, request.body # "parsed"
    PROVE  Signature!Genuine
              <=> Signature!Verifies(request.headers, request.body) /\ request.body = "event"
<1>1. \A b : Signature!Verifies(request.headers, b)
              <=> request.headers = <<Detached("signature")>> /\ b \in {"event", "data"}
  BY DetachedVerifies
<1> QED BY <1>1 DEF Signature!Genuine, Detached

(* verify() up to its await, and what it settles there.                     *)
LEMMA SignatureArrives ==
    ASSUME SignatureInv, NEW headers \in Signature!OneHeader \cup Signature!OtherHeaders,
           NEW body \in Signature!Bodies, Signature!Arrive(headers, body)
    PROVE  SignatureInv'
<1> USE DEF SignatureInv
<1>1. /\ request' = [headers |-> headers, body |-> body] /\ key' = key /\ key = "none"
  BY DEF Signature!Arrive
<1>2. request'.headers = headers /\ request'.body = body
  BY <1>1
<1>3. Asked' <=> Signature!Parses(headers)
  BY <1>2, HeaderForm DEF Asked
<1>4. Asked' => \E p \in Signature!Parts : request'.headers = <<<<"signed", "", p>>>>
  BY DEF Asked, Detached
<1>5. Signature!Genuine' => Asked'
  <2>1. "signature" \in Signature!Parts \ {"", "junk"}
    BY DEF Signature!Parts
  <2> QED BY <2>1 DEF Signature!Genuine, Asked, Detached
<1>6. Signature!Genuine' => body \in {"event", "parsed"}
  BY <1>2 DEF Signature!Genuine
<1>7. CASE body = "parsed"
  <2>1. phase' = "over" /\ outcome' = "argument" /\ reported'
    BY <1>7 DEF Signature!Arrive, Signature!Settled
  <2> QED BY <1>1, <1>2, <1>7, <2>1
          DEF OnlyGenuineAccepted, Signature!OnlyGenuineAccepted
<1>8. CASE body # "parsed" /\ ~Signature!Parses(headers)
  <2>1. phase' = "over" /\ outcome' = "invalid" /\ ~reported'
    BY <1>8 DEF Signature!Arrive, Signature!Settled, Signature!AsksForKey
  <2> QED BY <1>1, <1>2, <1>3, <1>5, <1>8, <2>1
          DEF OnlyGenuineAccepted, Signature!OnlyGenuineAccepted
<1>9. CASE body # "parsed" /\ Signature!Parses(headers)
  <2>1. phase' = "asking"
    BY <1>9 DEF Signature!Arrive, Signature!AsksForKey
  <2> QED BY <1>1, <1>2, <1>3, <1>4, <1>9, <2>1
          DEF OnlyGenuineAccepted, Signature!OnlyGenuineAccepted
<1> QED BY <1>7, <1>8, <1>9

(* ... and after it.                                                        *)
LEMMA KeyAnswered ==
    ASSUME SignatureInv, NEW answer \in Signature!Keys, Signature!KeyAnswers(answer)
    PROVE  SignatureInv'
<1> USE DEF SignatureInv
<1> DEFINE good == Signature!Verifies(request.headers, request.body)
                      /\ request.body = "event"
<1>1. /\ key' = answer /\ request' = request /\ phase = "asking" /\ phase' = "over"
      /\ outcome' = (CASE answer = "unavailable" -> "unavailable"
                        [] answer = "unpublished" -> "invalid"
                        [] answer = "found" -> IF good THEN "event" ELSE "invalid")
      /\ reported' = (outcome' \notin {"event", "invalid", "unavailable"})
  BY DEF Signature!KeyAnswers, Signature!Settled
<1>2. /\ outcome' = "event" <=> answer = "found" /\ good
      /\ outcome' = "invalid" <=> answer = "unpublished" \/ (answer = "found" /\ ~good)
      /\ outcome' \in {"event", "invalid", "unavailable"}
  BY <1>1 DEF Signature!Keys
<1>3. Asked /\ Asked'
  BY <1>1 DEF Asked
<1>4. Signature!Genuine <=> good
  BY <1>1, <1>3, GenuineForm
<1>5. Signature!Genuine' <=> Signature!Genuine
  BY <1>1 DEF Signature!Genuine
<1>6. good => request.body = "event"
  OBVIOUS
<1>7. \E p \in Signature!Parts : request'.headers = <<<<"signed", "", p>>>>
  BY <1>1, <1>3 DEF Asked, Detached
<1> HIDE DEF good
<1> QED BY <1>1, <1>2, <1>3, <1>4, <1>5, <1>6, <1>7
        DEF OnlyGenuineAccepted, Signature!OnlyGenuineAccepted, Signature!Keys

(* signature.ts:83-86, webhooks.module.ts:177-182: only what GoPay signed,  *)
(* an event, and whose key it has, is accepted; the rest is told as what it *)
(* is.                                                                      *)
THEOREM GenuineAccepted == Signature!Spec => []OnlyGenuineAccepted
<1>1. ASSUME Signature!Init PROVE SignatureInv
  <2>1. request.body = "event" /\ phase = "none" /\ key = "none"
    BY <1>1 DEF Signature!Init
  <2> QED BY <2>1 DEF SignatureInv, OnlyGenuineAccepted, Signature!OnlyGenuineAccepted,
             Signature!Bodies
<1>2. ASSUME SignatureInv, [Signature!Next]_(Signature!vars) PROVE SignatureInv'
  <2>1. CASE UNCHANGED Signature!vars
    BY <1>2, <2>1 DEF Signature!vars, SignatureInv, Asked, OnlyGenuineAccepted,
       Signature!OnlyGenuineAccepted, Signature!Genuine
  <2>2. CASE Signature!Next
    BY <1>2, <2>2, SignatureArrives, KeyAnswered DEF Signature!Next
  <2> QED BY <1>2, <2>1, <2>2
<1>3. SignatureInv => OnlyGenuineAccepted
  BY DEF SignatureInv
<1> QED BY <1>1, <1>2, <1>3, PTL DEF Signature!Spec

=============================================================================
