-------------------------- MODULE ChargeFlowProofs --------------------------
(***************************************************************************)
(* Proofs about the payment methods that charge in the page: CardForm, for *)
(* any number of mounts, attaches and logouts, and Wallets, for any number *)
(* of buttons and sheets.  Each implements ChargeFlow.                     *)
(***************************************************************************)
EXTENDS CardForm, MCWallets, TLAPS


(* A payment is attached only by the latest attach, once that has its       *)
(* answer.                                                                  *)
AttachedIsLatest ==
    paymentsApi # 0 => paymentsApi = attempt /\ attempt \notin exchanging

(* Under a form that will charge, its payment is attached or none, and no   *)
(* answer can attach another.                                               *)
FormHoldsPayment ==
    \A m \in Mounts :
        mounts[m].phase \in Holding /\ mounts[m].flow = "charge"
            => paymentsApi \in {0, mounts[m].payment} /\ attempt \notin exchanging

(* What the phase of a form says of its charge and its result.              *)
Sound(r) ==
    /\ r.phase \in {"unused", "fetching"} \cup Framed =>
           /\ r.charge = "none" /\ r.charged = 0
           /\ ~r.charging /\ ~r.aborted /\ r.result = "pending"
    /\ r.phase = "preparing" => r.charge = "none"
    /\ r.phase = "lost" => r.charging \/ r.charge = "none"
    /\ r.told # "none" => r.aborted
    /\ r.phase \in Charging => r.charging /\ (~r.aborted => r.result = "pending")

AllSound == \A m \in Mounts : Sound(mounts[m])

IInv ==
    /\ TypeOK
    /\ SessionOwned
    /\ AttachedIsLatest
    /\ FormHoldsPayment
    /\ ChargesMounted
    /\ AllSound

(* What a step may do to the charge, the result and the report of a form:   *)
(* nothing, or one step of ChargeFlow.                                      *)
Follows(r, s) ==
    \/ s.charge = r.charge /\ s.result = r.result /\ s.told = r.told
    \/ /\ r.result = "pending" /\ r.charge = "none" /\ r.told = "none"
       /\ s.charge = "sent" /\ s.result = r.result /\ s.told = r.told
    \/ /\ \/ r.charge = "sent" /\ s.charge \in {"open", "refused"}
          \/ r.charge = "open" /\ s.charge \in {"succeeded", "failed"}
       /\ s.result = r.result /\ s.told = r.told
    \/ /\ r.result = "pending"
       /\ s.result \in {"payload", "error", "succeeded", "failed"}
       /\ s.result = "payload" => r.charge = "none"
       /\ s.result \in {"succeeded", "failed"} => r.charge = s.result
       /\ s.charge = r.charge /\ s.told = r.told
    \/ /\ r.result = "pending"
       /\ s.result \in {"pending", "unmounted"}
       /\ s.told \in {"known", "inFlight"}
       /\ s.told = "known" => r.charge \in {"none", "succeeded", "failed"}
       /\ s.charge = r.charge

(* A form's record stays one, and sound, and its flow takes a step.         *)
Good(r, s) ==
    s \in MountRecords /\ Sound(s) /\ Follows(r, s)

(* Only the form itself changes, and as far as the session is concerned it  *)
(* keeps what it was mounted with.                                          *)
Keeps(r, s) == s.flow = r.flow /\ s.payment = r.payment

-----------------------------------------------------------------------------
(* The operators on a form's record.                                        *)

(* The callback unmounts a form whose frame is there, or returns.           *)
LEMMA ToldForm ==
    ASSUME NEW r \in MountRecords, Sound(r), r.phase \in Framed, NEW events \in 0 .. 2
    PROVE  LET t == Told(r, events)
           IN  /\ t \in MountRecords /\ t.flow = r.flow /\ t.payment = r.payment
               /\ t.charged = r.charged /\ t.charge = "none" /\ ~t.charging
               /\ \/ t = r
                  \/ t.phase = "over" /\ t.result = "unmounted" /\ t.told = "known" /\ t.aborted
<1>1. r.result = "pending" /\ r.charge = "none" /\ ~r.charging /\ r.phase \notin Charging
  BY DEF Sound, Framed, Charging
<1>2. CASE events = 0
  BY <1>1, <1>2 DEF Told
<1>3. CASE events # 0
  <2>. DEFINE count == IF r.events = 0 THEN events ELSE 2
  <2>1. Told(r, events) =
            [r EXCEPT !.aborted = TRUE, !.told = "known", !.events = count,
                      !.result = "unmounted", !.phase = "over"]
    BY <1>1, <1>3 DEF Told, Unmounted
  <2>2. count \in 0 .. 2
    OBVIOUS
  <2>. HIDE DEF count
  <2>. QED
    BY <1>1, <2>1, <2>2 DEF MountRecords
<1>. QED
  BY <1>2, <1>3

(* A form that fails before or after its frame was there.                   *)
LEMMA FailingForm ==
    ASSUME NEW r \in MountRecords, Sound(r), r.phase \in Framed, NEW events \in 0 .. 2
    PROVE  LET s == [Settled(Told(r, events), "error") EXCEPT !.phase = "over"]
           IN  Good(r, s) /\ Keeps(r, s) /\ s.charged = r.charged /\ s.phase = "over"
<1>. DEFINE t == Told(r, events)
            q == Settled(t, "error")
            s == [q EXCEPT !.phase = "over"]
<1>1. /\ t \in MountRecords /\ t.flow = r.flow /\ t.payment = r.payment
      /\ t.charged = r.charged /\ t.charge = "none" /\ ~t.charging
      /\ \/ t = r
         \/ t.phase = "over" /\ t.result = "unmounted" /\ t.told = "known" /\ t.aborted
  BY ToldForm
<1>2. r.result = "pending" /\ r.charge = "none" /\ r.told = "none"
  BY DEF Sound, MountRecords
<1>. HIDE DEF t
<1>3. /\ q \in MountRecords /\ q.flow = t.flow /\ q.payment = t.payment
      /\ q.charged = t.charged /\ q.charge = t.charge /\ q.charging = t.charging
      /\ q.told = t.told /\ q.aborted = t.aborted
      /\ q.result = IF t.result = "pending" THEN "error" ELSE t.result
  <2>1. CASE t.result = "pending"
    <3>1. q = [t EXCEPT !.result = "error"]
      BY <2>1 DEF Settled
    <3>. HIDE DEF q
    <3>. QED
      BY <1>1, <2>1, <3>1 DEF MountRecords
  <2>2. CASE t.result # "pending"
    BY <1>1, <2>2 DEF Settled
  <2>. QED
    BY <2>1, <2>2
<1>. HIDE DEF q
<1>4. /\ s \in MountRecords /\ s.flow = q.flow /\ s.payment = q.payment
      /\ s.charged = q.charged /\ s.charge = q.charge /\ s.charging = q.charging
      /\ s.told = q.told /\ s.aborted = q.aborted /\ s.result = q.result
      /\ s.phase = "over"
  BY <1>3 DEF MountRecords
<1>. HIDE DEF s
<1>5. Sound(s) /\ Follows(r, s)
  BY <1>1, <1>2, <1>3, <1>4 DEF Sound, Follows, Framed, Charging
<1>. QED
  BY <1>1, <1>3, <1>4, <1>5 DEF Good, Keeps, s, q, t

(* The encrypted card is handed back, or to a charge of the payment given.  *)
LEMMA HandledForm ==
    ASSUME NEW r \in MountRecords, Sound(r), r.phase \in Framed, NEW events \in 0 .. 2,
           NEW payment \in Payments
    PROVE  \A s \in Handled(Told(r, events), payment) :
               /\ Good(r, s) /\ Keeps(r, s) /\ s.phase \in {"over", "lost", "preparing"}
               /\ s.charged = r.charged \/ (r.flow = "charge" /\ s.charged = payment)
<1>. DEFINE t == Told(r, events)
<1>1. /\ t \in MountRecords /\ t.flow = r.flow /\ t.payment = r.payment
      /\ t.charged = r.charged /\ t.charge = "none" /\ ~t.charging
      /\ \/ t = r
         \/ t.phase = "over" /\ t.result = "unmounted" /\ t.told = "known" /\ t.aborted
  BY ToldForm
<1>2. r.result = "pending" /\ r.charge = "none" /\ ~r.charging /\ ~r.aborted
  BY DEF Sound
<1>. HIDE DEF t
<1>3. CASE r.flow = "payload"
  <2>1. Handled(t, payment) = {[Settled(t, "payload") EXCEPT !.phase = "over"]}
    BY <1>1, <1>3 DEF Handled
  <2>. QED
    BY <1>1, <1>2, <2>1 DEF MountRecords, Sound, Framed, Charging, Settled, Good, Follows,
       Keeps, t
<1>4. CASE r.flow # "payload" /\ payment = 0
  <2>1. Handled(t, payment) = {[Settled(t, "error") EXCEPT !.phase = "over"]}
    BY <1>1, <1>4 DEF Handled
  <2>. QED
    BY <1>1, <1>2, <2>1 DEF MountRecords, Sound, Framed, Charging, Settled, Good, Follows,
       Keeps, t
<1>5. CASE r.flow # "payload" /\ payment # 0
  <2>1. Handled(t, payment) =
            {[t EXCEPT !.phase = "preparing", !.charged = payment, !.charging = TRUE],
             Stranded(t)}
    BY <1>1, <1>5 DEF Handled
  <2>2. r.flow = "charge"
    BY <1>5 DEF MountRecords
  <2>3. ASSUME NEW s, s = [t EXCEPT !.phase = "preparing", !.charged = payment,
                                    !.charging = TRUE]
        PROVE  /\ Good(r, s) /\ Keeps(r, s) /\ s.phase = "preparing"
               /\ s.charged = payment
    <3>1. /\ s \in MountRecords /\ s.flow = t.flow /\ s.payment = t.payment
          /\ s.charged = payment /\ s.charge = t.charge /\ s.charging
          /\ s.told = t.told /\ s.aborted = t.aborted /\ s.result = t.result
          /\ s.phase = "preparing"
      BY <1>1, <2>3 DEF MountRecords, Charging
    <3>2. Sound(s) /\ Follows(r, s)
      BY <1>1, <1>2, <3>1 DEF Sound, Follows, Framed, Charging
    <3>. QED
      BY <1>1, <3>1, <3>2 DEF Good, Keeps
  <2>4. ASSUME NEW s, s = Stranded(t)
        PROVE  /\ Good(r, s) /\ Keeps(r, s) /\ s.phase \in {"over", "lost"}
               /\ s.charged = r.charged
    <3>. DEFINE phase == IF t.result = "pending" THEN "lost" ELSE "over"
    <3>1. s = [t EXCEPT !.phase = phase]
      BY <2>4 DEF Stranded
    <3>2. phase \in {"over", "lost"}
      OBVIOUS
    <3>. HIDE DEF phase
    <3>3. /\ s \in MountRecords /\ s.flow = t.flow /\ s.payment = t.payment
          /\ s.charged = t.charged /\ s.charge = t.charge /\ s.charging = t.charging
          /\ s.told = t.told /\ s.aborted = t.aborted /\ s.result = t.result
          /\ s.phase = phase
      BY <1>1, <3>1, <3>2 DEF MountRecords
    <3>4. Sound(s) /\ Follows(r, s)
      BY <1>1, <1>2, <3>2, <3>3 DEF Sound, Follows, Framed, Charging
    <3>. QED
      BY <1>1, <3>2, <3>3, <3>4 DEF Good, Keeps
  <2>. QED
    BY <2>1, <2>2, <2>3, <2>4 DEF t
<1>. QED
  BY <1>3, <1>4, <1>5 DEF t

(* unmount().                                                               *)
LEMMA UnmountedForm ==
    ASSUME NEW r \in MountRecords, Sound(r), r.phase \in Framed \cup Charging \cup {"lost"},
           r.result = "pending", NEW events \in 1 .. 2
    PROVE  LET s == Unmounted(r, events)
           IN  /\ Good(r, s) /\ Keeps(r, s) /\ s.charged = r.charged
               /\ s.phase = (IF r.phase \in Charging THEN r.phase ELSE "over")
               /\ s.result = "unmounted"
<1>. DEFINE s == Unmounted(r, events)
            known == IF r.charging THEN "inFlight" ELSE "known"
            phase == IF r.phase \in Charging THEN r.phase ELSE "over"
            count == IF r.events = 0 THEN events ELSE 2
<1>1. s = [r EXCEPT !.aborted = TRUE, !.told = known, !.events = count,
                    !.result = "unmounted", !.phase = phase]
  BY DEF Unmounted
<1>2. known \in {"known", "inFlight"} /\ phase \in {"over"} \cup Charging
  BY DEF Charging
<1>3. known = "known" => r.charge = "none"
  BY DEF Sound
<1>4. count \in 0 .. 2
  OBVIOUS
<1>. HIDE DEF known, phase, count, s
<1>5. /\ s \in MountRecords
      /\ s.phase = phase /\ s.charge = r.charge /\ s.told = known
      /\ s.result = "unmounted"
      /\ s.flow = r.flow /\ s.payment = r.payment /\ s.charged = r.charged
      /\ s.charging = r.charging /\ s.aborted
  BY <1>1, <1>2, <1>4 DEF MountRecords
<1>6. Sound(s)
  BY <1>2, <1>5 DEF Sound, Charging, Framed, phase
<1>7. Follows(r, s)
  BY <1>2, <1>3, <1>5 DEF Follows
<1>. QED
  BY <1>5, <1>6, <1>7 DEF Good, Keeps, s, phase

(* ... whose cleanup throws, before the result is settled.                  *)
LEMMA HalfUnmountedForm ==
    ASSUME NEW r \in MountRecords, Sound(r), r.phase \in Framed \cup Charging \cup {"lost"},
           r.result = "pending"
    PROVE  LET s == HalfUnmounted(r)
           IN  /\ Good(r, s) /\ Keeps(r, s) /\ s.charged = r.charged
               /\ s.phase \in Charging \cup {"lost"}
<1>. DEFINE s == HalfUnmounted(r)
            known == IF r.charging THEN "inFlight" ELSE "known"
            phase == IF r.phase \in Charging THEN r.phase ELSE "lost"
            count == IF r.events = 0 THEN 1 ELSE 2
<1>1. s = [r EXCEPT !.aborted = TRUE, !.told = known, !.events = count, !.phase = phase]
  BY DEF HalfUnmounted
<1>2. known \in {"known", "inFlight"} /\ phase \in {"lost"} \cup Charging
  BY DEF Charging
<1>3. known = "known" => r.charge = "none"
  BY DEF Sound
<1>4. count \in 0 .. 2
  OBVIOUS
<1>. HIDE DEF known, phase, count, s
<1>5. /\ s \in MountRecords
      /\ s.phase = phase /\ s.charge = r.charge /\ s.told = known
      /\ s.result = r.result
      /\ s.flow = r.flow /\ s.payment = r.payment /\ s.charged = r.charged
      /\ s.charging = r.charging /\ s.aborted
  BY <1>1, <1>2, <1>4 DEF MountRecords
<1>6. Sound(s)
  BY <1>2, <1>5 DEF Sound, Charging, Framed, phase
<1>7. Follows(r, s)
  BY <1>2, <1>3, <1>5 DEF Follows
<1>. QED
  BY <1>2, <1>5, <1>6, <1>7 DEF Good, Keeps, s

(* The spinner throws while the card is charged.                            *)
LEMMA StrandedForm ==
    ASSUME NEW r \in MountRecords, Sound(r), r.phase \in Charging
    PROVE  LET s == Stranded(r)
           IN  /\ Good(r, s) /\ Keeps(r, s) /\ s.charged = r.charged
               /\ s.phase \in {"over", "lost"}
BY DEF MountRecords, Sound, Framed, Charging, Stranded, Good, Follows, Keeps

(* ... or while its frame is taken down.                                    *)
LEMMA LostForm ==
    ASSUME NEW r \in MountRecords, Sound(r), r.phase \in Framed
    PROVE  LET s == [r EXCEPT !.phase = "lost"]
           IN  Good(r, s) /\ Keeps(r, s) /\ s.charged = r.charged /\ s.phase = "lost"
BY DEF MountRecords, Sound, Framed, Charging, Good, Follows, Keeps

(* A charge ends without its outcome being known.                           *)
LEMMA RejectedForm ==
    ASSUME NEW r \in MountRecords, Sound(r), r.phase \in Charging, NEW events \in 0 .. 2
    PROVE  LET s == Rejection(r, events)
           IN  Good(r, s) /\ Keeps(r, s) /\ s.charged = r.charged /\ s.phase = "over"
<1>1. CASE events = 0 \/ r.result # "pending"
  <2>1. Told(r, events) = r
    BY <1>1 DEF Told, Unmounted
  <2>. QED
    BY <1>1, <2>1 DEF MountRecords, Sound, Framed, Charging, Holding, Settled, Rejection,
        Good, Follows, Keeps
<1>2. CASE events # 0 /\ r.result = "pending"
  <2>. DEFINE u == Unmounted(r, events)
  <2>1. Told(r, events) = u
    BY <1>2 DEF Told
  <2>2. Good(r, u) /\ Keeps(r, u) /\ u.charged = r.charged /\ u.result = "unmounted"
    <3>1. events \in 1 .. 2 /\ r.phase \in Framed \cup Charging \cup {"lost"}
      BY <1>2
    <3>. QED
      BY <1>2, <3>1, UnmountedForm
  <2>3. Settled(u, "error") = u
    BY <2>2 DEF Settled
  <2>. HIDE DEF u
  <2>. QED
    BY <2>1, <2>2, <2>3 DEF MountRecords, Sound, Framed, Charging, Holding, Rejection,
        Good, Follows, Keeps
<1>. QED
  BY <1>1, <1>2

(* A charge ends with its outcome.                                          *)
LEMMA EndedForm ==
    ASSUME NEW r \in MountRecords, Sound(r), r.phase = "polling", NEW events \in 0 .. 2,
           r.charge \in {"succeeded", "failed"}
    PROVE  LET known == [r EXCEPT !.charging = FALSE]
               s == [Settled(Told(known, events), known.charge) EXCEPT !.phase = "over"]
           IN  Good(r, s) /\ Keeps(r, s) /\ s.charged = r.charged /\ s.phase = "over"
<1>. DEFINE known == [r EXCEPT !.charging = FALSE]
<1>1. /\ known \in MountRecords /\ ~known.charging /\ known.phase = "polling"
      /\ known.result = r.result /\ known.charge = r.charge /\ known.told = r.told
      /\ known.aborted = r.aborted /\ Keeps(r, known) /\ known.charged = r.charged
  BY DEF MountRecords, Keeps
<1>. HIDE DEF known
<1>. SUFFICES LET s == [Settled(Told(known, events), known.charge) EXCEPT !.phase = "over"]
              IN  Good(r, s) /\ Keeps(r, s) /\ s.charged = r.charged /\ s.phase = "over"
  BY DEF known
<1>2. CASE events = 0 \/ r.result # "pending"
  <2>1. Told(known, events) = known
    BY <1>1, <1>2 DEF Told, Unmounted
  <2>2. CASE r.result = "pending"
    <3>. DEFINE s == [known EXCEPT !.result = known.charge, !.phase = "over"]
    <3>1. s = [Settled(Told(known, events), known.charge) EXCEPT !.phase = "over"]
      BY <1>1, <2>1, <2>2 DEF Settled
    <3>2. /\ s \in MountRecords /\ s.phase = "over" /\ s.result = r.charge
          /\ s.charge = r.charge /\ s.told = r.told /\ s.aborted = known.aborted
          /\ s.flow = known.flow /\ s.payment = known.payment /\ s.charged = known.charged
      BY <1>1 DEF MountRecords
    <3>. HIDE DEF s
    <3>3. Sound(s) /\ Follows(r, s)
      BY <1>1, <2>2, <3>2 DEF Sound, Follows, Framed, Charging
    <3>. QED
      BY <1>1, <3>1, <3>2, <3>3 DEF Good, Keeps
  <2>3. CASE r.result # "pending"
    <3>. DEFINE s == [known EXCEPT !.phase = "over"]
    <3>1. s = [Settled(Told(known, events), known.charge) EXCEPT !.phase = "over"]
      BY <1>1, <2>1, <2>3 DEF Settled
    <3>2. /\ s \in MountRecords /\ s.phase = "over" /\ s.result = r.result
          /\ s.charge = r.charge /\ s.told = r.told /\ s.aborted = known.aborted
          /\ s.flow = known.flow /\ s.payment = known.payment /\ s.charged = known.charged
      BY <1>1 DEF MountRecords
    <3>. HIDE DEF s
    <3>3. Sound(s) /\ Follows(r, s)
      BY <1>1, <3>2 DEF Sound, Follows, Framed, Charging
    <3>. QED
      BY <1>1, <3>1, <3>2, <3>3 DEF Good, Keeps
  <2>. QED
    BY <2>2, <2>3
<1>3. CASE events # 0 /\ r.result = "pending"
  <2>. DEFINE count == IF known.events = 0 THEN events ELSE 2
  <2>1. Told(known, events) =
            [known EXCEPT !.aborted = TRUE, !.told = "known", !.events = count,
                          !.result = "unmounted", !.phase = "polling"]
    BY <1>1, <1>3 DEF Told, Unmounted, Charging
  <2>2. count \in 0 .. 2
    OBVIOUS
  <2>. HIDE DEF count
  <2>. QED
    BY <1>1, <1>3, <2>1, <2>2 DEF MountRecords, Sound, Framed, Charging, Holding, Settled,
        Good, Follows, Keeps
<1>. QED
  BY <1>2, <1>3

-----------------------------------------------------------------------------
(* Steps of one form, and of the session.                                   *)

(* What becomes of the session in a step that supersedes it.                *)
LEMMA SupersedeStep ==
    ASSUME IInv, NEW exchange \in BOOLEAN, Supersede(exchange)
    PROVE  /\ attempt' \in Payments
           /\ exchanging' \subseteq 1 .. attempt'
           /\ paymentsApi' = 0
           /\ AttachedIsLatest'
           /\ ~exchange => attempt' \notin exchanging'
BY AttemptsAssumption DEF IInv, TypeOK, Supersede, Payments, AttachedIsLatest

(* A form that stays mounted, or leaves the session to others, keeps the    *)
(* invariant; the session may be superseded once no form is mounted.        *)
LEMMA FormStep ==
    ASSUME IInv, NEW m \in Mounts, NEW s,
           mounts' = [mounts EXCEPT ![m] = s],
           Good(mounts[m], s), Keeps(mounts[m], s),
           s.charged \in {0, s.payment},
           s.phase \in Holding => mounts[m].phase \in Holding,
           active' = IF s.phase \notin Holding /\ active = m THEN 0 ELSE active,
           url' \in Urls,
           \/ UNCHANGED session
           \/ /\ active' = 0
              /\ \E exchange \in BOOLEAN : Supersede(exchange)
    PROVE  IInv'
<1>1. /\ mounts' \in [Mounts -> MountRecords]
      /\ mounts'[m] = s
      /\ \A n \in Mounts \ {m} : mounts'[n] = mounts[n]
  BY DEF IInv, TypeOK, Good
<1>2. /\ attempt' \in Payments
      /\ exchanging' \subseteq 1 .. attempt'
      /\ paymentsApi' \in 0 .. attempt'
      /\ AttachedIsLatest'
  <2>1. CASE UNCHANGED session
    BY <2>1 DEF IInv, TypeOK, session, AttachedIsLatest
  <2>2. CASE \E exchange \in BOOLEAN : Supersede(exchange)
    BY <2>2, SupersedeStep DEF Payments
  <2>. QED
    BY <2>1, <2>2
<1>3. active' \in 0 .. MaxMounts
  BY MountsAssumption DEF IInv, TypeOK
<1>4. SessionOwned'
  <2>1. \A n \in Mounts : active = n <=> mounts[n].phase \in Holding
    BY DEF IInv, SessionOwned, Holding
  <2>2. m # 0
    BY DEF Mounts
  <2>3. \A n \in Mounts : active' = n <=> mounts'[n].phase \in Holding
    BY <1>1, <2>1, <2>2 DEF Mounts
  <2>. QED
    BY <2>3 DEF SessionOwned, Holding
<1>5. FormHoldsPayment'
  <2>1. CASE UNCHANGED session
    <3>. SUFFICES ASSUME NEW n \in Mounts, mounts'[n].phase \in Holding,
                         mounts'[n].flow = "charge"
                  PROVE  paymentsApi' \in {0, mounts'[n].payment} /\ attempt' \notin exchanging'
      BY DEF FormHoldsPayment
    <3>1. /\ mounts[n].phase \in Holding /\ mounts[n].flow = "charge"
          /\ mounts'[n].payment = mounts[n].payment
      BY <1>1 DEF Keeps
    <3>. QED
      BY <2>1, <3>1 DEF IInv, FormHoldsPayment, session
  <2>2. CASE active' = 0
    BY <1>4, <2>2 DEF SessionOwned, FormHoldsPayment, Mounts, Holding
  <2>. QED
    BY <2>1, <2>2
<1>6. ChargesMounted'
  BY <1>1 DEF IInv, ChargesMounted
<1>7. AllSound'
  BY <1>1 DEF IInv, AllSound, Good
<1>. QED
  BY <1>1, <1>2, <1>3, <1>4, <1>5, <1>6, <1>7 DEF IInv, TypeOK

(* ... and takes a step of ChargeFlow, or none.                             *)
LEMMA FlowStep ==
    ASSUME TypeOK, NEW m \in Mounts, NEW s,
           mounts' = [mounts EXCEPT ![m] = s],
           s \in MountRecords, Follows(mounts[m], s)
    PROVE  [Flow!Next]_(Flow!vars)
<1>. DEFINE r == mounts[m]
            charge == [n \in Mounts |-> mounts[n].charge]
            result == [n \in Mounts |-> mounts[n].result]
            told == [n \in Mounts |-> mounts[n].told]
<1>1. /\ mounts'[m] = s
      /\ \A n \in Mounts \ {m} : mounts'[n] = mounts[n]
  BY DEF TypeOK
<1>2. /\ charge' = [charge EXCEPT ![m] = s.charge]
      /\ result' = [result EXCEPT ![m] = s.result]
      /\ told' = [told EXCEPT ![m] = s.told]
  <2>1. charge' = [n \in Mounts |-> IF n = m THEN s.charge ELSE mounts[n].charge]
    BY <1>1
  <2>2. result' = [n \in Mounts |-> IF n = m THEN s.result ELSE mounts[n].result]
    BY <1>1
  <2>3. told' = [n \in Mounts |-> IF n = m THEN s.told ELSE mounts[n].told]
    BY <1>1
  <2>4. [charge EXCEPT ![m] = s.charge] =
            [n \in Mounts |-> IF n = m THEN s.charge ELSE mounts[n].charge]
    OBVIOUS
  <2>5. [result EXCEPT ![m] = s.result] =
            [n \in Mounts |-> IF n = m THEN s.result ELSE mounts[n].result]
    OBVIOUS
  <2>6. [told EXCEPT ![m] = s.told] =
            [n \in Mounts |-> IF n = m THEN s.told ELSE mounts[n].told]
    OBVIOUS
  <2>. QED
    BY <2>1, <2>2, <2>3, <2>4, <2>5, <2>6
<1>3. charge[m] = r.charge /\ result[m] = r.result /\ told[m] = r.told
  OBVIOUS
<1>4. /\ s.charge = r.charge => charge' = charge
      /\ s.result = r.result => result' = result
      /\ s.told = r.told => told' = told
  BY <1>1
<1>. HIDE DEF charge, result, told
<1>5. CASE s.charge = r.charge /\ s.result = r.result /\ s.told = r.told
  BY <1>4, <1>5 DEF Flow!vars, charge, result, told
<1>6. CASE /\ r.result = "pending" /\ r.charge = "none" /\ r.told = "none"
           /\ s.charge = "sent" /\ s.result = r.result /\ s.told = r.told
  <2>1. Flow!Send(m)
    BY <1>2, <1>3, <1>4, <1>6 DEF Flow!Send, charge, result, told
  <2>. QED
    BY <2>1 DEF Flow!Next
<1>7. CASE /\ \/ r.charge = "sent" /\ s.charge \in {"open", "refused"}
              \/ r.charge = "open" /\ s.charge \in {"succeeded", "failed"}
           /\ s.result = r.result /\ s.told = r.told
  <2>1. Flow!GoPayMoves(m)
    BY <1>2, <1>3, <1>4, <1>7 DEF Flow!GoPayMoves, Flow!Ended, charge, result, told
  <2>. QED
    BY <2>1 DEF Flow!Next
<1>8. CASE /\ r.result = "pending"
           /\ s.result \in {"payload", "error", "succeeded", "failed"}
           /\ s.result = "payload" => r.charge = "none"
           /\ s.result \in {"succeeded", "failed"} => r.charge = s.result
           /\ s.charge = r.charge /\ s.told = r.told
  <2>1. Flow!Settle(m, s.result)
    BY <1>2, <1>3, <1>4, <1>8 DEF Flow!Settle, Flow!Ended, charge, result, told
  <2>. QED
    BY <1>8, <2>1 DEF Flow!Next, Flow!Ended
<1>9. CASE /\ r.result = "pending"
           /\ s.result \in {"pending", "unmounted"}
           /\ s.told \in {"known", "inFlight"}
           /\ s.told = "known" => r.charge \in {"none", "succeeded", "failed"}
           /\ s.charge = r.charge
  <2>. result' \in {result, [result EXCEPT ![m] = "unmounted"]}
    BY <1>2, <1>3, <1>4, <1>9
  <2>1. CASE s.told = "known"
    <3>1. Flow!GiveUp(m, TRUE)
      BY <1>2, <1>3, <1>4, <1>9, <2>1 DEF Flow!GiveUp, Flow!Ended, charge, result, told
    <3>. QED
      BY <3>1 DEF Flow!Next
  <2>2. CASE s.told = "inFlight"
    <3>1. Flow!GiveUp(m, FALSE)
      BY <1>2, <1>3, <1>4, <1>9, <2>2 DEF Flow!GiveUp, Flow!Ended, charge, result, told
    <3>. QED
      BY <3>1 DEF Flow!Next
  <2>. QED
    BY <1>9, <2>1, <2>2
<1>. QED
  BY <1>5, <1>6, <1>7, <1>8, <1>9 DEF Follows

(* Both, as most steps need them.                                           *)
LEMMA GoodStep ==
    ASSUME IInv, NEW m \in Mounts, NEW s,
           mounts' = [mounts EXCEPT ![m] = s],
           Good(mounts[m], s), Keeps(mounts[m], s),
           s.charged \in {0, s.payment},
           s.phase \in Holding => mounts[m].phase \in Holding,
           active' = IF s.phase \notin Holding /\ active = m THEN 0 ELSE active,
           url' \in Urls,
           \/ UNCHANGED session
           \/ /\ active' = 0
              /\ \E exchange \in BOOLEAN : Supersede(exchange)
    PROVE  IInv' /\ [Flow!Next]_(Flow!vars)
<1>1. IInv'
  BY FormStep
<1>2. TypeOK /\ s \in MountRecords /\ Follows(mounts[m], s)
  BY DEF IInv, Good
<1>3. [Flow!Next]_(Flow!vars)
  BY <1>2, FlowStep
<1>. QED
  BY <1>1, <1>3

-----------------------------------------------------------------------------
(* The actions.                                                             *)

LEMMA SessionSteps ==
    ASSUME IInv,
           \/ Attach \/ Logout
           \/ \E a \in exchanging, granted \in BOOLEAN : AttachEnds(a, granted)
    PROVE  IInv' /\ [Flow!Next]_(Flow!vars)
<1>1. UNCHANGED <<active, url, mounts>>
  BY DEF Attach, Logout, AttachEnds
<1>2. UNCHANGED Flow!vars
  BY <1>1 DEF Flow!vars
<1>3. SessionOwned' /\ ChargesMounted' /\ AllSound'
  BY <1>1 DEF IInv, SessionOwned, ChargesMounted, AllSound
<1>4. CASE Attach
  <2>1. attempt' \in Payments /\ exchanging' \subseteq 1 .. attempt' /\ paymentsApi' = 0
        /\ AttachedIsLatest'
    BY <1>4, SupersedeStep DEF Attach
  <2>2. active' = 0
    BY <1>4 DEF Attach
  <2>3. FormHoldsPayment'
    BY <1>3, <2>2 DEF SessionOwned, FormHoldsPayment, Mounts, Holding
  <2>. QED
    BY <1>1, <1>2, <1>3, <2>1, <2>3 DEF IInv, TypeOK, Payments
<1>5. CASE Logout
  <2>1. attempt' \in Payments /\ exchanging' \subseteq 1 .. attempt' /\ paymentsApi' = 0
        /\ AttachedIsLatest' /\ attempt' \notin exchanging'
    BY <1>5, SupersedeStep DEF Logout
  <2>2. FormHoldsPayment'
    BY <2>1 DEF FormHoldsPayment
  <2>. QED
    BY <1>1, <1>2, <1>3, <2>1, <2>2 DEF IInv, TypeOK, Payments
<1>6. CASE \E a \in exchanging, granted \in BOOLEAN : AttachEnds(a, granted)
  <2>. PICK a \in exchanging, granted \in BOOLEAN : AttachEnds(a, granted)
    BY <1>6
  <2>1. attempt' = attempt /\ exchanging' = exchanging \ {a}
        /\ paymentsApi' = IF granted /\ a = attempt THEN a ELSE paymentsApi
    BY DEF AttachEnds
  <2>2. FormHoldsPayment'
    BY <1>1, <2>1 DEF IInv, FormHoldsPayment
  <2>. QED
    BY <1>1, <1>2, <1>3, <2>1, <2>2 DEF IInv, TypeOK, Payments, AttachedIsLatest
<1>. QED
  BY <1>4, <1>5, <1>6

(* The form that is mounted takes the session, and finds its payment in it. *)
LEMMA MountStep ==
    ASSUME IInv, NEW m \in Mounts, NEW flow \in {"charge", "payload"}, Mount(m, flow)
    PROVE  IInv' /\ [Flow!Next]_(Flow!vars)
<1>. PICK s \in {Fetching(mounts[m], flow), Abandoned(Fetching(mounts[m], flow))} :
         mounts' = [mounts EXCEPT ![m] = s]
  BY DEF Mount
<1>1. /\ mounts[m].phase = "unused" /\ active = 0 /\ active' = m
      /\ flow = "charge" => paymentsApi # 0
      /\ UNCHANGED <<session, url>>
  BY DEF Mount
<1>2. mounts[m] \in MountRecords /\ Sound(mounts[m])
      /\ mounts[m].charged = 0
  BY <1>1 DEF IInv, TypeOK, AllSound, Sound
<1>3. paymentsApi \in Payments
  BY AttemptsAssumption DEF IInv, TypeOK, Payments
<1>4. /\ s \in MountRecords
      /\ s.phase \in {"fetching", "abandoned"} /\ s.flow = flow /\ s.payment = paymentsApi
      /\ s.charged = mounts[m].charged /\ s.charge = mounts[m].charge
      /\ s.result \in {mounts[m].result, "error"} /\ s.told = mounts[m].told
      /\ s.phase = "fetching" => s.result = mounts[m].result
      /\ s.charging = mounts[m].charging /\ s.aborted = mounts[m].aborted
  BY <1>2, <1>3 DEF MountRecords, Fetching, Abandoned
<1>5. [Flow!Next]_(Flow!vars)
  <2>1. Follows(mounts[m], s)
    BY <1>1, <1>2, <1>4 DEF Follows, Sound
  <2>. QED
    BY <1>4, <2>1, FlowStep DEF IInv
<1>6. /\ mounts' \in [Mounts -> MountRecords] /\ mounts'[m] = s
      /\ \A n \in Mounts \ {m} : mounts'[n] = mounts[n]
  BY <1>4 DEF IInv, TypeOK
<1>7. TypeOK' /\ AttachedIsLatest'
  BY <1>1, <1>6, MountsAssumption DEF IInv, TypeOK, session, Mounts, AttachedIsLatest
<1>8. SessionOwned'
  BY <1>1, <1>4, <1>6 DEF IInv, SessionOwned, Mounts, Holding
<1>9. FormHoldsPayment'
  <2>1. \A n \in Mounts : mounts'[n].phase \in Holding => n = m
    BY <1>1, <1>8 DEF SessionOwned, Holding
  <2>. QED
    BY <1>1, <1>4, <1>6, <2>1 DEF IInv, FormHoldsPayment, AttachedIsLatest, session
<1>10. ChargesMounted'
  BY <1>2, <1>4, <1>6 DEF IInv, ChargesMounted
<1>11. AllSound'
  BY <1>1, <1>2, <1>4, <1>6 DEF IInv, AllSound, Sound, Holding, Charging, Framed
<1>. QED
  BY <1>5, <1>7, <1>8, <1>9, <1>10, <1>11 DEF IInv

(* What the invariant says of one form.                                     *)
LEMMA FormFacts ==
    ASSUME IInv, NEW m \in Mounts
    PROVE  /\ mounts[m] \in MountRecords /\ Sound(mounts[m])
           /\ mounts[m].charged \in {0, mounts[m].payment}
           /\ active = m <=> mounts[m].phase \in Holding
           /\ url \in Urls
BY DEF IInv, TypeOK, AllSound, ChargesMounted, SessionOwned, Holding

(* A step that leaves the session and who is mounted alone.                 *)
LEMMA QuietStep ==
    ASSUME IInv, NEW m \in Mounts, NEW s, Becomes(m, s),
           Good(mounts[m], s), Keeps(mounts[m], s), s.charged = mounts[m].charged,
           s.phase \in Holding <=> mounts[m].phase \in Holding
    PROVE  IInv' /\ [Flow!Next]_(Flow!vars)
<1>1. /\ mounts' = [mounts EXCEPT ![m] = s] /\ UNCHANGED session
      /\ active' = active /\ url' = url
  BY DEF Becomes
<1>2. /\ s.charged \in {0, s.payment}
      /\ active' = IF s.phase \notin Holding /\ active = m THEN 0 ELSE active
      /\ url' \in Urls
  BY <1>1, FormFacts DEF Keeps
<1>. QED
  BY <1>1, <1>2, GoodStep

(* A step that takes the form down and leaves the session alone.            *)
LEMMA ReleasingStep ==
    ASSUME IInv, NEW m \in Mounts, NEW s,
           mounts' = [mounts EXCEPT ![m] = s], ReleaseSession(m),
           Good(mounts[m], s), Keeps(mounts[m], s), s.charged = mounts[m].charged,
           s.phase \notin Holding, UNCHANGED session,
           url' \in Urls
    PROVE  IInv' /\ [Flow!Next]_(Flow!vars)
<1>1. /\ s.charged \in {0, s.payment}
      /\ active' = IF s.phase \notin Holding /\ active = m THEN 0 ELSE active
  BY FormFacts DEF Keeps, ReleaseSession
<1>. QED
  BY <1>1, GoodStep

LEMMA MountFailsStep ==
    ASSUME IInv, NEW m \in Mounts, mounts[m].phase = "fetching", MountFails(m),
           UNCHANGED session, url' \in Urls
    PROVE  IInv' /\ [Flow!Next]_(Flow!vars)
<1>. DEFINE s == [mounts[m] EXCEPT !.phase = "over", !.result = "error"]
<1>1. mounts' = [mounts EXCEPT ![m] = s] /\ ReleaseSession(m)
  BY DEF MountFails, IInv, TypeOK
<1>2. Good(mounts[m], s) /\ Keeps(mounts[m], s) /\ s.charged = mounts[m].charged
      /\ s.phase \notin Holding
  <2>. DEFINE r == mounts[m]
  <2>1. /\ r \in MountRecords /\ r.phase = "fetching" /\ r.result = "pending"
        /\ r.told = "none"
    BY FormFacts DEF Sound
  <2>2. /\ s.phase = "over" /\ s.result = "error" /\ s.charge = r.charge
        /\ s.told = r.told /\ s.flow = r.flow /\ s.payment = r.payment
        /\ s.charged = r.charged /\ s \in MountRecords
    BY <2>1 DEF MountRecords
  <2>. HIDE DEF s, r
  <2>3. Sound(s) /\ Follows(r, s)
    BY <2>1, <2>2 DEF Sound, Follows, Holding, Framed, Charging
  <2>4. s.phase \notin Holding
    BY <2>2 DEF Holding, Framed
  <2>. QED
    BY <2>2, <2>3, <2>4 DEF Good, Keeps, r
<1>. HIDE DEF s
<1>. QED
  BY <1>1, <1>2, ReleasingStep

(* A mount that is abandoned keeps the session it holds.                    *)
LEMMA AbandonedForm ==
    ASSUME NEW r \in MountRecords, Sound(r), r.phase = "fetching"
    PROVE  LET s == Abandoned(r)
           IN  Good(r, s) /\ Keeps(r, s) /\ s.charged = r.charged /\ s.phase = "abandoned"
<1>. DEFINE s == Abandoned(r)
<1>1. /\ s \in MountRecords /\ s.phase = "abandoned" /\ s.result = "error"
      /\ s.charge = r.charge /\ s.told = r.told /\ s.flow = r.flow
      /\ s.payment = r.payment /\ s.charged = r.charged /\ s.aborted = r.aborted
  BY DEF Abandoned, MountRecords
<1>. HIDE DEF s
<1>2. Sound(s) /\ Follows(r, s)
  BY <1>1 DEF Sound, Follows, Framed, Charging
<1>. QED
  BY <1>1, <1>2 DEF Good, Keeps, s

LEMMA UrlSteps ==
    ASSUME IInv, NEW m \in Mounts, UrlAnswered(m)
    PROVE  IInv' /\ [Flow!Next]_(Flow!vars)
<1>1. mounts[m].phase = "fetching" /\ UNCHANGED session
      /\ mounts[m] \in MountRecords /\ Sound(mounts[m])
  BY FormFacts DEF UrlAnswered, UrlArrives, UrlFails
<1>2. url' \in Urls
  BY FormFacts DEF UrlAnswered, UrlArrives, UrlFails, Urls
<1>3. ASSUME NEW s, mounts' = [mounts EXCEPT ![m] = s], UNCHANGED active,
             Good(mounts[m], s), Keeps(mounts[m], s), s.charged = mounts[m].charged,
             s.phase \in {"loading", "abandoned"}
      PROVE  IInv' /\ [Flow!Next]_(Flow!vars)
  <2>1. s.phase \in Holding /\ mounts[m].phase \in Holding
    BY <1>1, <1>3 DEF Holding, Framed
  <2>2. s.charged \in {0, s.payment}
    BY <1>3, FormFacts DEF Keeps
  <2>. QED
    BY <1>1, <1>2, <1>3, <2>1, <2>2, GoodStep
<1>4. CASE mounts' = [mounts EXCEPT ![m].phase = "loading"] /\ UNCHANGED active
  <2>. DEFINE s == [mounts[m] EXCEPT !.phase = "loading"]
  <2>1. mounts' = [mounts EXCEPT ![m] = s]
    BY <1>4 DEF IInv, TypeOK
  <2>2. Good(mounts[m], s) /\ Keeps(mounts[m], s) /\ s.charged = mounts[m].charged
        /\ s.phase = "loading"
    BY <1>1 DEF Good, Keeps, MountRecords, Sound, Follows, Framed, Charging
  <2>. HIDE DEF s
  <2>. QED
    BY <1>3, <1>4, <2>1, <2>2
<1>5. CASE mounts' = [mounts EXCEPT ![m] = Abandoned(@)] /\ UNCHANGED active
  <2>. DEFINE s == Abandoned(mounts[m])
  <2>1. mounts' = [mounts EXCEPT ![m] = s]
    BY <1>5 DEF IInv, TypeOK
  <2>2. Good(mounts[m], s) /\ Keeps(mounts[m], s) /\ s.charged = mounts[m].charged
        /\ s.phase = "abandoned"
    BY <1>1, AbandonedForm
  <2>. HIDE DEF s
  <2>. QED
    BY <1>3, <1>5, <2>1, <2>2
<1>6. CASE MountFails(m)
  BY <1>1, <1>2, <1>6, MountFailsStep
<1>. QED
  BY <1>4, <1>5, <1>6 DEF UrlAnswered, UrlArrives, UrlFails

LEMMA FormFailsStep ==
    ASSUME IInv, NEW m \in Mounts, NEW events \in 0 .. 2,
           LoadFails(m, events) \/ EncryptError(m, events)
    PROVE  IInv' /\ [Flow!Next]_(Flow!vars)
<1>1. FormFails(m, events) /\ mounts[m].phase \in Framed
  BY DEF LoadFails, EncryptError, Framed
<1>2. ReleaseSession(m) /\ UNCHANGED <<session, url>>
  BY <1>1 DEF FormFails
<1>3. url' \in Urls /\ "over" \notin Holding /\ "lost" \notin Holding
  BY <1>2, FormFacts DEF Holding, Framed
<1>4. CASE mounts' = [mounts EXCEPT
               ![m] = [Settled(Told(@, events), "error") EXCEPT !.phase = "over"]]
  <2>. DEFINE s == [Settled(Told(mounts[m], events), "error") EXCEPT !.phase = "over"]
  <2>1. mounts' = [mounts EXCEPT ![m] = s]
    BY <1>4 DEF IInv, TypeOK
  <2>2. Good(mounts[m], s) /\ Keeps(mounts[m], s) /\ s.charged = mounts[m].charged
        /\ s.phase = "over"
    BY <1>1, FormFacts, FailingForm
  <2>. HIDE DEF s
  <2>. QED
    BY <1>2, <1>3, <2>1, <2>2, ReleasingStep
<1>5. CASE mounts' = [mounts EXCEPT ![m].phase = "lost"]
  <2>. DEFINE s == [mounts[m] EXCEPT !.phase = "lost"]
  <2>1. mounts' = [mounts EXCEPT ![m] = s]
    BY <1>5 DEF IInv, TypeOK
  <2>2. Good(mounts[m], s) /\ Keeps(mounts[m], s) /\ s.charged = mounts[m].charged
        /\ s.phase = "lost"
    BY <1>1, FormFacts, LostForm
  <2>. HIDE DEF s
  <2>. QED
    BY <1>2, <1>3, <2>1, <2>2, ReleasingStep
<1>. QED
  BY <1>1, <1>4, <1>5 DEF FormFails

LEMMA LoadedStep ==
    ASSUME IInv, NEW m \in Mounts, Loaded(m)
    PROVE  IInv' /\ [Flow!Next]_(Flow!vars)
<1>. PICK phase \in {"shown", "stalled"} : mounts' = [mounts EXCEPT ![m].phase = phase]
  BY DEF Loaded
<1>. DEFINE s == [mounts[m] EXCEPT !.phase = phase]
<1>1. mounts[m].phase = "loading" /\ Becomes(m, s)
  BY DEF Loaded, Becomes, IInv, TypeOK
<1>2. Good(mounts[m], s) /\ Keeps(mounts[m], s) /\ s.charged = mounts[m].charged
      /\ s.phase \in Holding /\ mounts[m].phase \in Holding
  BY <1>1, FormFacts DEF Good, Keeps, MountRecords, Sound, Follows, Holding, Framed,
     Charging
<1>. HIDE DEF s
<1>. QED
  BY <1>1, <1>2, QuietStep

(* The card is charged to the payment the form was mounted for, or to none: *)
(* the callback before can only have taken it away.                         *)
LEMMA EncryptedStep ==
    ASSUME IInv, NEW m \in Mounts, NEW events \in 0 .. 2, Encrypted(m, events)
    PROVE  IInv' /\ [Flow!Next]_(Flow!vars)
<1>. PICK s \in Handled(Told(mounts[m], events), paymentsApi') :
         mounts' = [mounts EXCEPT ![m] = s]
  BY DEF Encrypted
<1>1. /\ ReleaseSession(m)
      /\ url' = url /\ mounts[m].phase \in Framed
      /\ UNCHANGED session \/ \E exchange \in BOOLEAN : Supersede(exchange)
  BY DEF Encrypted, Framed
<1>2. /\ mounts[m].flow = "charge" => paymentsApi' \in {0, mounts[m].payment}
      /\ paymentsApi' \in Payments
  <2>1. paymentsApi \in Payments /\ 0 \in Payments
    BY AttemptsAssumption DEF IInv, TypeOK, Payments
  <2>2. paymentsApi' \in {0, paymentsApi}
    BY <1>1 DEF session, Supersede
  <2>3. mounts[m].flow = "charge" => paymentsApi \in {0, mounts[m].payment}
    BY <1>1 DEF IInv, FormHoldsPayment, Holding
  <2>. QED
    BY <2>1, <2>2, <2>3
<1>3. /\ Good(mounts[m], s) /\ Keeps(mounts[m], s) /\ s.phase \in {"over", "lost", "preparing"}
      /\ \/ s.charged = mounts[m].charged
         \/ mounts[m].flow = "charge" /\ s.charged = paymentsApi'
  BY <1>1, <1>2, FormFacts, HandledForm
<1>4. s.charged \in {0, s.payment}
  BY <1>2, <1>3, FormFacts DEF Keeps
<1>5. /\ active = m /\ active' = 0 /\ s.phase \notin Holding
      /\ url' \in Urls
  BY <1>1, <1>3, FormFacts DEF ReleaseSession, Holding, Framed
<1>. QED
  BY <1>1, <1>3, <1>4, <1>5, GoodStep

(* A charge comes to nothing, with its rejection or without.                *)
LEMMA StrandedStep ==
    ASSUME IInv, NEW m \in Mounts, mounts[m].phase \in Charging,
           Becomes(m, Stranded(mounts[m]))
    PROVE  IInv' /\ [Flow!Next]_(Flow!vars)
<1>. DEFINE s == Stranded(mounts[m])
<1>1. Good(mounts[m], s) /\ Keeps(mounts[m], s) /\ s.charged = mounts[m].charged
      /\ s.phase \in {"over", "lost"}
  BY FormFacts, StrandedForm
<1>2. s.phase \notin Holding /\ mounts[m].phase \notin Holding
  BY <1>1 DEF Holding, Framed, Charging
<1>. HIDE DEF s
<1>3. Becomes(m, s)
  BY DEF s
<1>. QED
  BY <1>1, <1>2, <1>3, QuietStep

LEMMA RejectsStep ==
    ASSUME IInv, NEW m \in Mounts, mounts[m].phase \in Charging,
           NEW events \in 0 .. 2, Rejects(m, events)
    PROVE  IInv' /\ [Flow!Next]_(Flow!vars)
<1>1. CASE Becomes(m, Rejection(mounts[m], events))
  <2>. DEFINE s == Rejection(mounts[m], events)
  <2>1. Good(mounts[m], s) /\ Keeps(mounts[m], s) /\ s.charged = mounts[m].charged
        /\ s.phase = "over"
    BY FormFacts, RejectedForm
  <2>2. s.phase \notin Holding /\ mounts[m].phase \notin Holding
    BY <2>1 DEF Holding, Framed, Charging
  <2>. HIDE DEF s
  <2>3. Becomes(m, s)
    BY <1>1 DEF s
  <2>. QED
    BY <2>1, <2>2, <2>3, QuietStep
<1>2. CASE Becomes(m, Stranded(mounts[m]))
  BY <1>2, StrandedStep
<1>. QED
  BY <1>1, <1>2 DEF Rejects

LEMMA ChargeSteps ==
    ASSUME IInv, NEW m \in Mounts,
           RequestEnds(m) \/ GoPayMoves(m) \/ AbortStops(m) \/ PageRestored(m)
    PROVE  IInv' /\ [Flow!Next]_(Flow!vars)
<1>. DEFINE r == mounts[m]
<1>1. r \in MountRecords /\ Sound(r)
  BY FormFacts
<1>2. CASE Send(m)
  <2>. DEFINE s == [r EXCEPT !.phase = "posting", !.charge = "sent"]
  <2>1. r.phase = "preparing" /\ ~r.aborted /\ Becomes(m, s)
    BY <1>2 DEF Send
  <2>2. Good(r, s) /\ Keeps(r, s) /\ s.charged = r.charged /\ s.phase = "posting"
    BY <1>1, <2>1 DEF Good, Keeps, MountRecords, Sound, Follows, Holding, Framed, Charging
  <2>3. s.phase \notin Holding /\ r.phase \notin Holding
    BY <2>1, <2>2 DEF Holding, Framed
  <2>. HIDE DEF s
  <2>. QED
    BY <2>1, <2>2, <2>3, QuietStep
<1>3. CASE Accepted(m)
  <2>. DEFINE s == [r EXCEPT !.phase = "polling"]
  <2>1. r.phase = "posting" /\ ~r.aborted /\ Becomes(m, s)
    BY <1>3 DEF Accepted
  <2>2. Good(r, s) /\ Keeps(r, s) /\ s.charged = r.charged /\ s.phase = "polling"
    BY <1>1, <2>1 DEF Good, Keeps, MountRecords, Sound, Follows, Holding, Framed, Charging
  <2>3. s.phase \notin Holding /\ r.phase \notin Holding
    BY <2>1, <2>2 DEF Holding, Framed
  <2>. HIDE DEF s
  <2>. QED
    BY <2>1, <2>2, <2>3, QuietStep
<1>4. CASE \E events \in 0 .. 2 : RequestFails(m, events)
  BY <1>4, RejectsStep DEF RequestFails, Charging
<1>5. CASE GoPayMoves(m)
  <2>1. PICK c \in {"open", "refused", "succeeded", "failed"} :
            /\ \/ r.charge = "sent" /\ c \in {"open", "refused"}
               \/ r.charge = "open" /\ c \in {"succeeded", "failed"}
            /\ Becomes(m, [r EXCEPT !.charge = c])
    BY <1>5 DEF GoPayMoves
  <2>. DEFINE s == [r EXCEPT !.charge = c]
  <2>2. Good(r, s) /\ Keeps(r, s) /\ s.charged = r.charged /\ s.phase = r.phase
    <3>1. /\ s \in MountRecords /\ s.charge = c /\ s.phase = r.phase
          /\ s.result = r.result /\ s.told = r.told /\ s.charging = r.charging
          /\ s.aborted = r.aborted /\ s.charged = r.charged
          /\ s.flow = r.flow /\ s.payment = r.payment
      BY <1>1, <2>1 DEF MountRecords
    <3>. HIDE DEF s
    <3>2. Follows(r, s)
      BY <2>1, <3>1 DEF Follows
    <3>3. Sound(s)
      BY <1>1, <2>1, <3>1 DEF Sound
    <3>. QED
      BY <3>1, <3>2, <3>3 DEF Good, Keeps
  <2>. HIDE DEF s
  <2>3. Becomes(m, s)
    BY <2>1 DEF s
  <2>. QED
    BY <2>2, <2>3, QuietStep
<1>6. CASE AbortStops(m)
  BY <1>6, StrandedStep DEF AbortStops
<1>7. CASE PageRestored(m)
  <2>. DEFINE s == [r EXCEPT !.deaf = TRUE]
  <2>1. r.phase = "polling" /\ Becomes(m, s)
    BY <1>7 DEF PageRestored
  <2>2. Good(r, s) /\ Keeps(r, s) /\ s.charged = r.charged /\ s.phase = "polling"
    BY <1>1, <2>1 DEF Good, Keeps, MountRecords, Sound, Follows, Holding, Framed, Charging
  <2>. HIDE DEF s
  <2>. QED
    BY <2>1, <2>2, QuietStep
<1>. QED
  BY <1>2, <1>3, <1>4, <1>5, <1>6, <1>7 DEF RequestEnds

LEMMA PollSteps ==
    ASSUME IInv, NEW m \in Mounts, NEW events \in 0 .. 2,
           PollFails(m, events) \/ PollEnds(m, events)
    PROVE  IInv' /\ [Flow!Next]_(Flow!vars)
<1>1. mounts[m] \in MountRecords /\ Sound(mounts[m]) /\ mounts[m].phase = "polling"
  BY FormFacts DEF PollFails, PollEnds
<1>2. "polling" \notin Holding /\ "over" \notin Holding /\ mounts[m].phase \in Charging
  BY <1>1 DEF Holding, Framed, Charging
<1>3. CASE PollFails(m, events)
  BY <1>2, <1>3, RejectsStep DEF PollFails
<1>. DEFINE known == [mounts[m] EXCEPT !.charging = FALSE]
            s == [Settled(Told(known, events), known.charge) EXCEPT !.phase = "over"]
<1>4. CASE Becomes(m, s) /\ mounts[m].charge \in {"succeeded", "failed"}
  <2>1. Good(mounts[m], s) /\ Keeps(mounts[m], s) /\ s.charged = mounts[m].charged
        /\ s.phase = "over"
    BY <1>1, <1>4, EndedForm
  <2>. HIDE DEF s
  <2>. QED
    BY <1>1, <1>2, <1>4, <2>1, QuietStep
<1>5. CASE Becomes(m, Stranded(mounts[m]))
  BY <1>2, <1>5, StrandedStep
<1>. QED
  BY <1>3, <1>4, <1>5 DEF PollEnds

LEMMA UnmountStep ==
    ASSUME IInv, NEW m \in Mounts, NEW events \in 1 .. 2, Unmount(m, events)
    PROVE  IInv' /\ [Flow!Next]_(Flow!vars)
<1>1. /\ ReleaseSession(m) /\ UNCHANGED <<session, url>>
      /\ mounts[m].phase \in Framed \cup Charging \cup {"lost"}
      /\ mounts[m].result = "pending"
  BY DEF Unmount
<1>2. UNCHANGED session /\ url' \in Urls
  BY <1>1, FormFacts
<1>3. "over" \notin Holding /\ "lost" \notin Holding
      /\ \A phase \in Charging : phase \notin Holding
  BY DEF Holding, Framed, Charging
<1>4. CASE mounts' = [mounts EXCEPT ![m] = Unmounted(@, events)]
  <2>. DEFINE s == Unmounted(mounts[m], events)
  <2>1. mounts' = [mounts EXCEPT ![m] = s]
    BY <1>4 DEF IInv, TypeOK
  <2>2. /\ Good(mounts[m], s) /\ Keeps(mounts[m], s) /\ s.charged = mounts[m].charged
        /\ s.phase = (IF mounts[m].phase \in Charging THEN mounts[m].phase ELSE "over")
    BY <1>1, FormFacts, UnmountedForm
  <2>. HIDE DEF s
  <2>3. s.phase \notin Holding
    BY <1>3, <2>2
  <2>. QED
    BY <1>1, <1>2, <2>1, <2>2, <2>3, ReleasingStep
<1>5. CASE mounts' = [mounts EXCEPT ![m] = HalfUnmounted(@)]
  <2>. DEFINE s == HalfUnmounted(mounts[m])
  <2>1. mounts' = [mounts EXCEPT ![m] = s]
    BY <1>5 DEF IInv, TypeOK
  <2>2. /\ Good(mounts[m], s) /\ Keeps(mounts[m], s) /\ s.charged = mounts[m].charged
        /\ s.phase \in Charging \cup {"lost"}
    BY <1>1, FormFacts, HalfUnmountedForm
  <2>. HIDE DEF s
  <2>3. s.phase \notin Holding
    BY <1>3, <2>2
  <2>. QED
    BY <1>1, <1>2, <2>1, <2>2, <2>3, ReleasingStep
<1>. QED
  BY <1>4, <1>5 DEF Unmount

-----------------------------------------------------------------------------
(* The theorems.                                                            *)

LEMMA InitIInv == Init => IInv /\ Flow!Init
<1>. SUFFICES ASSUME Init PROVE IInv /\ Flow!Init
  OBVIOUS
<1>1. Unused \in MountRecords /\ Sound(Unused) /\ Unused.phase = "unused"
      /\ Unused.charged = 0 /\ Unused.charge = "none" /\ Unused.result = "pending"
      /\ Unused.told = "none"
  BY AttemptsAssumption DEF Unused, MountRecords, Payments, Sound, Holding, Framed,
     Charging
<1>2. \A m \in Mounts : mounts[m] = Unused
  BY DEF Init
<1>3. TypeOK
  BY <1>1, MountsAssumption, AttemptsAssumption DEF Init, TypeOK, Payments, Urls
<1>4. SessionOwned /\ AttachedIsLatest /\ FormHoldsPayment /\ ChargesMounted /\ AllSound
  BY <1>1, <1>2 DEF Init, SessionOwned, AttachedIsLatest, FormHoldsPayment,
     ChargesMounted, AllSound, Holding, Framed, Mounts
<1>5. Flow!Init
  BY <1>1, <1>2 DEF Flow!Init
<1>. QED
  BY <1>3, <1>4, <1>5 DEF IInv

LEMMA NextIInv == IInv /\ [Next]_vars => IInv' /\ [Flow!Next]_(Flow!vars)
<1>. SUFFICES ASSUME IInv, [Next]_vars PROVE IInv' /\ [Flow!Next]_(Flow!vars)
  OBVIOUS
<1>1. CASE \/ Attach \/ Logout
           \/ \E a \in exchanging, granted \in BOOLEAN : AttachEnds(a, granted)
  BY <1>1, SessionSteps
<1>2. ASSUME NEW m \in Mounts,
             \/ \E flow \in {"charge", "payload"} : Mount(m, flow)
             \/ UrlAnswered(m) \/ LoadEnds(m) \/ RequestEnds(m)
             \/ GoPayMoves(m) \/ AbortStops(m) \/ PageRestored(m)
             \/ \E events \in 0 .. 2 :
                 \/ EncryptError(m, events) \/ Encrypted(m, events)
                 \/ PollFails(m, events) \/ PollEnds(m, events)
             \/ \E events \in 1 .. 2 : Unmount(m, events)
      PROVE  IInv' /\ [Flow!Next]_(Flow!vars)
  <2>1. CASE \E flow \in {"charge", "payload"} : Mount(m, flow)
    BY <2>1, MountStep
  <2>2. CASE UrlAnswered(m)
    BY <2>2, UrlSteps
  <2>3. CASE LoadEnds(m)
    BY <2>3, LoadedStep, FormFailsStep DEF LoadEnds
  <2>4. CASE RequestEnds(m) \/ GoPayMoves(m) \/ AbortStops(m) \/ PageRestored(m)
    BY <2>4, ChargeSteps
  <2>5. CASE \E events \in 0 .. 2 : EncryptError(m, events)
    BY <2>5, FormFailsStep
  <2>6. CASE \E events \in 0 .. 2 : Encrypted(m, events)
    BY <2>6, EncryptedStep
  <2>7. CASE \E events \in 0 .. 2 : PollFails(m, events) \/ PollEnds(m, events)
    BY <2>7, PollSteps
  <2>8. CASE \E events \in 1 .. 2 : Unmount(m, events)
    BY <2>8, UnmountStep
  <2>. QED
    BY <1>2, <2>1, <2>2, <2>3, <2>4, <2>5, <2>6, <2>7, <2>8
<1>3. CASE UNCHANGED vars
  <2>1. UNCHANGED Flow!vars
    BY <1>3 DEF vars, Flow!vars
  <2>2. IInv'
    BY <1>3 DEF vars, IInv, TypeOK, SessionOwned, AttachedIsLatest, FormHoldsPayment,
        ChargesMounted, AllSound
  <2>. QED
    BY <2>1, <2>2
<1>. QED
  BY <1>1, <1>2, <1>3 DEF Next

(* The parts of the state are what the model says they are.                 *)
THEOREM TypeCorrect == Spec => []TypeOK
<1>1. IInv => TypeOK
  BY DEF IInv
<1>. QED
  BY <1>1, InitIInv, NextIInv, PTL DEF Spec

(* cards.module.ts:157-163: the session is that of the form whose frame is  *)
(* on its way or on the page, or of a mount that was abandoned.             *)
THEOREM SessionIsOwned == Spec => []SessionOwned
<1>1. IInv => SessionOwned
  BY DEF IInv
<1>. QED
  BY <1>1, InitIInv, NextIInv, PTL DEF Spec

(* gopay-browser-sdk.ts:131-132: a card typed for one payment charges no    *)
(* other.                                                                   *)
THEOREM ChargesWhatItWasMountedFor == Spec => []ChargesMounted
<1>1. IInv => ChargesMounted
  BY DEF IInv
<1>. QED
  BY <1>1, InitIInv, NextIInv, PTL DEF Spec

(* cards.module.ts:66-106: each form keeps the promises of ChargeFlow.       *)
THEOREM Implementation == Spec => ImplementsChargeFlow
<1>. QED
  BY InitIInv, NextIInv, PTL DEF Spec, ImplementsChargeFlow, Flow!Spec

-----------------------------------------------------------------------------
(* Wallets.  What is true of its state at every moment.                     *)

(* The script's element is in the document from its request on, and a mount *)
(* waits for it only while it is on its way.                                *)
ScriptOnce ==
    /\ tags = IF script = "none" THEN 0 ELSE 1
    /\ \A m \in W!Mounts : buttons[m].phase = "loading" => script = "loading"

Live == {"shown", "lost"} \cup W!Charging

(* What the phase of a button says of its sheet, its charge and its result. *)
SoundButton(w, r) ==
    /\ r.phase \in {"unused"} \cup W!Waiting => r.tracked = 0 /\ ~r.aborted /\ ~r.sheet
    /\ r.phase \in {"unused", "shown"} \cup W!Waiting =>
           /\ r.charge = "none" /\ r.result = "pending"
           /\ ~r.authorized /\ ~r.charging /\ ~r.aborted
    /\ r.phase = "preparing" => r.charge = "none"
    /\ r.phase \in {"lost"} \cup W!Charging =>
           /\ r.charging /\ ~r.sheet
           /\ ~r.aborted => r.result = "pending"
           /\ w = "applepay" => r.authorized
    /\ r.sheet => w = "googlepay" /\ (r.aborted \/ r.phase = "shown")
    /\ r.aborted => r.result = "unmounted" /\ r.tracked = 0
    /\ r.told # "none" => r.aborted

ButtonsSound == \A m \in W!Mounts : SoundButton(wallet, buttons[m])

(* A session was begun by the one button that may track it.                 *)
SheetsOwned ==
    /\ \A s \in W!Sessions : sheets[s].state = "unused" => sheets[s].of = 0
    /\ \A s \in W!Sessions :
        sheets[s].state = "open" =>
            /\ wallet = "applepay"
            /\ sheets[s].of \in W!Mounts
            /\ buttons[sheets[s].of].phase \in Live
    /\ \A s \in W!Sessions : sheets[s].told = "success" => sheets[s].of \in W!Mounts
    /\ \A m \in W!Mounts :
        buttons[m].tracked # 0 => sheets[buttons[m].tracked].of = m

ButtonInv ==
    /\ W!TypeOK
    /\ ScriptOnce
    /\ ButtonsSound
    /\ SheetsOwned
    /\ W!SheetTracked

(* What ChargeFlow sees of a button, and what a step may do to one.         *)
Outcome(r) ==
    [charge |-> IF r.charge = "challenged" THEN "open" ELSE r.charge,
     result |-> r.result, told |-> r.told]

GoodButton(w, r, s) ==
    s \in W!MountRecords /\ SoundButton(w, s) /\ Follows(Outcome(r), Outcome(s))

-----------------------------------------------------------------------------
(* The operators on a button's record.                                      *)

LEMMA OverButton ==
    ASSUME NEW w, NEW r \in W!MountRecords, SoundButton(w, r),
           NEW as \in {"error", "succeeded", "failed"},
           r.result = "pending" /\ as # "error" => r.charge = as
    PROVE  LET s == W!Over(W!Settled(r, as))
           IN  GoodButton(w, r, s) /\ s.tracked = 0 /\ s.phase = "over" /\ s.charge = r.charge
<1>. DEFINE q == W!Settled(r, as)
            s == W!Over(q)
<1>1. /\ q \in W!MountRecords /\ q.charge = r.charge /\ q.told = r.told
      /\ q.result = IF r.result = "pending" THEN as ELSE r.result
      /\ q.aborted = r.aborted
  <2>1. CASE r.result = "pending"
    <3>1. q = [r EXCEPT !.result = as]
      BY <2>1 DEF W!Settled
    <3>. HIDE DEF q
    <3>. QED
      BY <2>1, <3>1 DEF W!MountRecords
  <2>2. CASE r.result # "pending"
    BY <2>2 DEF W!Settled
  <2>. QED
    BY <2>1, <2>2
<1>. HIDE DEF q
<1>2. /\ s \in W!MountRecords /\ s.charge = q.charge /\ s.told = q.told
      /\ s.result = q.result /\ s.aborted = q.aborted
      /\ s.phase = "over" /\ s.tracked = 0 /\ ~s.sheet
  <2>1. 0 \in 0 .. MaxSheets
    BY SheetsAssumption
  <2>. QED
    BY <1>1, <2>1 DEF W!Over, W!MountRecords
<1>. HIDE DEF s
<1>3. SoundButton(w, s)
  <2>1. /\ r.aborted => r.result = "unmounted"
        /\ r.told # "none" => r.aborted
    BY DEF SoundButton
  <2>. QED
    BY <1>1, <1>2, <2>1 DEF SoundButton, W!Waiting, W!Charging
<1>4. Follows(Outcome(r), Outcome(s))
  <2>. DEFINE o == Outcome(r)
              p == Outcome(s)
  <2>1. /\ o.result = r.result /\ p.result = s.result
        /\ p.charge = o.charge /\ p.told = o.told
        /\ r.charge \in {"succeeded", "failed"} => o.charge = r.charge
    BY <1>1, <1>2 DEF Outcome
  <2>. HIDE DEF o, p
  <2>2. CASE r.result = "pending"
    <3>1. Follows(o, p)
      BY <1>1, <1>2, <2>1, <2>2 DEF Follows
    <3>. QED
      BY <3>1 DEF o, p
  <2>3. CASE r.result # "pending"
    <3>1. Follows(o, p)
      BY <1>1, <1>2, <2>1, <2>3 DEF Follows
    <3>. QED
      BY <3>1 DEF o, p
  <2>. QED
    BY <2>2, <2>3
<1>. QED
  BY <1>1, <1>2, <1>3, <1>4 DEF GoodButton, s, q

(* unmount(), before a charge or during one.                                *)
LEMMA UnmountedButton ==
    ASSUME NEW w, NEW r \in W!MountRecords, SoundButton(w, r), r.phase \in Live,
           r.result = "pending"
    PROVE  LET s == W!Unmounted(r)
           IN  /\ GoodButton(w, r, s) /\ s.tracked = 0 /\ s.charge = r.charge
               /\ s.phase \in {"over"} \cup W!Charging /\ s.aborted
               /\ s.result = "unmounted"
               /\ s.told = IF r.charging THEN "inFlight" ELSE "known"
<1>. DEFINE s == W!Unmounted(r)
            known == IF r.charging THEN "inFlight" ELSE "known"
            phase == IF r.phase \in W!Charging THEN r.phase ELSE "over"
<1>1. s = [r EXCEPT !.aborted = TRUE, !.tracked = 0, !.result = "unmounted",
                    !.told = known, !.phase = phase]
  BY DEF W!Unmounted
<1>2. known \in {"known", "inFlight"} /\ phase \in {"over"} \cup W!Charging
  BY DEF W!Charging, Live
<1>3. known = "known" => r.charge = "none"
  BY DEF SoundButton, Live
<1>. HIDE DEF known, phase, s
<1>4. /\ s \in W!MountRecords /\ s.aborted /\ s.tracked = 0 /\ s.result = "unmounted"
      /\ s.told = known /\ s.phase = phase /\ s.charge = r.charge /\ s.sheet = r.sheet
      /\ s.charging = r.charging /\ s.authorized = r.authorized
  <2>1. 0 \in 0 .. MaxSheets
    BY SheetsAssumption
  <2>2. s \in W!MountRecords
    BY <1>1, <1>2, <2>1 DEF W!MountRecords, W!Charging
  <2>. QED
    BY <1>1, <2>2 DEF W!MountRecords
<1>5. SoundButton(w, s)
  BY <1>2, <1>4 DEF SoundButton, W!Charging, W!Waiting, Live, phase
<1>6. Follows(Outcome(r), Outcome(s))
  BY <1>2, <1>3, <1>4 DEF Follows, Outcome
<1>. QED
  BY <1>2, <1>4, <1>5, <1>6 DEF GoodButton, s, known

(* ... or when the flow's end is told, which is past all of it.             *)
LEMMA GivenUpButton ==
    ASSUME NEW w, NEW r \in W!MountRecords, SoundButton(w, r), r.phase \in W!Charging,
           r.result = "pending"
    PROVE  LET s == W!Over(W!Unmounted(r))
           IN  GoodButton(w, r, s) /\ s.tracked = 0 /\ s.phase = "over"
<1>. DEFINE q == W!Unmounted(r)
            s == W!Over(q)
<1>1. /\ q \in W!MountRecords /\ q.charge = r.charge /\ q.result = "unmounted"
      /\ q.told = "inFlight" /\ q.aborted
  <2>1. r.phase \in Live /\ r.charging
    BY DEF Live, SoundButton
  <2>. QED
    BY <2>1, UnmountedButton DEF GoodButton
<1>. HIDE DEF q
<1>2. /\ s \in W!MountRecords /\ s.charge = q.charge /\ s.told = q.told
      /\ s.result = q.result /\ s.phase = "over" /\ s.tracked = 0 /\ ~s.sheet
      /\ s.aborted = q.aborted
  <2>1. 0 \in 0 .. MaxSheets
    BY SheetsAssumption
  <2>. QED
    BY <1>1, <2>1 DEF W!Over, W!MountRecords
<1>. HIDE DEF s
<1>3. SoundButton(w, s)
  BY <1>1, <1>2 DEF SoundButton, W!Waiting, W!Charging
<1>4. Follows(Outcome(r), Outcome(s))
  BY <1>1, <1>2 DEF Follows, Outcome
<1>. QED
  BY <1>2, <1>3, <1>4 DEF GoodButton, s, q

(* The spinner throws, and the sheet stays as it is.                        *)
LEMMA StrandedButton ==
    ASSUME NEW w, NEW r \in W!MountRecords, SoundButton(w, r), r.phase \in W!Charging
    PROVE  LET s == W!Stranded(r)
           IN  /\ GoodButton(w, r, s) /\ s.tracked = r.tracked /\ s.result = r.result
               /\ s.phase \in {"over", "lost"}
               /\ r.tracked # 0 => s.phase = "lost"
<1>. DEFINE s == W!Stranded(r)
            phase == IF r.result = "pending" THEN "lost" ELSE "over"
<1>1. s = [r EXCEPT !.phase = phase]
  BY DEF W!Stranded
<1>2. phase \in {"over", "lost"} /\ (r.tracked # 0 => phase = "lost")
      /\ (phase = "lost" => r.result = "pending")
  BY DEF SoundButton
<1>. HIDE DEF s, phase
<1>3. /\ s \in W!MountRecords /\ s.charge = r.charge /\ s.told = r.told
      /\ s.result = r.result /\ s.phase = phase /\ s.tracked = r.tracked
      /\ s.sheet = r.sheet /\ s.aborted = r.aborted /\ s.authorized = r.authorized
      /\ s.charging = r.charging
  BY <1>1, <1>2 DEF W!MountRecords
<1>4. SoundButton(w, s)
  BY <1>2, <1>3 DEF SoundButton, W!Waiting, W!Charging
<1>5. Follows(Outcome(r), Outcome(s))
  BY <1>3 DEF Follows, Outcome
<1>. QED
  BY <1>2, <1>3, <1>4, <1>5 DEF GoodButton, s

(* A mount that is refused.                                                 *)
LEMMA RefusedButton ==
    ASSUME NEW w, NEW r \in W!MountRecords, SoundButton(w, r),
           r.phase \in {"unused"} \cup W!Waiting
    PROVE  LET s == W!Refused(r)
           IN  GoodButton(w, r, s) /\ s.tracked = r.tracked /\ s.phase = "over"
<1>. DEFINE s == W!Refused(r)
<1>1. /\ s \in W!MountRecords /\ s.charge = r.charge /\ s.told = r.told
      /\ s.result = "error" /\ s.phase = "over" /\ s.tracked = r.tracked
      /\ s.sheet = r.sheet /\ s.aborted = r.aborted
  BY DEF W!Refused, W!MountRecords
<1>. HIDE DEF s
<1>2. SoundButton(w, s)
  BY <1>1 DEF SoundButton, W!Waiting, W!Charging
<1>3. Follows(Outcome(r), Outcome(s))
  BY <1>1 DEF Follows, Outcome, SoundButton
<1>. QED
  BY <1>1, <1>2, <1>3 DEF GoodButton, s

(* A mount that goes on to its next await, or to its button.                *)
LEMMA WaitingButton ==
    ASSUME NEW w, NEW r \in W!MountRecords, SoundButton(w, r),
           r.phase \in {"unused"} \cup W!Waiting, NEW phase \in {"shown"} \cup W!Waiting
    PROVE  LET s == [r EXCEPT !.phase = phase]
           IN  GoodButton(w, r, s) /\ s.tracked = r.tracked /\ s.phase = phase
<1>. DEFINE s == [r EXCEPT !.phase = phase]
<1>1. /\ s \in W!MountRecords /\ s.charge = r.charge /\ s.told = r.told
      /\ s.result = r.result /\ s.phase = phase /\ s.tracked = r.tracked
      /\ s.sheet = r.sheet /\ s.aborted = r.aborted /\ s.authorized = r.authorized
      /\ s.charging = r.charging
  BY DEF W!MountRecords
<1>. HIDE DEF s
<1>2. SoundButton(w, s)
  BY <1>1 DEF SoundButton, W!Waiting, W!Charging
<1>3. Follows(Outcome(r), Outcome(s))
  BY <1>1 DEF Follows, Outcome
<1>. QED
  BY <1>1, <1>2, <1>3 DEF GoodButton, s

-----------------------------------------------------------------------------
(* Steps of one button.                                                     *)

LEMMA ButtonFacts ==
    ASSUME ButtonInv, NEW m \in W!Mounts
    PROVE  buttons[m] \in W!MountRecords /\ SoundButton(wallet, buttons[m])
BY DEF ButtonInv, W!TypeOK, ButtonsSound

(* Its flow takes a step of ChargeFlow, or none.                            *)
LEMMA ButtonFlowStep ==
    ASSUME W!TypeOK, NEW m \in W!Mounts, NEW s \in W!MountRecords,
           buttons' = [buttons EXCEPT ![m] = s],
           Follows(Outcome(buttons[m]), Outcome(s))
    PROVE  [W!Flow!Next]_(W!Flow!vars)
<1>. DEFINE r == Outcome(buttons[m])
            t == Outcome(s)
            charge == [n \in W!Mounts |->
                IF buttons[n].charge = "challenged" THEN "open" ELSE buttons[n].charge]
            result == [n \in W!Mounts |-> buttons[n].result]
            told == [n \in W!Mounts |-> buttons[n].told]
<1>1. /\ buttons'[m] = s
      /\ \A n \in W!Mounts \ {m} : buttons'[n] = buttons[n]
  BY DEF W!TypeOK
<1>2. /\ charge' = [charge EXCEPT ![m] = t.charge]
      /\ result' = [result EXCEPT ![m] = t.result]
      /\ told' = [told EXCEPT ![m] = t.told]
  <2>1. charge' = [n \in W!Mounts |-> IF n = m THEN t.charge ELSE charge[n]]
    BY <1>1 DEF Outcome
  <2>2. result' = [n \in W!Mounts |-> IF n = m THEN t.result ELSE result[n]]
    BY <1>1 DEF Outcome
  <2>3. told' = [n \in W!Mounts |-> IF n = m THEN t.told ELSE told[n]]
    BY <1>1 DEF Outcome
  <2>. HIDE DEF t
  <2>4. /\ [charge EXCEPT ![m] = t.charge] =
                [n \in W!Mounts |-> IF n = m THEN t.charge ELSE charge[n]]
        /\ [result EXCEPT ![m] = t.result] =
                [n \in W!Mounts |-> IF n = m THEN t.result ELSE result[n]]
        /\ [told EXCEPT ![m] = t.told] =
                [n \in W!Mounts |-> IF n = m THEN t.told ELSE told[n]]
    OBVIOUS
  <2>. QED
    BY <2>1, <2>2, <2>3, <2>4
<1>3. charge[m] = r.charge /\ result[m] = r.result /\ told[m] = r.told
  BY DEF Outcome
<1>4. /\ t.charge = r.charge => charge' = charge
      /\ t.result = r.result => result' = result
      /\ t.told = r.told => told' = told
  <2>. HIDE DEF r, t
  <2>1. charge = [n \in W!Mounts |-> charge[n]] /\ result = [n \in W!Mounts |-> result[n]]
        /\ told = [n \in W!Mounts |-> told[n]]
    OBVIOUS
  <2>. HIDE DEF charge, result, told
  <2>. QED
    BY <1>2, <1>3, <2>1
<1>. HIDE DEF charge, result, told, r, t
<1>5. Follows(r, t)
  BY DEF r, t
<1>6. CASE t.charge = r.charge /\ t.result = r.result /\ t.told = r.told
  BY <1>4, <1>6 DEF W!Flow!vars, charge, result, told
<1>7. CASE /\ r.result = "pending" /\ r.charge = "none" /\ r.told = "none"
           /\ t.charge = "sent" /\ t.result = r.result /\ t.told = r.told
  <2>1. W!Flow!Send(m)
    BY <1>2, <1>3, <1>4, <1>7 DEF W!Flow!Send, charge, result, told
  <2>. QED
    BY <2>1 DEF W!Flow!Next
<1>8. CASE /\ \/ r.charge = "sent" /\ t.charge \in {"open", "refused"}
              \/ r.charge = "open" /\ t.charge \in {"succeeded", "failed"}
           /\ t.result = r.result /\ t.told = r.told
  <2>1. W!Flow!GoPayMoves(m)
    BY <1>2, <1>3, <1>4, <1>8 DEF W!Flow!GoPayMoves, W!Flow!Ended, charge, result, told
  <2>. QED
    BY <2>1 DEF W!Flow!Next
<1>9. CASE /\ r.result = "pending"
           /\ t.result \in {"payload", "error", "succeeded", "failed"}
           /\ t.result = "payload" => r.charge = "none"
           /\ t.result \in {"succeeded", "failed"} => r.charge = t.result
           /\ t.charge = r.charge /\ t.told = r.told
  <2>1. W!Flow!Settle(m, t.result)
    BY <1>2, <1>3, <1>4, <1>9 DEF W!Flow!Settle, W!Flow!Ended, charge, result, told
  <2>. QED
    BY <1>9, <2>1 DEF W!Flow!Next, W!Flow!Ended
<1>10. CASE /\ r.result = "pending"
            /\ t.result \in {"pending", "unmounted"}
            /\ t.told \in {"known", "inFlight"}
            /\ t.told = "known" => r.charge \in {"none", "succeeded", "failed"}
            /\ t.charge = r.charge
  <2>. result' \in {result, [result EXCEPT ![m] = "unmounted"]}
    BY <1>2, <1>3, <1>4, <1>10
  <2>1. CASE t.told = "known"
    <3>1. W!Flow!GiveUp(m, TRUE)
      BY <1>2, <1>3, <1>4, <1>10, <2>1 DEF W!Flow!GiveUp, W!Flow!Ended, charge, result,
         told
    <3>. QED
      BY <3>1 DEF W!Flow!Next
  <2>2. CASE t.told = "inFlight"
    <3>1. W!Flow!GiveUp(m, FALSE)
      BY <1>2, <1>3, <1>4, <1>10, <2>2 DEF W!Flow!GiveUp, W!Flow!Ended, charge, result,
         told
    <3>. QED
      BY <3>1 DEF W!Flow!Next
  <2>. QED
    BY <1>10, <2>1, <2>2
<1>. QED
  BY <1>5, <1>6, <1>7, <1>8, <1>9, <1>10 DEF Follows

(* What a step of one button leaves of the invariant, its sheet aside.      *)
LEMMA ButtonStep ==
    ASSUME ButtonInv, NEW m \in W!Mounts, NEW s,
           buttons' = [buttons EXCEPT ![m] = s],
           GoodButton(wallet, buttons[m], s),
           wallet' = wallet,
           script' \in {"none", "loading", "loaded"},
           tags' = IF script' = "none" THEN 0 ELSE 1,
           script = "loading" \/ s.phase = "loading" => script' = "loading"
    PROVE  /\ buttons' \in [W!Mounts -> W!MountRecords]
           /\ buttons'[m] = s
           /\ \A n \in W!Mounts \ {m} : buttons'[n] = buttons[n]
           /\ buttons[m].charge = "succeeded" => s.charge = "succeeded"
           /\ ScriptOnce'
           /\ ButtonsSound'
           /\ [W!Flow!Next]_(W!Flow!vars)
<1>1. /\ buttons' \in [W!Mounts -> W!MountRecords]
      /\ buttons'[m] = s
      /\ \A n \in W!Mounts \ {m} : buttons'[n] = buttons[n]
  BY DEF ButtonInv, W!TypeOK, GoodButton
<1>2. buttons[m].charge = "succeeded" => s.charge = "succeeded"
  BY DEF GoodButton, Follows, Outcome
<1>3. ScriptOnce'
  BY <1>1 DEF ButtonInv, ScriptOnce
<1>4. ButtonsSound'
  BY <1>1 DEF ButtonInv, ButtonsSound, GoodButton
<1>5. [W!Flow!Next]_(W!Flow!vars)
  BY ButtonFlowStep DEF ButtonInv, GoodButton
<1>. QED
  BY <1>1, <1>2, <1>3, <1>4, <1>5

(* A step that leaves the sheets, and the one the button tracks.  The       *)
(* button of an open one stays where such a button may be.                  *)
LEMMA KeptStep ==
    ASSUME ButtonInv, NEW m \in W!Mounts, NEW s,
           buttons' = [buttons EXCEPT ![m] = s],
           GoodButton(wallet, buttons[m], s),
           UNCHANGED <<wallet, sheets>>,
           activeButton' \in 0 .. MaxButtons,
           script' \in {"none", "loading", "loaded"},
           tags' = IF script' = "none" THEN 0 ELSE 1,
           script = "loading" \/ s.phase = "loading" => script' = "loading",
           s.tracked = buttons[m].tracked,
           buttons[m].tracked # 0 =>
               /\ buttons[m].phase \in Live => s.phase \in Live
               /\ buttons[m].result = "pending" => s.result = "pending"
               /\ s.phase = "shown" => buttons[m].phase = "shown"
    PROVE  ButtonInv' /\ [W!Flow!Next]_(W!Flow!vars)
<1>1. /\ buttons' \in [W!Mounts -> W!MountRecords]
      /\ buttons'[m] = s
      /\ \A n \in W!Mounts \ {m} : buttons'[n] = buttons[n]
      /\ buttons[m].charge = "succeeded" => s.charge = "succeeded"
      /\ ScriptOnce'
      /\ ButtonsSound'
      /\ [W!Flow!Next]_(W!Flow!vars)
  BY ButtonStep
<1>2. W!TypeOK'
  BY <1>1 DEF ButtonInv, W!TypeOK
<1>3. ASSUME NEW t \in W!Sessions, sheets[t].state = "open"
      PROVE  /\ wallet = "applepay" /\ sheets[t].of \in W!Mounts
             /\ buttons'[sheets[t].of].phase \in Live
             /\ buttons'[sheets[t].of].tracked = t
             /\ buttons'[sheets[t].of].result = "pending"
  <2>1. /\ wallet = "applepay" /\ sheets[t].of \in W!Mounts
        /\ buttons[sheets[t].of].phase \in Live
        /\ buttons[sheets[t].of].tracked = t
        /\ buttons[sheets[t].of].result = "pending"
    BY <1>3 DEF ButtonInv, SheetsOwned, W!SheetTracked
  <2>2. t # 0
    BY DEF W!Sessions
  <2>. QED
    BY <1>1, <2>1, <2>2
<1>4. SheetsOwned'
  BY <1>1, <1>3 DEF ButtonInv, SheetsOwned
<1>5. W!SheetTracked'
  <2>1. ASSUME NEW n \in W!Mounts, buttons'[n].phase = "shown", buttons'[n].tracked # 0
        PROVE  sheets[buttons'[n].tracked].state = "open"
    BY <1>1, <2>1 DEF ButtonInv, W!SheetTracked
  <2>2. ASSUME NEW t \in W!Sessions, sheets[t].told = "success"
        PROVE  buttons'[sheets[t].of].charge = "succeeded"
    BY <1>1, <2>2 DEF ButtonInv, W!SheetTracked, SheetsOwned
  <2>. QED
    BY <1>3, <2>1, <2>2 DEF W!SheetTracked
<1>. QED
  BY <1>1, <1>2, <1>4, <1>5 DEF ButtonInv

(* The same where nothing but the button changes.                           *)
LEMMA ButtonBecomes ==
    ASSUME ButtonInv, NEW m \in W!Mounts, NEW s, W!Becomes(m, s),
           GoodButton(wallet, buttons[m], s),
           s.phase # "loading" \/ buttons[m].phase = "loading",
           s.tracked = buttons[m].tracked,
           buttons[m].tracked # 0 =>
               /\ buttons[m].phase \in Live => s.phase \in Live
               /\ buttons[m].result = "pending" => s.result = "pending"
               /\ s.phase = "shown" => buttons[m].phase = "shown"
    PROVE  ButtonInv' /\ [W!Flow!Next]_(W!Flow!vars)
<1>1. /\ buttons' = [buttons EXCEPT ![m] = s] /\ UNCHANGED <<wallet, sheets>>
      /\ activeButton' \in 0 .. MaxButtons /\ script' \in {"none", "loading", "loaded"}
      /\ tags' = IF script' = "none" THEN 0 ELSE 1
      /\ script = "loading" \/ s.phase = "loading" => script' = "loading"
  BY DEF W!Becomes, W!loader, ButtonInv, W!TypeOK, ScriptOnce
<1>. QED
  BY <1>1, KeptStep

(* A step that ends the button's sheet, if it has one.                      *)
LEMMA ClosingStep ==
    ASSUME ButtonInv, NEW m \in W!Mounts, NEW s, NEW as \in {"none", "success", "failure"},
           buttons' = [buttons EXCEPT ![m] = s],
           GoodButton(wallet, buttons[m], s),
           s.tracked = 0, s.phase # "loading",
           as = "success" => s.charge = "succeeded",
           W!Release(m), W!CloseSheet(m, as),
           UNCHANGED <<wallet, W!loader>>
    PROVE  ButtonInv' /\ [W!Flow!Next]_(W!Flow!vars)
<1>1. /\ buttons' \in [W!Mounts -> W!MountRecords]
      /\ buttons'[m] = s
      /\ \A n \in W!Mounts \ {m} : buttons'[n] = buttons[n]
      /\ buttons[m].charge = "succeeded" => s.charge = "succeeded"
      /\ ScriptOnce'
      /\ ButtonsSound'
      /\ [W!Flow!Next]_(W!Flow!vars)
  <2>1. /\ script' \in {"none", "loading", "loaded"}
        /\ tags' = IF script' = "none" THEN 0 ELSE 1
        /\ script = "loading" \/ s.phase = "loading" => script' = "loading"
    BY DEF W!loader, ButtonInv, W!TypeOK, ScriptOnce
  <2>. QED
    BY <2>1, ButtonStep
<1>2. sheets' = [t \in W!Sessions |->
          IF t = buttons[m].tracked /\ sheets[t].state = "open"
          THEN [sheets[t] EXCEPT !.state = "over", !.told = as]
          ELSE sheets[t]]
  BY DEF W!CloseSheet
<1>3. ASSUME NEW t \in W!Sessions
      PROVE  /\ sheets'[t] \in W!SessionRecords
             /\ sheets'[t].of = sheets[t].of
             /\ sheets'[t].state = "unused" => sheets[t].state = "unused"
             /\ t # buttons[m].tracked => sheets'[t] = sheets[t]
             /\ t = buttons[m].tracked => sheets'[t].state # "open"
             /\ \/ sheets'[t].told = sheets[t].told
                \/ t = buttons[m].tracked /\ sheets[t].state = "open" /\ sheets'[t].told = as
  <2>1. sheets[t] \in W!SessionRecords
    BY DEF ButtonInv, W!TypeOK
  <2>2. CASE t = buttons[m].tracked /\ sheets[t].state = "open"
    <3>1. sheets'[t] = [sheets[t] EXCEPT !.state = "over", !.told = as]
      BY <1>2, <2>2
    <3>. QED
      BY <2>1, <2>2, <3>1 DEF W!SessionRecords
  <2>3. CASE ~(t = buttons[m].tracked /\ sheets[t].state = "open")
    <3>1. sheets'[t] = sheets[t]
      BY <1>2, <2>3
    <3>. QED
      BY <2>1, <2>3, <3>1
  <2>. QED
    BY <2>2, <2>3
<1>4. W!TypeOK'
  <2>1. sheets' \in [W!Sessions -> W!SessionRecords]
    BY <1>2, <1>3
  <2>2. activeButton' \in 0 .. MaxButtons
    BY ButtonsAssumption DEF W!Release, ButtonInv, W!TypeOK
  <2>. QED
    BY <1>1, <2>1, <2>2 DEF ButtonInv, W!TypeOK, W!loader
<1>5. ASSUME NEW t \in W!Sessions, sheets'[t].state = "open"
      PROVE  /\ wallet = "applepay" /\ sheets'[t].of \in W!Mounts
             /\ buttons'[sheets'[t].of].phase \in Live
             /\ buttons'[sheets'[t].of].tracked = t
             /\ buttons'[sheets'[t].of].result = "pending"
  <2>1. t # buttons[m].tracked /\ sheets'[t] = sheets[t]
    BY <1>3, <1>5
  <2>2. /\ wallet = "applepay" /\ sheets[t].of \in W!Mounts
        /\ buttons[sheets[t].of].phase \in Live
        /\ buttons[sheets[t].of].tracked = t
        /\ buttons[sheets[t].of].result = "pending"
    BY <1>5, <2>1 DEF ButtonInv, SheetsOwned, W!SheetTracked
  <2>. QED
    BY <1>1, <2>1, <2>2
<1>6. ASSUME NEW n \in W!Mounts, buttons'[n].tracked # 0
      PROVE  /\ buttons'[n].tracked \in W!Sessions /\ n # m
             /\ sheets[buttons[n].tracked].of = n
             /\ sheets'[buttons'[n].tracked] = sheets[buttons[n].tracked]
  <2>1. n # m /\ buttons'[n] = buttons[n]
    BY <1>1, <1>6
  <2>2. buttons[n].tracked \in W!Sessions
    BY <1>6, <2>1, SheetsAssumption DEF ButtonInv, W!TypeOK, W!MountRecords, W!Sessions
  <2>3. sheets[buttons[n].tracked].of = n
    BY <1>6, <2>1 DEF ButtonInv, SheetsOwned
  <2>4. buttons[n].tracked # buttons[m].tracked
    BY <1>6, <2>1, <2>3 DEF ButtonInv, SheetsOwned
  <2>. QED
    BY <1>3, <2>1, <2>2, <2>3, <2>4
<1>7. ASSUME NEW t \in W!Sessions, sheets'[t].told = "success"
      PROVE  sheets'[t].of \in W!Mounts /\ buttons'[sheets'[t].of].charge = "succeeded"
  <2>1. CASE sheets'[t].told = sheets[t].told
    <3>1. /\ sheets'[t].of = sheets[t].of /\ sheets[t].of \in W!Mounts
          /\ buttons[sheets[t].of].charge = "succeeded"
      <4>1. sheets[t].told = "success" /\ sheets'[t].of = sheets[t].of
        BY <1>3, <1>7, <2>1
      <4>2. sheets[t].of \in W!Mounts
        BY <4>1 DEF ButtonInv, SheetsOwned
      <4>3. buttons[sheets[t].of].charge = "succeeded"
        BY <4>1 DEF ButtonInv, W!SheetTracked
      <4>. QED
        BY <4>1, <4>2, <4>3
    <3>. QED
      BY <1>1, <3>1
  <2>2. CASE t = buttons[m].tracked /\ as = "success"
    <3>1. sheets[t].of = m
      BY <2>2 DEF ButtonInv, SheetsOwned, W!Sessions
    <3>. QED
      BY <1>1, <1>3, <2>2, <3>1
  <2>. QED
    BY <1>3, <1>7, <2>1, <2>2
<1>8. SheetsOwned'
  <2>1. \A t \in W!Sessions : sheets'[t].state = "unused" => sheets'[t].of = 0
    BY <1>3 DEF ButtonInv, SheetsOwned
  <2>2. \A n \in W!Mounts :
            buttons'[n].tracked # 0 => sheets'[buttons'[n].tracked].of = n
    BY <1>6
  <2>. QED
    BY <1>5, <1>7, <2>1, <2>2 DEF SheetsOwned
<1>9. W!SheetTracked'
  <2>1. \A n \in W!Mounts :
            buttons'[n].phase = "shown" /\ buttons'[n].tracked # 0 =>
                sheets'[buttons'[n].tracked].state = "open"
    BY <1>1, <1>6 DEF ButtonInv, W!SheetTracked
  <2>. QED
    BY <1>5, <1>7, <2>1 DEF W!SheetTracked
<1>. QED
  BY <1>1, <1>4, <1>8, <1>9 DEF ButtonInv

-----------------------------------------------------------------------------
(* The script.                                                              *)

LEMMA ScriptSteps ==
    ASSUME ButtonInv, W!Probe \/ W!ScriptLoads \/ W!ScriptFails
    PROVE  ButtonInv' /\ [W!Flow!Next]_(W!Flow!vars)
<1>1. CASE W!Probe
  <2>1. /\ UNCHANGED <<wallet, activeButton, sheets, buttons>>
        /\ script' \in {"loading", "loaded"} /\ tags' = 1
        /\ script = "loading" => script' = "loading"
    BY <1>1 DEF W!Probe, W!LoadScriptOnce, W!loader, ButtonInv, W!TypeOK, ScriptOnce
  <2>2. UNCHANGED W!Flow!vars
    BY <2>1 DEF W!Flow!vars
  <2>3. W!TypeOK' /\ ScriptOnce'
    BY <2>1 DEF ButtonInv, W!TypeOK, ScriptOnce
  <2>4. ButtonsSound' /\ SheetsOwned' /\ W!SheetTracked'
    BY <2>1 DEF ButtonInv, ButtonsSound, SheetsOwned, W!SheetTracked
  <2>. QED
    BY <2>2, <2>3, <2>4 DEF ButtonInv
<1>2. ASSUME NEW phase \in W!Waiting \ {"loading"},
             UNCHANGED <<wallet, activeButton, sheets>>,
             script = "loading", script' \in {"none", "loaded"},
             tags' = IF script' = "none" THEN 0 ELSE 1,
             buttons' = [m \in W!Mounts |->
                 IF buttons[m].phase = "loading" THEN [buttons[m] EXCEPT !.phase = phase]
                 ELSE buttons[m]]
      PROVE  ButtonInv' /\ [W!Flow!Next]_(W!Flow!vars)
  <2>1. ASSUME NEW m \in W!Mounts
        PROVE  /\ buttons'[m] \in W!MountRecords /\ SoundButton(wallet, buttons'[m])
               /\ buttons'[m].phase # "loading"
               /\ buttons'[m].phase = buttons[m].phase
                      \/ (buttons'[m].phase \in W!Waiting /\ buttons[m].phase = "loading")
               /\ buttons'[m].charge = buttons[m].charge
               /\ buttons'[m].result = buttons[m].result
               /\ buttons'[m].told = buttons[m].told
               /\ buttons'[m].tracked = buttons[m].tracked
    <3>1. buttons[m] \in W!MountRecords /\ SoundButton(wallet, buttons[m])
      BY ButtonFacts
    <3>2. CASE buttons[m].phase = "loading"
      <4>. DEFINE s == [buttons[m] EXCEPT !.phase = phase]
      <4>1. buttons'[m] = s
        BY <1>2, <3>2
      <4>2. GoodButton(wallet, buttons[m], s) /\ s.tracked = buttons[m].tracked /\ s.phase = phase
        <5>1. buttons[m].phase \in {"unused"} \cup W!Waiting
          BY <3>2 DEF W!Waiting
        <5>. QED
          BY <3>1, <5>1, WaitingButton
      <4>3. s.charge = buttons[m].charge /\ s.result = buttons[m].result /\ s.told = buttons[m].told
        BY <3>1 DEF W!MountRecords
      <4>. HIDE DEF s
      <4>. QED
        BY <1>2, <3>2, <4>1, <4>2, <4>3 DEF GoodButton
    <3>3. CASE buttons[m].phase # "loading"
      <4>1. buttons'[m] = buttons[m]
        BY <1>2, <3>3
      <4>. QED
        BY <3>1, <3>3, <4>1
    <3>. QED
      BY <3>2, <3>3
  <2>2. buttons' \in [W!Mounts -> W!MountRecords]
    BY <1>2, <2>1
  <2>3. UNCHANGED W!Flow!vars
    BY <2>1 DEF W!Flow!vars
  <2>4. W!TypeOK' /\ ScriptOnce' /\ ButtonsSound'
    BY <1>2, <2>1, <2>2 DEF ButtonInv, W!TypeOK, ScriptOnce, ButtonsSound
  <2>5. SheetsOwned'
    <3>1. ASSUME NEW t \in W!Sessions, sheets[t].state = "open"
          PROVE  buttons'[sheets[t].of].phase \in Live
      <4>1. sheets[t].of \in W!Mounts /\ buttons[sheets[t].of].phase \in Live
        BY <3>1 DEF ButtonInv, SheetsOwned
      <4>2. "loading" \notin Live
        BY DEF Live, W!Charging
      <4>. QED
        BY <2>1, <4>1, <4>2
    <3>. QED
      BY <1>2, <2>1, <3>1 DEF ButtonInv, SheetsOwned
  <2>6. W!SheetTracked'
    <3>1. \A t \in W!Sessions : sheets[t].state = "open" => sheets[t].of \in W!Mounts
      BY DEF ButtonInv, SheetsOwned
    <3>2. \A t \in W!Sessions : sheets[t].told = "success" => sheets[t].of \in W!Mounts
      BY DEF ButtonInv, SheetsOwned
    <3>3. "shown" \notin W!Waiting
      BY DEF W!Waiting
    <3>. QED
      BY <1>2, <2>1, <3>1, <3>2, <3>3 DEF ButtonInv, W!SheetTracked
  <2>. QED
    BY <2>3, <2>4, <2>5, <2>6 DEF ButtonInv
<1>3. CASE W!ScriptLoads
  <2>1. W!AfterLoad \in W!Waiting \ {"loading"}
    BY DEF W!AfterLoad, W!Waiting
  <2>2. tags = 1
    BY <1>3 DEF W!ScriptLoads, ButtonInv, ScriptOnce
  <2>. QED
    BY <1>2, <1>3, <2>1, <2>2 DEF W!ScriptLoads
<1>4. CASE W!ScriptFails
  <2>1. "blocked" \in W!Waiting \ {"loading"}
    BY DEF W!Waiting
  <2>2. tags' = 0
    BY <1>4 DEF W!ScriptFails, ButtonInv, ScriptOnce
  <2>. DEFINE blocked == "blocked"
  <2>3. /\ UNCHANGED <<wallet, activeButton, sheets>> /\ script = "loading"
        /\ script' = "none"
        /\ buttons' = [m \in W!Mounts |->
               IF buttons[m].phase = "loading" THEN [buttons[m] EXCEPT !.phase = blocked]
               ELSE buttons[m]]
    BY <1>4 DEF W!ScriptFails
  <2>4. blocked \in W!Waiting \ {"loading"}
    BY <2>1
  <2>. HIDE DEF blocked
  <2>. QED
    BY <1>2, <2>2, <2>3, <2>4
<1>. QED
  BY <1>1, <1>3, <1>4

-----------------------------------------------------------------------------
(* Mounting.                                                                *)

LEMMA MountSteps ==
    ASSUME ButtonInv, NEW m \in W!Mounts, W!MountRefused(m) \/ W!Mount(m)
    PROVE  ButtonInv' /\ [W!Flow!Next]_(W!Flow!vars)
<1>. DEFINE r == buttons[m]
<1>1. r \in W!MountRecords /\ SoundButton(wallet, r) /\ r.phase = "unused"
  BY ButtonFacts DEF W!MountRefused, W!Mount
<1>2. r.tracked = 0
  BY <1>1 DEF SoundButton
<1>3. CASE W!MountRefused(m)
  <2>. DEFINE s == W!Refused(r)
  <2>1. GoodButton(wallet, r, s) /\ s.tracked = r.tracked /\ s.phase = "over"
    BY <1>1, RefusedButton
  <2>2. W!Becomes(m, s)
    BY <1>3 DEF W!MountRefused
  <2>. HIDE DEF s
  <2>. QED
    BY <1>2, <2>1, <2>2, ButtonBecomes
<1>4. CASE W!Mount(m)
  <2>1. PICK phase \in W!Waiting :
            /\ buttons' = [buttons EXCEPT ![m].phase = phase]
            /\ UNCHANGED <<wallet, activeButton, sheets>>
            /\ \/ UNCHANGED W!loader /\ phase # "loading"
               \/ W!LoadScriptOnce
    BY <1>4 DEF W!Mount, W!AppleLibrary, W!GoogleLibrary, W!ScriptIsThere,
       W!WaitForScript, W!Waiting
  <2>. DEFINE s == [r EXCEPT !.phase = phase]
  <2>2. GoodButton(wallet, r, s) /\ s.tracked = r.tracked /\ s.phase = phase
    BY <1>1, WaitingButton
  <2>3. /\ buttons' = [buttons EXCEPT ![m] = s]
        /\ activeButton' \in 0 .. MaxButtons
    BY <2>1 DEF ButtonInv, W!TypeOK
  <2>4. /\ script' \in {"none", "loading", "loaded"}
        /\ tags' = IF script' = "none" THEN 0 ELSE 1
        /\ script = "loading" \/ phase = "loading" => script' = "loading"
    BY <2>1 DEF W!LoadScriptOnce, W!loader, ButtonInv, W!TypeOK, ScriptOnce
  <2>. HIDE DEF s
  <2>. QED
    BY <1>2, <2>1, <2>2, <2>3, <2>4, KeptStep
<1>. QED
  BY <1>3, <1>4

LEMMA WaitingSteps ==
    ASSUME ButtonInv, NEW m \in W!Mounts,
           \/ W!Blocked(m) \/ W!AppleAnswers(m) \/ W!InfoAnswered(m)
           \/ W!Ready(m) \/ W!NotReady(m) \/ W!ButtonThrows(m)
    PROVE  ButtonInv' /\ [W!Flow!Next]_(W!Flow!vars)
<1>. DEFINE r == buttons[m]
<1>1. r \in W!MountRecords /\ SoundButton(wallet, r) /\ r.phase \in W!Waiting
  BY ButtonFacts DEF W!Blocked, W!AppleAnswers, W!SessionAwaited, W!Defined,
     W!NotOffered, W!InfoAnswered, W!InfoArrives, W!InfoFails, W!Ready, W!NotReady,
     W!ButtonThrows, W!Waiting
<1>2. r.tracked = 0
  BY <1>1 DEF SoundButton
<1>3. CASE W!Becomes(m, W!Refused(r))
  <2>. DEFINE s == W!Refused(r)
  <2>1. GoodButton(wallet, r, s) /\ s.tracked = r.tracked /\ s.phase = "over"
    BY <1>1, RefusedButton
  <2>2. W!Becomes(m, s)
    BY <1>3
  <2>. HIDE DEF s
  <2>. QED
    BY <1>2, <2>1, <2>2, ButtonBecomes
<1>4. ASSUME NEW phase \in W!Waiting \ {"loading"}, W!Becomes(m, [r EXCEPT !.phase = phase])
      PROVE  ButtonInv' /\ [W!Flow!Next]_(W!Flow!vars)
  <2>. DEFINE s == [r EXCEPT !.phase = phase]
  <2>1. GoodButton(wallet, r, s) /\ s.tracked = r.tracked /\ s.phase = phase
    BY <1>1, WaitingButton
  <2>2. W!Becomes(m, s)
    BY <1>4
  <2>. HIDE DEF s
  <2>. QED
    BY <1>2, <2>1, <2>2, ButtonBecomes
<1>5. CASE W!Shown(m)
  <2>. DEFINE s == [r EXCEPT !.phase = "shown"]
  <2>1. GoodButton(wallet, r, s) /\ s.tracked = r.tracked /\ s.phase = "shown"
    BY <1>1, WaitingButton
  <2>2. /\ buttons' = [buttons EXCEPT ![m] = s] /\ UNCHANGED <<wallet, sheets>>
        /\ activeButton' \in 0 .. MaxButtons /\ script' \in {"none", "loading", "loaded"}
        /\ tags' = IF script' = "none" THEN 0 ELSE 1
        /\ script = "loading" => script' = "loading"
    BY <1>5, ButtonsAssumption DEF W!Shown, W!loader, W!Mounts, ButtonInv, W!TypeOK,
       ScriptOnce
  <2>. HIDE DEF s
  <2>. QED
    BY <1>2, <2>1, <2>2, KeptStep
<1>6. CASE W!ButtonThrows(m)
  <2>. DEFINE s == W!Refused(r)
  <2>1. GoodButton(wallet, r, s) /\ s.tracked = r.tracked /\ s.phase = "over"
    BY <1>1, RefusedButton
  <2>2. /\ buttons' = [buttons EXCEPT ![m] = s] /\ UNCHANGED <<wallet, sheets>>
        /\ activeButton' \in 0 .. MaxButtons /\ script' \in {"none", "loading", "loaded"}
        /\ tags' = IF script' = "none" THEN 0 ELSE 1
        /\ script = "loading" => script' = "loading"
    BY <1>6, ButtonsAssumption DEF W!ButtonThrows, W!loader, W!Mounts, ButtonInv,
       W!TypeOK, ScriptOnce
  <2>. HIDE DEF s
  <2>. QED
    BY <1>2, <2>1, <2>2, KeptStep
<1>7. \/ W!Becomes(m, W!Refused(r)) \/ W!Shown(m) \/ W!ButtonThrows(m)
      \/ \E phase \in W!Waiting \ {"loading"} : W!Becomes(m, [r EXCEPT !.phase = phase])
  BY DEF W!Blocked, W!AppleAnswers, W!SessionAwaited, W!Defined, W!NotOffered,
     W!InfoAnswered, W!InfoArrives, W!InfoFails, W!Ready, W!NotReady, W!Waiting
<1>. QED
  BY <1>3, <1>4, <1>5, <1>6, <1>7

-----------------------------------------------------------------------------
(* The sheets.                                                              *)

(* A flow that is over, and its sheet with it.                              *)
LEMMA EndsStep ==
    ASSUME ButtonInv, NEW m \in W!Mounts,
           NEW as \in {"error", "succeeded", "failed"},
           buttons[m].result = "pending" /\ as # "error" => buttons[m].charge = as,
           NEW telling \in {"none", "success", "failure"},
           telling = "success" => buttons[m].charge = "succeeded",
           W!Ends(m, as, telling)
    PROVE  ButtonInv' /\ [W!Flow!Next]_(W!Flow!vars)
<1>. DEFINE s == W!Over(W!Settled(buttons[m], as))
<1>1. /\ GoodButton(wallet, buttons[m], s) /\ s.tracked = 0 /\ s.phase = "over"
      /\ s.charge = buttons[m].charge
  BY ButtonFacts, OverButton
<1>2. /\ buttons' = [buttons EXCEPT ![m] = s] /\ W!Release(m) /\ W!CloseSheet(m, telling)
      /\ UNCHANGED <<wallet, W!loader>>
  BY DEF W!Ends, ButtonInv, W!TypeOK
<1>. HIDE DEF s
<1>. QED
  BY <1>1, <1>2, ClosingStep

(* ... or is given up by the callback that is told of its end.              *)
LEMMA FlowEndsStep ==
    ASSUME ButtonInv, NEW m \in W!Mounts, buttons[m].phase \in W!Charging,
           NEW as \in {"error", "succeeded", "failed"}, as # "error" => buttons[m].charge = as,
           NEW telling \in {"success", "failure"},
           telling = "success" => buttons[m].charge = "succeeded",
           W!FlowEnds(m, as, telling)
    PROVE  ButtonInv' /\ [W!Flow!Next]_(W!Flow!vars)
<1>1. CASE W!Ends(m, as, telling)
  BY <1>1, EndsStep
<1>2. CASE W!Becomes(m, W!Stranded(buttons[m]))
  <2>. DEFINE s == W!Stranded(buttons[m])
  <2>1. /\ GoodButton(wallet, buttons[m], s) /\ s.tracked = buttons[m].tracked
        /\ s.result = buttons[m].result /\ s.phase \in {"over", "lost"}
        /\ buttons[m].tracked # 0 => s.phase = "lost"
    BY ButtonFacts, StrandedButton
  <2>. HIDE DEF s
  <2>2. W!Becomes(m, s)
    BY <1>2 DEF s
  <2>3. "lost" \in Live
    BY DEF Live
  <2>. QED
    BY <2>1, <2>2, <2>3, ButtonBecomes
<1>3. CASE ~W!Ends(m, as, telling) /\ ~W!Becomes(m, W!Stranded(buttons[m]))
  <2>. DEFINE s == W!Over(W!Unmounted(buttons[m]))
  <2>1. /\ buttons[m].result = "pending"
        /\ buttons' = [buttons EXCEPT ![m] = s]
        /\ W!Release(m) /\ W!CloseSheet(m, "none")
        /\ UNCHANGED <<wallet, W!loader>>
    BY <1>3 DEF W!FlowEnds, ButtonInv, W!TypeOK
  <2>2. GoodButton(wallet, buttons[m], s) /\ s.tracked = 0 /\ s.phase = "over"
    BY <2>1, ButtonFacts, GivenUpButton
  <2>. HIDE DEF s
  <2>. QED
    BY <2>1, <2>2, ClosingStep
<1>. QED
  BY <1>1, <1>2, <1>3

LEMMA ChargeStep ==
    ASSUME ButtonInv, NEW m \in W!Mounts, NEW authorized \in BOOLEAN,
           buttons[m].phase = "shown", ~buttons[m].aborted,
           wallet = "applepay" => authorized,
           W!Charge(m, authorized)
    PROVE  ButtonInv' /\ [W!Flow!Next]_(W!Flow!vars)
<1>. DEFINE r == buttons[m]
<1>. PICK phase \in {"preparing", "lost"} :
         W!Becomes(m, [r EXCEPT !.phase = phase, !.charging = TRUE,
                                !.sheet = FALSE, !.authorized = authorized])
  BY DEF W!Charge
<1>. DEFINE s == [r EXCEPT !.phase = phase, !.charging = TRUE,
                           !.sheet = FALSE, !.authorized = authorized]
<1>1. r \in W!MountRecords /\ SoundButton(wallet, r)
  BY ButtonFacts
<1>2. W!Becomes(m, s)
  OBVIOUS
<1>3. /\ s \in W!MountRecords /\ s.phase = phase /\ s.charging /\ ~s.sheet
      /\ s.authorized = authorized /\ s.charge = r.charge /\ s.result = r.result
      /\ s.told = r.told /\ s.tracked = r.tracked /\ s.aborted = r.aborted
  BY <1>1 DEF W!MountRecords, W!Charging
<1>. HIDE DEF s
<1>4. GoodButton(wallet, r, s)
  <2>1. SoundButton(wallet, s)
    BY <1>1, <1>3 DEF SoundButton, W!Waiting, W!Charging
  <2>2. Follows(Outcome(r), Outcome(s))
    BY <1>3 DEF Follows, Outcome
  <2>. QED
    BY <1>3, <2>1, <2>2 DEF GoodButton
<1>5. phase \in Live /\ phase \notin {"loading", "shown"}
  BY DEF Live, W!Charging
<1>. QED
  BY <1>2, <1>3, <1>4, <1>5, ButtonBecomes

LEMMA TapSteps ==
    ASSUME ButtonInv, NEW m \in W!Mounts,
           W!AppleTapThrows(m) \/ \E t \in W!Sessions : W!AppleTap(m, t)
    PROVE  ButtonInv' /\ [W!Flow!Next]_(W!Flow!vars)
<1>. DEFINE r == buttons[m]
<1>1. r \in W!MountRecords /\ SoundButton(wallet, r) /\ W!TapHeard(m)
  BY ButtonFacts DEF W!AppleTapThrows, W!AppleTap
<1>2. wallet = "applepay" /\ r.phase = "shown" /\ r.tracked = 0
  BY <1>1 DEF W!TapHeard
<1>3. CASE W!AppleTapThrows(m)
  <2>. DEFINE s == W!Over(W!Settled(r, "error"))
  <2>1. GoodButton(wallet, r, s) /\ s.tracked = 0 /\ s.phase = "over"
    BY <1>1, OverButton
  <2>2. /\ buttons' = [buttons EXCEPT ![m] = s] /\ UNCHANGED <<wallet, sheets>>
        /\ activeButton' \in 0 .. MaxButtons /\ script' \in {"none", "loading", "loaded"}
        /\ tags' = IF script' = "none" THEN 0 ELSE 1
        /\ script = "loading" => script' = "loading"
    BY <1>3, ButtonsAssumption DEF W!AppleTapThrows, W!Release, W!loader, ButtonInv,
       W!TypeOK, ScriptOnce
  <2>. HIDE DEF s
  <2>. QED
    BY <1>2, <2>1, <2>2, KeptStep
<1>4. ASSUME NEW t \in W!Sessions, W!AppleTap(m, t)
      PROVE  ButtonInv' /\ [W!Flow!Next]_(W!Flow!vars)
  <2>. DEFINE s == [r EXCEPT !.tracked = t]
              o == [sheets[t] EXCEPT !.state = "open", !.of = m, !.validation = "asked"]
  <2>1. /\ sheets[t].state = "unused" /\ W!NothingOpen
        /\ buttons' = [buttons EXCEPT ![m] = s]
        /\ sheets' = [sheets EXCEPT ![t] = o]
        /\ UNCHANGED <<wallet, W!loader, activeButton>>
    BY <1>4 DEF W!AppleTap, ButtonInv, W!TypeOK
  <2>2. /\ o \in W!SessionRecords /\ o.state = "open" /\ o.of = m
        /\ o.told = sheets[t].told
    <3>1. sheets[t] \in W!SessionRecords /\ m \in 0 .. MaxButtons
      BY ButtonsAssumption DEF ButtonInv, W!TypeOK, W!Mounts
    <3>. QED
      BY <3>1 DEF W!SessionRecords
  <2>3. /\ s \in W!MountRecords /\ s.tracked = t /\ s.phase = "shown"
        /\ s.charge = r.charge
        /\ s.result = r.result /\ s.told = r.told /\ s.aborted = r.aborted
        /\ s.sheet = r.sheet /\ s.authorized = r.authorized /\ s.charging = r.charging
    <3>1. t \in 0 .. MaxSheets
      BY SheetsAssumption DEF W!Sessions
    <3>. QED
      BY <1>1, <1>2, <3>1 DEF W!MountRecords
  <2>. HIDE DEF s, o
  <2>4. SoundButton(wallet, s)
    BY <1>1, <1>2, <2>3 DEF SoundButton, W!Waiting, W!Charging
  <2>5. GoodButton(wallet, r, s)
    BY <2>3, <2>4 DEF GoodButton, Follows, Outcome
  <2>6. /\ buttons' \in [W!Mounts -> W!MountRecords]
        /\ buttons'[m] = s
        /\ \A n \in W!Mounts \ {m} : buttons'[n] = buttons[n]
        /\ ScriptOnce' /\ ButtonsSound' /\ [W!Flow!Next]_(W!Flow!vars)
    <3>1. /\ script' \in {"none", "loading", "loaded"}
          /\ tags' = IF script' = "none" THEN 0 ELSE 1
          /\ script = "loading" \/ s.phase = "loading" => script' = "loading"
      BY <2>1, <2>3 DEF W!loader, ButtonInv, W!TypeOK, ScriptOnce
    <3>. QED
      BY <2>1, <2>5, <3>1, ButtonStep
  <2>7. /\ sheets' \in [W!Sessions -> W!SessionRecords]
        /\ sheets'[t] = o
        /\ \A u \in W!Sessions \ {t} : sheets'[u] = sheets[u] /\ sheets[u].state # "open"
    BY <2>1, <2>2 DEF ButtonInv, W!TypeOK, W!NothingOpen
  <2>8. W!TypeOK'
    BY <2>1, <2>6, <2>7 DEF ButtonInv, W!TypeOK, W!loader
  <2>9. \A u \in W!Sessions :
            sheets'[u].told = "success" =>
                u # t /\ sheets'[u].of \in W!Mounts /\ buttons'[sheets'[u].of].charge = "succeeded"
    <3>. SUFFICES ASSUME NEW u \in W!Sessions, sheets'[u].told = "success"
                  PROVE  /\ u # t /\ sheets'[u].of \in W!Mounts
                         /\ buttons'[sheets'[u].of].charge = "succeeded"
      OBVIOUS
    <3>1. u # t
      <4>1. sheets[t].of = 0
        BY <2>1 DEF ButtonInv, SheetsOwned
      <4>2. sheets[t].told # "success"
        BY <4>1 DEF ButtonInv, SheetsOwned, W!Mounts
      <4>. QED
        BY <2>2, <2>7, <4>2
    <3>2. sheets[u].told = "success" /\ sheets'[u].of = sheets[u].of
      BY <2>7, <3>1
    <3>3. sheets[u].of \in W!Mounts /\ buttons[sheets[u].of].charge = "succeeded"
      BY <3>2 DEF ButtonInv, SheetsOwned, W!SheetTracked
    <3>. QED
      BY <2>3, <2>6, <3>1, <3>2, <3>3
  <2>10. \A n \in W!Mounts :
            buttons'[n].tracked # 0 =>
                /\ sheets'[buttons'[n].tracked].of = n
                /\ buttons'[n].phase = "shown" => sheets'[buttons'[n].tracked].state = "open"
    <3>. SUFFICES ASSUME NEW n \in W!Mounts, buttons'[n].tracked # 0
                  PROVE  /\ sheets'[buttons'[n].tracked].of = n
                         /\ buttons'[n].phase = "shown" =>
                                sheets'[buttons'[n].tracked].state = "open"
      OBVIOUS
    <3>1. CASE n = m
      BY <2>2, <2>3, <2>6, <2>7, <3>1
    <3>2. CASE n # m
      <4>1. buttons'[n] = buttons[n] /\ buttons[n].tracked \in W!Sessions
        BY <2>6, <3>2, SheetsAssumption DEF ButtonInv, W!TypeOK, W!MountRecords,
           W!Sessions
      <4>2. sheets[buttons[n].tracked].of = n
        BY <4>1 DEF ButtonInv, SheetsOwned
      <4>3. buttons[n].tracked # t
        BY <2>1, <4>2 DEF ButtonInv, SheetsOwned, W!Mounts
      <4>4. buttons[n].phase = "shown" => sheets[buttons[n].tracked].state = "open"
        BY <4>1 DEF ButtonInv, W!SheetTracked
      <4>. QED
        BY <2>7, <4>1, <4>2, <4>3, <4>4
    <3>. QED
      BY <3>1, <3>2
  <2>11. \A u \in W!Sessions :
            /\ sheets'[u].state = "unused" => sheets'[u].of = 0
            /\ sheets'[u].state = "open" => u = t
    BY <2>2, <2>7 DEF ButtonInv, SheetsOwned
  <2>12. s.phase \in Live /\ s.result = "pending"
    BY <1>1, <1>2, <2>3 DEF SoundButton, Live
  <2>13. SheetsOwned'
    <3>1. \A u \in W!Sessions : sheets'[u].state = "open" =>
              wallet' = "applepay" /\ sheets'[u].of \in W!Mounts
              /\ buttons'[sheets'[u].of].phase \in Live
      BY <1>2, <2>1, <2>2, <2>6, <2>7, <2>11, <2>12
    <3>. QED
      BY <2>9, <2>10, <2>11, <3>1 DEF SheetsOwned
  <2>14. W!SheetTracked'
    <3>1. \A u \in W!Sessions : sheets'[u].state = "open" =>
              buttons'[sheets'[u].of].tracked = u /\ buttons'[sheets'[u].of].result = "pending"
      BY <2>2, <2>3, <2>6, <2>7, <2>11, <2>12
    <3>. QED
      BY <2>9, <2>10, <3>1 DEF W!SheetTracked
  <2>. QED
    BY <2>6, <2>8, <2>13, <2>14 DEF ButtonInv
<1>. QED
  BY <1>3, <1>4

(* A session that stays, or is over with the tap it was begun by.           *)
LEMMA SheetStep ==
    ASSUME ButtonInv, NEW t \in W!Sessions, sheets[t].state = "open",
           NEW o \in W!SessionRecords, sheets' = [sheets EXCEPT ![t] = o],
           o.of = sheets[t].of, o.told = sheets[t].told,
           UNCHANGED <<wallet, W!loader, activeButton>>,
           \/ o.state = "open" /\ UNCHANGED buttons
           \/ o.state = "over" /\ buttons[o.of].phase # "shown" /\ UNCHANGED buttons
           \/ o.state = "over" /\ buttons' = [buttons EXCEPT ![o.of].tracked = 0]
    PROVE  ButtonInv' /\ [W!Flow!Next]_(W!Flow!vars)
<1>. DEFINE m == sheets[t].of
<1>1. /\ wallet = "applepay" /\ m \in W!Mounts /\ buttons[m].phase \in Live
      /\ buttons[m].tracked = t /\ buttons[m].result = "pending" /\ t # 0
  BY DEF ButtonInv, SheetsOwned, W!SheetTracked, W!Sessions
<1>2. /\ sheets' \in [W!Sessions -> W!SessionRecords]
      /\ sheets'[t] = o
      /\ \A u \in W!Sessions \ {t} : sheets'[u] = sheets[u]
  BY DEF ButtonInv, W!TypeOK
<1>3. /\ buttons' \in [W!Mounts -> W!MountRecords]
      /\ \A n \in W!Mounts \ {m} : buttons'[n] = buttons[n]
      /\ buttons'[m].tracked \in {0, t}
      /\ buttons'[m].tracked = t => buttons'[m] = buttons[m]
      /\ buttons'[m].tracked = 0 => o.state = "over"
      /\ buttons'[m].phase = buttons[m].phase /\ buttons'[m].result = buttons[m].result
      /\ buttons'[m].charge = buttons[m].charge /\ buttons'[m].told = buttons[m].told
      /\ SoundButton(wallet, buttons'[m])
      /\ o.state = "over" /\ buttons[m].phase = "shown" => buttons'[m].tracked = 0
  <2>1. CASE UNCHANGED buttons
    <3>1. o.state = "over" => buttons[m].phase # "shown"
      <4>1. buttons[m].tracked # 0 /\ buttons \in [W!Mounts -> W!MountRecords]
        BY <1>1 DEF ButtonInv, W!TypeOK
      <4>2. buttons' # [buttons EXCEPT ![o.of].tracked = 0]
        BY <1>1, <2>1, <4>1 DEF W!MountRecords
      <4>. QED
        BY <2>1, <4>2
    <3>2. SoundButton(wallet, buttons[m])
      BY <1>1, ButtonFacts
    <3>3. buttons \in [W!Mounts -> W!MountRecords]
      BY DEF ButtonInv, W!TypeOK
    <3>. QED
      BY <1>1, <2>1, <3>1, <3>2, <3>3
  <2>2. CASE o.state = "over" /\ buttons' = [buttons EXCEPT ![o.of].tracked = 0]
    <3>. DEFINE s == [buttons[m] EXCEPT !.tracked = 0]
    <3>1. buttons[m] \in W!MountRecords /\ SoundButton(wallet, buttons[m])
      BY <1>1, ButtonFacts
    <3>2. buttons' = [buttons EXCEPT ![m] = s]
      BY <2>2
    <3>3. /\ s \in W!MountRecords /\ s.tracked = 0 /\ s.phase = buttons[m].phase
          /\ s.result = buttons[m].result /\ s.charge = buttons[m].charge
          /\ s.told = buttons[m].told /\ s.sheet = buttons[m].sheet
          /\ s.aborted = buttons[m].aborted /\ s.authorized = buttons[m].authorized
          /\ s.charging = buttons[m].charging
      <4>1. 0 \in 0 .. MaxSheets
        BY SheetsAssumption
      <4>. QED
        BY <3>1, <4>1 DEF W!MountRecords
    <3>. HIDE DEF s
    <3>4. SoundButton(wallet, s)
      BY <3>1, <3>3 DEF SoundButton
    <3>5. buttons \in [W!Mounts -> W!MountRecords]
      BY DEF ButtonInv, W!TypeOK
    <3>. QED
      BY <1>1, <2>2, <3>2, <3>3, <3>4, <3>5
  <2>. QED
    BY <2>1, <2>2
<1>. HIDE DEF m
<1>4. o.of = m /\ sheets[t].of = m
  BY DEF m
<1>5. UNCHANGED W!Flow!vars
  BY <1>3 DEF W!Flow!vars
<1>6. W!TypeOK' /\ ScriptOnce'
  BY <1>2, <1>3 DEF ButtonInv, W!TypeOK, ScriptOnce, W!loader
<1>7. ButtonsSound'
  BY <1>3 DEF ButtonInv, ButtonsSound
<1>8. \A u \in W!Sessions :
          /\ sheets'[u].of = sheets[u].of /\ sheets'[u].told = sheets[u].told
          /\ sheets'[u].state = "unused" => sheets[u].state = "unused"
          /\ sheets'[u].state = "open" => sheets[u].state = "open"
  <2>1. o.state \in {"open", "over"}
    OBVIOUS
  <2>. QED
    BY <1>2, <2>1
<1>9. \A n \in W!Mounts :
          /\ buttons'[n].phase = buttons[n].phase
          /\ buttons'[n].result = buttons[n].result
          /\ buttons'[n].charge = buttons[n].charge
          /\ buttons'[n].tracked # 0 => buttons'[n].tracked = buttons[n].tracked
  BY <1>1, <1>3
<1>10. \A n \in W!Mounts :
          buttons'[n].tracked # 0 =>
              /\ sheets'[buttons'[n].tracked].of = n
              /\ buttons'[n].phase = "shown" => sheets'[buttons'[n].tracked].state = "open"
  <2>. SUFFICES ASSUME NEW n \in W!Mounts, buttons'[n].tracked # 0
                PROVE  /\ sheets'[buttons'[n].tracked].of = n
                       /\ buttons'[n].phase = "shown" =>
                              sheets'[buttons'[n].tracked].state = "open"
    OBVIOUS
  <2>1. buttons'[n].tracked = buttons[n].tracked /\ buttons[n].tracked \in W!Sessions
    BY <1>9, SheetsAssumption DEF ButtonInv, W!TypeOK, W!MountRecords, W!Sessions
  <2>2. sheets[buttons[n].tracked].of = n
    BY <2>1 DEF ButtonInv, SheetsOwned
  <2>3. buttons[n].phase = "shown" => sheets[buttons[n].tracked].state = "open"
    BY <2>1 DEF ButtonInv, W!SheetTracked
  <2>4. buttons[n].tracked = t => n = m
    BY <1>4, <2>2
  <2>5. buttons[n].tracked = t /\ buttons'[n].phase = "shown" => o.state = "open"
    BY <1>1, <1>3, <2>1, <2>4
  <2>. QED
    BY <1>2, <1>8, <1>9, <2>1, <2>2, <2>3, <2>5
<1>11. \A u \in W!Sessions :
          sheets'[u].state = "open" =>
              /\ wallet = "applepay" /\ sheets'[u].of \in W!Mounts
              /\ buttons'[sheets'[u].of].phase \in Live
              /\ buttons'[sheets'[u].of].tracked = u
              /\ buttons'[sheets'[u].of].result = "pending"
  <2>. SUFFICES ASSUME NEW u \in W!Sessions, sheets'[u].state = "open"
                PROVE  /\ wallet = "applepay" /\ sheets[u].of \in W!Mounts
                       /\ buttons'[sheets[u].of].phase \in Live
                       /\ buttons'[sheets[u].of].tracked = u
                       /\ buttons'[sheets[u].of].result = "pending"
    BY <1>8
  <2>1. /\ wallet = "applepay" /\ sheets[u].of \in W!Mounts
        /\ buttons[sheets[u].of].phase \in Live
        /\ buttons[sheets[u].of].tracked = u
        /\ buttons[sheets[u].of].result = "pending"
    BY <1>8 DEF ButtonInv, SheetsOwned, W!SheetTracked
  <2>2. buttons'[sheets[u].of].tracked = u
    <3>1. CASE sheets[u].of # m
      BY <1>3, <2>1, <3>1
    <3>2. CASE sheets[u].of = m
      <4>1. u = t
        BY <1>1, <2>1, <3>2
      <4>2. o.state = "open"
        BY <1>2, <4>1
      <4>. QED
        BY <1>3, <3>2, <4>1, <4>2
    <3>. QED
      BY <3>1, <3>2
  <2>. QED
    BY <1>9, <2>1, <2>2
<1>12. \A u \in W!Sessions :
          sheets'[u].told = "success" =>
              sheets'[u].of \in W!Mounts /\ buttons'[sheets'[u].of].charge = "succeeded"
  <2>. SUFFICES ASSUME NEW u \in W!Sessions, sheets[u].told = "success"
                PROVE  sheets[u].of \in W!Mounts /\ buttons'[sheets[u].of].charge = "succeeded"
    BY <1>8
  <2>1. sheets[u].of \in W!Mounts /\ buttons[sheets[u].of].charge = "succeeded"
    BY DEF ButtonInv, SheetsOwned, W!SheetTracked
  <2>. QED
    BY <1>9, <2>1
<1>13. \A u \in W!Sessions : sheets'[u].state = "unused" => sheets'[u].of = 0
  BY <1>8 DEF ButtonInv, SheetsOwned
<1>14. SheetsOwned'
  BY <1>10, <1>11, <1>12, <1>13 DEF SheetsOwned
<1>15. W!SheetTracked'
  BY <1>10, <1>11, <1>12 DEF W!SheetTracked
<1>. QED
  BY <1>5, <1>6, <1>7, <1>14, <1>15 DEF ButtonInv

LEMMA SheetSteps ==
    ASSUME ButtonInv, NEW t \in W!Sessions,
           \/ W!Validated(t) \/ W!ValidationFails(t) \/ W!Cancel(t) \/ W!Abandon(t) \/ W!Authorize(t)
    PROVE  ButtonInv' /\ [W!Flow!Next]_(W!Flow!vars)
<1>. DEFINE m == sheets[t].of
<1>1. /\ sheets[t].state = "open" /\ sheets[t] \in W!SessionRecords
      /\ sheets \in [W!Sessions -> W!SessionRecords]
  BY DEF W!Validated, W!ValidationFails, W!Cancel, W!Abandon, W!Authorize, ButtonInv,
     W!TypeOK
<1>2. /\ wallet = "applepay" /\ m \in W!Mounts /\ buttons[m].phase \in Live
      /\ buttons[m].result = "pending"
      /\ buttons[m] \in W!MountRecords /\ SoundButton(wallet, buttons[m])
  BY <1>1, ButtonFacts DEF ButtonInv, SheetsOwned, W!SheetTracked
<1>3. CASE W!Validated(t)
  <2>. DEFINE o == [sheets[t] EXCEPT !.validation = "granted"]
  <2>1. /\ sheets' = [sheets EXCEPT ![t] = o]
        /\ UNCHANGED <<wallet, W!loader, activeButton, buttons>>
    BY <1>1, <1>3 DEF W!Validated
  <2>2. /\ o \in W!SessionRecords /\ o.state = "open" /\ o.of = sheets[t].of
        /\ o.told = sheets[t].told
    BY <1>1 DEF W!SessionRecords
  <2>. HIDE DEF o
  <2>. QED
    BY <1>1, <2>1, <2>2, SheetStep
<1>4. ASSUME sheets' = [sheets EXCEPT ![t].state = "over"],
             UNCHANGED <<wallet, W!loader, activeButton>>,
             \/ buttons[m].phase # "shown" /\ UNCHANGED buttons
             \/ buttons' = [buttons EXCEPT ![m].tracked = 0]
      PROVE  ButtonInv' /\ [W!Flow!Next]_(W!Flow!vars)
  <2>. DEFINE o == [sheets[t] EXCEPT !.state = "over"]
  <2>1. sheets' = [sheets EXCEPT ![t] = o]
    BY <1>1, <1>4
  <2>2. /\ o \in W!SessionRecords /\ o.state = "over" /\ o.of = sheets[t].of
        /\ o.told = sheets[t].told
    BY <1>1 DEF W!SessionRecords
  <2>. HIDE DEF o
  <2>. QED
    BY <1>1, <1>4, <2>1, <2>2, SheetStep
<1>5. CASE W!ValidationFails(t) \/ W!Cancel(t)
  BY <1>4, <1>5 DEF W!ValidationFails, W!Cancel, W!SheetGone
<1>6. CASE W!Abandon(t)
  <2>1. buttons[m].phase # "shown"
    BY <1>2, <1>6 DEF W!Abandon, SoundButton
  <2>. QED
    BY <1>4, <1>6, <2>1 DEF W!Abandon
<1>7. CASE W!Authorize(t)
  <2>1. buttons[m].phase = "shown" /\ ~buttons[m].aborted
    BY <1>2, <1>7 DEF W!Authorize, SoundButton, Live
  <2>2. CASE W!Charge(m, TRUE)
    BY <1>2, <2>1, <2>2, ChargeStep
  <2>3. CASE W!DataMissing(m)
    BY <1>2, <2>3, EndsStep DEF W!DataMissing
  <2>. QED
    BY <1>7, <2>2, <2>3 DEF W!Authorize
<1>. QED
  BY <1>3, <1>5, <1>6, <1>7

LEMMA GoogleSteps ==
    ASSUME ButtonInv, NEW m \in W!Mounts,
           W!GoogleTap(m) \/ W!GoogleCancelled(m) \/ W!GoogleFails(m) \/ W!GoogleApproved(m)
    PROVE  ButtonInv' /\ [W!Flow!Next]_(W!Flow!vars)
<1>. DEFINE r == buttons[m]
<1>1. r \in W!MountRecords /\ SoundButton(wallet, r)
  BY ButtonFacts
<1>2. r.sheet => wallet = "googlepay" /\ (~r.aborted => r.phase = "shown")
  BY <1>1 DEF SoundButton
<1>3. ASSUME NEW sheet \in BOOLEAN, W!Becomes(m, [r EXCEPT !.sheet = sheet]),
             sheet => wallet = "googlepay" /\ r.phase = "shown"
      PROVE  ButtonInv' /\ [W!Flow!Next]_(W!Flow!vars)
  <2>. DEFINE s == [r EXCEPT !.sheet = sheet]
  <2>1. /\ s \in W!MountRecords /\ s.sheet = sheet /\ s.phase = r.phase
        /\ s.charge = r.charge
        /\ s.result = r.result /\ s.told = r.told /\ s.tracked = r.tracked
        /\ s.aborted = r.aborted /\ s.authorized = r.authorized /\ s.charging = r.charging
    BY <1>1 DEF W!MountRecords
  <2>2. W!Becomes(m, s)
    BY <1>3
  <2>. HIDE DEF s
  <2>3. SoundButton(wallet, s)
    BY <1>1, <1>3, <2>1 DEF SoundButton, W!Waiting, W!Charging
  <2>4. GoodButton(wallet, r, s)
    BY <2>1, <2>3 DEF GoodButton, Follows, Outcome
  <2>. QED
    BY <2>1, <2>2, <2>4, ButtonBecomes
<1>4. CASE W!GoogleTap(m)
  BY <1>3, <1>4 DEF W!GoogleTap
<1>5. CASE W!GoogleCancelled(m)
  BY <1>3, <1>5 DEF W!GoogleCancelled
<1>6. CASE W!GoogleFails(m)
  BY <1>6, EndsStep DEF W!GoogleFails
<1>7. CASE W!GoogleApproved(m)
  <2>1. CASE r.aborted
    BY <1>3, <1>7, <2>1 DEF W!GoogleApproved
  <2>2. CASE ~r.aborted /\ W!Charge(m, FALSE)
    BY <1>2, <1>7, <2>2, ChargeStep DEF W!GoogleApproved
  <2>3. CASE W!TokenUnusable(m)
    BY <2>3, EndsStep DEF W!TokenUnusable
  <2>. QED
    BY <1>7, <2>1, <2>2, <2>3 DEF W!GoogleApproved
<1>. QED
  BY <1>4, <1>5, <1>6, <1>7

-----------------------------------------------------------------------------
(* The charge.                                                              *)

LEMMA WalletChargeSteps ==
    ASSUME ButtonInv, NEW m \in W!Mounts,
           W!Send(m) \/ W!Accepted(m) \/ W!GoPayMoves(m) \/ W!PageRestored(m)
    PROVE  ButtonInv' /\ [W!Flow!Next]_(W!Flow!vars)
<1>. DEFINE r == buttons[m]
<1>1. r \in W!MountRecords /\ SoundButton(wallet, r)
  BY ButtonFacts
<1>2. ASSUME NEW s \in W!MountRecords, W!Becomes(m, s),
             s.tracked = r.tracked, s.result = r.result, s.told = r.told,
             s.aborted = r.aborted, s.authorized = r.authorized, s.sheet = r.sheet,
             s.charging = r.charging,
             s.phase = r.phase \/ (s.phase \in {"posting", "polling"} /\ r.phase \in W!Charging),
             s.charge = r.charge \/ r.phase = "preparing" \/ r.charge # "none",
             s.phase = "preparing" => s.charge = "none",
             Follows(Outcome(r), Outcome(s))
      PROVE  ButtonInv' /\ [W!Flow!Next]_(W!Flow!vars)
  <2>1. SoundButton(wallet, s)
    BY <1>1, <1>2 DEF SoundButton, W!Waiting, W!Charging
  <2>2. GoodButton(wallet, r, s)
    BY <1>2, <2>1 DEF GoodButton
  <2>3. s.phase # "loading" \/ r.phase = "loading"
    BY <1>2
  <2>4. r.phase \in Live => s.phase \in Live
    BY <1>2 DEF Live, W!Charging
  <2>5. s.phase = "shown" => r.phase = "shown"
    BY <1>2
  <2>. QED
    BY <1>2, <2>2, <2>3, <2>4, <2>5, ButtonBecomes
<1>3. CASE W!Send(m)
  <2>. DEFINE s == [r EXCEPT !.phase = "posting", !.charge = "sent"]
  <2>1. W!Becomes(m, s) /\ r.phase = "preparing" /\ ~r.aborted
    BY <1>3 DEF W!Send
  <2>2. /\ s \in W!MountRecords /\ s.phase = "posting" /\ s.charge = "sent"
        /\ s.tracked = r.tracked /\ s.result = r.result /\ s.told = r.told
        /\ s.aborted = r.aborted /\ s.authorized = r.authorized /\ s.sheet = r.sheet
        /\ s.charging = r.charging
    BY <1>1 DEF W!MountRecords, W!Charging
  <2>. HIDE DEF s
  <2>3. Follows(Outcome(r), Outcome(s))
    BY <1>1, <2>1, <2>2 DEF Follows, Outcome, SoundButton, W!Charging
  <2>. QED
    BY <1>2, <2>1, <2>2, <2>3 DEF W!Charging
<1>4. CASE W!Accepted(m)
  <2>. DEFINE s == [r EXCEPT !.phase = "polling"]
  <2>1. W!Becomes(m, s) /\ r.phase = "posting"
    BY <1>4 DEF W!Accepted
  <2>2. /\ s \in W!MountRecords /\ s.phase = "polling" /\ s.charge = r.charge
        /\ s.tracked = r.tracked /\ s.result = r.result /\ s.told = r.told
        /\ s.aborted = r.aborted /\ s.authorized = r.authorized /\ s.sheet = r.sheet
        /\ s.charging = r.charging
    BY <1>1 DEF W!MountRecords, W!Charging
  <2>. HIDE DEF s
  <2>3. Follows(Outcome(r), Outcome(s))
    BY <2>2 DEF Follows, Outcome
  <2>. QED
    BY <1>2, <2>1, <2>2, <2>3 DEF W!Charging
<1>5. CASE W!GoPayMoves(m)
  <2>1. PICK c \in {"open", "refused", "challenged", "succeeded", "failed"} :
            /\ \/ r.charge = "sent" /\ c \in {"open", "refused"}
               \/ r.charge \in {"open", "challenged"} /\ c \in {"challenged", "succeeded", "failed"}
            /\ W!Becomes(m, [r EXCEPT !.charge = c])
    BY <1>5 DEF W!GoPayMoves
  <2>. DEFINE s == [r EXCEPT !.charge = c]
  <2>2. /\ s \in W!MountRecords /\ s.phase = r.phase /\ s.charge = c
        /\ s.tracked = r.tracked /\ s.result = r.result /\ s.told = r.told
        /\ s.aborted = r.aborted /\ s.authorized = r.authorized /\ s.sheet = r.sheet
        /\ s.charging = r.charging
    BY <1>1, <2>1 DEF W!MountRecords
  <2>3. W!Becomes(m, s)
    BY <2>1
  <2>. HIDE DEF s
  <2>4. Follows(Outcome(r), Outcome(s))
    BY <2>1, <2>2 DEF Follows, Outcome
  <2>5. r.phase # "preparing"
    BY <1>1, <2>1 DEF SoundButton
  <2>. QED
    BY <1>2, <2>1, <2>2, <2>3, <2>4, <2>5
<1>6. CASE W!PageRestored(m)
  <2>. DEFINE s == [r EXCEPT !.deaf = TRUE]
  <2>1. W!Becomes(m, s) /\ r.phase = "polling"
    BY <1>6 DEF W!PageRestored
  <2>2. /\ s \in W!MountRecords /\ s.phase = r.phase /\ s.charge = r.charge
        /\ s.tracked = r.tracked /\ s.result = r.result /\ s.told = r.told
        /\ s.aborted = r.aborted /\ s.authorized = r.authorized /\ s.sheet = r.sheet
        /\ s.charging = r.charging
    BY <1>1 DEF W!MountRecords
  <2>. HIDE DEF s
  <2>3. Follows(Outcome(r), Outcome(s))
    BY <2>2 DEF Follows, Outcome
  <2>. QED
    BY <1>2, <2>1, <2>2, <2>3
<1>. QED
  BY <1>3, <1>4, <1>5, <1>6

LEMMA WalletEndSteps ==
    ASSUME ButtonInv, NEW m \in W!Mounts,
           \/ W!RequestFails(m) \/ W!PollFails(m) \/ W!PollEnds(m) \/ W!RefuseChallenge(m)
           \/ W!AbortStops(m) \/ W!Unmount(m)
    PROVE  ButtonInv' /\ [W!Flow!Next]_(W!Flow!vars)
<1>1. CASE W!RequestFails(m) \/ W!PollFails(m) \/ W!RefuseChallenge(m)
  <2>1. buttons[m].phase \in W!Charging /\ W!FlowEnds(m, "error", "failure")
    BY <1>1 DEF W!RequestFails, W!PollFails, W!RefuseChallenge, W!Charging
  <2>. QED
    BY <2>1, FlowEndsStep
<1>2. CASE W!PollEnds(m)
  <2>1. buttons[m].phase \in W!Charging
    BY <1>2 DEF W!PollEnds, W!Charging
  <2>2. CASE buttons[m].charge = "succeeded" /\ W!FlowEnds(m, "succeeded", "success")
    BY <2>1, <2>2, FlowEndsStep
  <2>3. CASE buttons[m].charge = "failed" /\ W!FlowEnds(m, "failed", "failure")
    BY <2>1, <2>3, FlowEndsStep
  <2>. QED
    BY <1>2, <2>2, <2>3 DEF W!PollEnds
<1>3. CASE W!AbortStops(m)
  BY <1>3, EndsStep DEF W!AbortStops
<1>4. CASE W!Unmount(m)
  <2>. DEFINE s == W!Unmounted(buttons[m])
  <2>1. /\ buttons[m].phase \in Live /\ buttons[m].result = "pending"
        /\ buttons' = [buttons EXCEPT ![m] = s] /\ W!Release(m) /\ W!CloseSheet(m, "none")
        /\ UNCHANGED <<wallet, W!loader>>
    BY <1>4 DEF W!Unmount, Live, ButtonInv, W!TypeOK
  <2>2. GoodButton(wallet, buttons[m], s) /\ s.tracked = 0 /\ s.phase \in {"over"} \cup W!Charging
    BY <2>1, ButtonFacts, UnmountedButton
  <2>3. s.phase # "loading"
    BY <2>2 DEF W!Charging
  <2>. HIDE DEF s
  <2>. QED
    BY <2>1, <2>2, <2>3, ClosingStep
<1>. QED
  BY <1>1, <1>2, <1>3, <1>4

-----------------------------------------------------------------------------

LEMMA InitButtonInv == W!Init => ButtonInv /\ W!Flow!Init
<1>. SUFFICES ASSUME W!Init PROVE ButtonInv /\ W!Flow!Init
  OBVIOUS
<1>1. \A m \in W!Mounts :
          /\ buttons[m] \in W!MountRecords /\ SoundButton(wallet, buttons[m])
          /\ buttons[m].phase = "unused" /\ buttons[m].tracked = 0
          /\ buttons[m].charge = "none" /\ buttons[m].result = "pending"
          /\ buttons[m].told = "none"
  BY SheetsAssumption DEF W!Init, W!MountRecords, SoundButton, W!Waiting, W!Charging
<1>2. \A t \in W!Sessions :
          /\ sheets[t] \in W!SessionRecords /\ sheets[t].state = "unused"
          /\ sheets[t].of = 0 /\ sheets[t].told = "none"
  BY ButtonsAssumption DEF W!Init, W!SessionRecords
<1>3. W!TypeOK
  BY <1>1, <1>2, ButtonsAssumption DEF W!Init, W!TypeOK
<1>4. ScriptOnce /\ ButtonsSound /\ SheetsOwned /\ W!SheetTracked
  BY <1>1, <1>2 DEF W!Init, ScriptOnce, ButtonsSound, SheetsOwned, W!SheetTracked
<1>5. W!Flow!Init
  BY <1>1 DEF W!Flow!Init
<1>. QED
  BY <1>3, <1>4, <1>5 DEF ButtonInv

LEMMA NextButtonInv == ButtonInv /\ [W!Next]_W!vars => ButtonInv' /\ [W!Flow!Next]_(W!Flow!vars)
<1>. SUFFICES ASSUME ButtonInv, [W!Next]_W!vars PROVE ButtonInv' /\ [W!Flow!Next]_(W!Flow!vars)
  OBVIOUS
<1>1. CASE W!Probe \/ W!ScriptLoads \/ W!ScriptFails
  BY <1>1, ScriptSteps
<1>2. ASSUME NEW m \in W!Mounts,
             \/ W!MountRefused(m) \/ W!Mount(m)
             \/ W!Blocked(m) \/ W!AppleAnswers(m) \/ W!InfoAnswered(m)
             \/ W!Ready(m) \/ W!NotReady(m) \/ W!ButtonThrows(m)
             \/ \E t \in W!Sessions : W!AppleTap(m, t)
             \/ W!AppleTapThrows(m)
             \/ W!GoogleTap(m) \/ W!GoogleCancelled(m) \/ W!GoogleFails(m) \/ W!GoogleApproved(m)
             \/ W!RequestEnds(m) \/ W!GoPayMoves(m) \/ W!PollFails(m) \/ W!PollEnds(m)
             \/ W!RefuseChallenge(m) \/ W!PageRestored(m) \/ W!AbortStops(m) \/ W!Unmount(m)
      PROVE  ButtonInv' /\ [W!Flow!Next]_(W!Flow!vars)
  <2>1. CASE W!MountRefused(m) \/ W!Mount(m)
    BY <2>1, MountSteps
  <2>2. CASE \/ W!Blocked(m) \/ W!AppleAnswers(m) \/ W!InfoAnswered(m)
             \/ W!Ready(m) \/ W!NotReady(m) \/ W!ButtonThrows(m)
    BY <2>2, WaitingSteps
  <2>3. CASE W!AppleTapThrows(m) \/ \E t \in W!Sessions : W!AppleTap(m, t)
    BY <2>3, TapSteps
  <2>4. CASE W!GoogleTap(m) \/ W!GoogleCancelled(m) \/ W!GoogleFails(m) \/ W!GoogleApproved(m)
    BY <2>4, GoogleSteps
  <2>5. CASE W!Send(m) \/ W!Accepted(m) \/ W!GoPayMoves(m) \/ W!PageRestored(m)
    BY <2>5, WalletChargeSteps
  <2>6. CASE \/ W!RequestFails(m) \/ W!PollFails(m) \/ W!PollEnds(m) \/ W!RefuseChallenge(m)
             \/ W!AbortStops(m) \/ W!Unmount(m)
    BY <2>6, WalletEndSteps
  <2>. QED
    BY <1>2, <2>1, <2>2, <2>3, <2>4, <2>5, <2>6 DEF W!RequestEnds
<1>3. CASE \E t \in W!Sessions :
              \/ W!Validated(t) \/ W!ValidationFails(t) \/ W!Cancel(t) \/ W!Abandon(t)
              \/ W!Authorize(t)
  BY <1>3, SheetSteps
<1>4. CASE UNCHANGED W!vars
  <2>1. UNCHANGED W!Flow!vars
    BY <1>4 DEF W!vars, W!Flow!vars
  <2>2. ButtonInv'
    BY <1>4 DEF W!vars, W!loader, ButtonInv, W!TypeOK, ScriptOnce, ButtonsSound,
       SheetsOwned,
       W!SheetTracked
  <2>. QED
    BY <2>1, <2>2
<1>. QED
  BY <1>1, <1>2, <1>3, <1>4 DEF W!Next

(* What a button's state may hold.                                          *)
THEOREM ButtonsTypeCorrect == W!Spec => []W!TypeOK
<1>1. ButtonInv => W!TypeOK
  BY DEF ButtonInv
<1>. QED
  BY <1>1, InitButtonInv, NextButtonInv, PTL DEF W!Spec

(* load-script.ts:1-5,39-41: one script element, however many mounts and    *)
(* probes ask for it and however often it fails, and no mount waits for one *)
(* that is not on its way.                                                  *)
THEOREM OneScript == W!Spec => []ScriptShared
<1>1. ButtonInv => ScriptShared
  BY DEF ButtonInv, ScriptOnce, ScriptShared, W!ScriptShared
<1>. QED
  BY <1>1, InitButtonInv, NextButtonInv, PTL DEF W!Spec

(* wallets.module.ts:1196-1203,1399-1405,1440-1447: no sheet is left        *)
(* behind, no button is dead without one, and a sheet that shows success    *)
(* was paid.                                                                *)
THEOREM SheetsAreTracked == W!Spec => []SheetTracked
<1>1. ButtonInv => SheetTracked
  BY DEF ButtonInv, SheetTracked
<1>. QED
  BY <1>1, InitButtonInv, NextButtonInv, PTL DEF W!Spec

(* wallets.module.ts:79-94: each button keeps the promises of ChargeFlow.   *)
THEOREM ButtonsImplementation == W!Spec => ButtonsImplementChargeFlow
<1>1. W!Flow!Init /\ [][W!Flow!Next]_(W!Flow!vars) => W!Flow!Spec
  BY PTL DEF W!Flow!Spec
<1>. QED
  BY <1>1, InitButtonInv, NextButtonInv, PTL DEF W!Spec, ButtonsImplementChargeFlow,
     W!ImplementsChargeFlow

=============================================================================
