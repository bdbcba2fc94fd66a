------------------------- MODULE HttpRequestProofs -------------------------
(***************************************************************************)
(* SentOnce, StoppedSendsNothing and ReportedOnce for any calls.  The      *)
(* invariant says of each call what it may have sent, recorded and been    *)
(* told of a signal in the stretch it is in (Well), of each error that it  *)
(* was heard once or not at all (Sound), and of the two together that a    *)
(* call which fails does so with an error that will not be overwritten     *)
(* (Failures).  At the end, for ids of any length, what an id becomes in   *)
(* the path of a request.                                                  *)
(***************************************************************************)
EXTENDS MCHttpRequest, Sequences, SequenceTheorems, FiniteSetTheorems, TLAPS

USE NoCallAssumption, MethodsAssumption

Early == {"idle", "refreshing", "refreshed", "collecting", "detecting"}
Failing == {"unrefreshed", "thrown", "rejected"}

Most(kind) == IF Idempotent(kind) THEN MaxRetries + 1 ELSE 1

One(b) == IF b THEN 1 ELSE 0

(* What has gone out: an attempt a request, and one more after a 401.       *)
WellSent(r) ==
    /\ r.phase \in Early => r.sent = 0
    /\ r.phase \in {"fetching", "sleeping"} => r.sent <= r.attempts /\ r.attempts <= Most(r.kind)
    /\ r.phase = "sleeping" => r.attempts < Most(r.kind)
    /\ r.phase \in {"refreshing401", "refreshed401"} => r.refused /\ r.sent <= Most(r.kind)
    /\ r.sent <= Most(r.kind) + One(r.refused)

(* A signal that has fired is kept; the caller's has fired the combined one.*)
WellSignalled(r) ==
    /\ r.cause # "none" => r.phase \in UnderSignal \cup {"unrefreshed"}
    /\ r.caller # "none" /\ r.phase \in UnderSignal => r.cause # "none"
    /\ r.phase = "idle" => r.caller = "none"

(* An API call that is open has not been recorded yet.                      *)
WellRecorded(r) ==
    /\ r.phase \in Early => ~r.issued
    /\ r.phase \in UnderSignal \ {"collecting", "detecting"} => r.issued
    /\ r.phase = "collecting" => r.opened = r.records + 1
    /\ r.phase = "detecting" => r.records > 0
    /\ r.phase \in Settled \cup {"thrown"} => r.opened = r.records
    /\ r.phase \notin Settled \cup {"thrown", "collecting"} =>
          r.opened = r.records + One(r.issued)

Well(r) == r \in CallRecords /\ WellSent(r) /\ WellSignalled(r) /\ WellRecorded(r)

Sound(e) ==
    /\ e \in ErrorRecords
    /\ e.heard = One(e.reported)
    /\ e.events = One(e.reported /\ e.kind # "http")

(* The error a call fails with has been raised, in a call that fails, too,  *)
(* and raises no other; only its own can be an HTTP error.                  *)
FailsWith(c) ==
    LET f == call[c].failure IN
    /\ f \in Calls
    /\ call[f].phase \in Failing
    /\ error[f].kind # "none"
    /\ call[c].phase = "rejected" => error[f].reported
    /\ error[f].kind = "http" => f = c /\ call[c].records > 0

Failures == \A c \in Calls : call[c].phase \in Failing => FailsWith(c)

(* The call that runs the refresh waits for it, too.                        *)
Refresher == flight # NoCall => call[flight].phase \in Waiting

IInv ==
    /\ TypeOK
    /\ \A c \in Calls : Well(call[c]) /\ Sound(error[c])
    /\ Failures
    /\ Refresher

-----------------------------------------------------------------------------

LEMMA PhaseFacts ==
  /\ Early \subseteq Phases /\ Failing \subseteq Phases
  /\ UnderSignal \subseteq Phases /\ Waiting \subseteq Phases /\ Settled \subseteq Phases
BY DEF Early, Failing, UnderSignal, Waiting, Settled, Phases

(* A call that has done nothing.                                            *)
Blank(n) ==
    /\ n.phase = "idle" /\ n.cause = "none" /\ n.caller = "none" /\ ~n.issued
    /\ n.sent = 0 /\ n.opened = 0 /\ n.records = 0 /\ ~n.refused

LEMMA BlankWell ==
  ASSUME NEW n \in CallRecords, Blank(n)
  PROVE  Well(n)
<1>1. WellSent(n)
  BY DEF Blank, WellSent, Early, Most, One, MaxRetries
<1>2. WellSignalled(n)
  BY DEF Blank, WellSignalled
<1>3. WellRecorded(n)
  BY DEF Blank, WellRecorded, Early, Settled, One, UnderSignal
<1> QED
  BY <1>1, <1>2, <1>3 DEF Well

LEMMA NewCallBlank == NewCall \in CallRecords /\ Blank(NewCall)
BY DEF NewCall, CallRecords, Phases, Blank

LEMMA NewCallWell ==
  ASSUME NEW kind \in Kinds
  PROVE  LET n == [NewCall EXCEPT !.kind = kind] IN
         Well(n) /\ Blank(n) /\ n.kind = kind
<1> DEFINE n == [NewCall EXCEPT !.kind = kind]
<1>1. n \in CallRecords /\ n.kind = kind
  BY NewCallBlank DEF CallRecords
<1>2. Blank(n)
  BY NewCallBlank DEF CallRecords, Blank
<1> HIDE DEF n
<1> QED
  BY <1>1, <1>2, BlankWell DEF n

LEMMA NoErrorSound == Sound(NoError) /\ NoError.kind = "none"
BY DEF Sound, NoError, ErrorRecords, One

LEMMA InitHolds == Init => IInv
<1> SUFFICES ASSUME Init PROVE IInv
  OBVIOUS
<1>1. \A c \in Calls : call[c] = NewCall /\ error[c] = NoError
  BY DEF Init
<1>3. Well(NewCall) /\ NewCall.phase = "idle"
  BY NewCallBlank, BlankWell DEF Blank
<1>4. TypeOK
  BY <1>3, NoErrorSound DEF Init, TypeOK, Well, Sound
<1> QED
  BY <1>1, <1>3, <1>4, NoErrorSound DEF Init, IInv, Failures, Refresher, Failing

-----------------------------------------------------------------------------
(* Errors.                                                                  *)

ErrorKinds == {"http", "sdk", "foreign"}

LEMMA RaisedSound ==
  ASSUME NEW kind \in ErrorKinds, NEW from \in {"none", "request", "token"}
  PROVE  Sound(Raised(kind, from)) /\ Raised(kind, from).kind = kind
         /\ ~Raised(kind, from).reported
BY DEF Sound, Raised, NoError, ErrorRecords, One, ErrorKinds

LEMMA ReportOnceSound ==
  ASSUME NEW e, Sound(e)
  PROVE  /\ Sound(ReportOnce(e))
         /\ ReportOnce(e).kind = e.kind
         /\ ReportOnce(e).reported
<1>1. CASE e.reported
  BY <1>1 DEF ReportOnce
<1>2. CASE ~e.reported
  <2>1. e.heard = 0 /\ e.events = 0 /\ e \in ErrorRecords
    BY <1>2 DEF Sound, One
  <2> DEFINE n == IF e.kind = "http" THEN e.events ELSE e.events + 1
  <2>2. ReportOnce(e) = [e EXCEPT !.reported = TRUE, !.heard = e.heard + 1,
                                  !.heardIds = e.ids, !.events = n]
    BY <1>2 DEF ReportOnce, Heard
  <2>3. n \in Nat /\ n = IF e.kind = "http" THEN 0 ELSE 1
    BY <2>1
  <2> HIDE DEF n
  <2> DEFINE s == ReportOnce(e)
  <2>4. s = [e EXCEPT !.reported = TRUE, !.heard = 1, !.heardIds = e.ids, !.events = n]
    BY <2>1, <2>2
  <2> HIDE DEF s
  <2>5. s \in ErrorRecords
    BY <2>1, <2>3, <2>4 DEF ErrorRecords
  <2>6. s.reported = TRUE /\ s.heard = 1 /\ s.kind = e.kind /\ s.events = n
    BY <2>1, <2>4 DEF ErrorRecords
  <2> QED
    BY <2>3, <2>5, <2>6 DEF Sound, One, s
<1> QED
  BY <1>1, <1>2

LEMMA CorrelatedSound ==
  ASSUME NEW e, Sound(e), NEW from \in {"none", "request", "token"}
  PROVE  /\ Sound(AttachCorrelation(e, from))
         /\ AttachCorrelation(e, from).kind = e.kind
         /\ AttachCorrelation(e, from).reported = e.reported
BY DEF Sound, AttachCorrelation, ErrorRecords, One

LEMMA HandledSound ==
  ASSUME NEW e, Sound(e), NEW issued \in BOOLEAN
  PROVE  /\ Sound(Handled(e, issued))
         /\ Handled(e, issued).kind = e.kind
         /\ e.reported => Handled(e, issued).reported
<1> DEFINE traced == IF issued THEN AttachCorrelation(e, "request") ELSE e
<1>1. Sound(traced) /\ traced.kind = e.kind /\ traced.reported = e.reported
  BY CorrelatedSound
<1>2. Handled(e, issued) = IF e.kind = "foreign" THEN e ELSE ReportOnce(traced)
  BY DEF Handled
<1> HIDE DEF traced
<1> QED
  BY <1>1, <1>2, ReportOnceSound

LEMMA MappedKind == \A reason : Mapped(reason) \in ErrorKinds
BY DEF Mapped, ErrorKinds

-----------------------------------------------------------------------------
(* Records of calls.                                                        *)

LEMMA SentFields ==
  ASSUME NEW r \in CallRecords, NEW phase \in Phases
  PROVE  /\ Sent(r, phase) \in CallRecords
         /\ Sent(r, phase).phase = phase
         /\ Sent(r, phase).sent = IF r.cause = "none" THEN r.sent + 1 ELSE r.sent
         /\ Sent(r, phase).kind = r.kind /\ Sent(r, phase).attempts = r.attempts
         /\ Sent(r, phase).refused = r.refused /\ Sent(r, phase).caller = r.caller
         /\ Sent(r, phase).cause = r.cause /\ Sent(r, phase).issued = r.issued
         /\ Sent(r, phase).opened = r.opened /\ Sent(r, phase).records = r.records
<1> DEFINE n == IF r.cause = "none" THEN r.sent + 1 ELSE r.sent
<1>1. Sent(r, phase) = [r EXCEPT !.phase = phase, !.sent = n]
  BY DEF Sent
<1>2. n \in Nat
  BY DEF CallRecords
<1>3. n = IF r.cause = "none" THEN r.sent + 1 ELSE r.sent
  OBVIOUS
<1> HIDE DEF n
<1> QED
  BY <1>1, <1>2, <1>3 DEF CallRecords

(* What Issued() sends, and how it leaves the call.                         *)
LEMMA IssuedWell ==
  ASSUME NEW r, Well(r), r.cause = "none", r.phase \in {"idle", "detecting", "refreshed"}
  PROVE  /\ Well(Issued(r)) /\ Issued(r).phase = "fetching"
         /\ r.caller # "none" => Issued(r).sent = r.sent
<1> DEFINE n == r.opened + 1
           s == [r EXCEPT !.issued = TRUE, !.opened = n, !.attempts = 1, !.cause = r.caller]
<1>1. r \in CallRecords /\ r.sent = 0 /\ r.opened = r.records /\ ~r.issued
  BY DEF Well, WellSent, WellRecorded, Early, Settled, One, CallRecords
<1>a. n \in Nat /\ n = r.opened + 1
  BY <1>1 DEF CallRecords
<1>b. s \in CallRecords
  <2> HIDE DEF n
  <2> QED
    BY <1>1, <1>a DEF CallRecords
<1>2. /\ s.kind = r.kind /\ s.sent = r.sent /\ s.attempts = 1 /\ s.refused = r.refused
      /\ s.caller = r.caller /\ s.cause = r.caller /\ s.issued = TRUE
      /\ s.opened = r.opened + 1 /\ s.records = r.records
  BY <1>1 DEF CallRecords
<1>3. Issued(r) = Sent(s, "fetching")
  BY DEF Issued
<1>4. "fetching" \in Phases
  BY DEF Phases, UnderSignal
<1> HIDE DEF s
<1>5. /\ Issued(r) \in CallRecords /\ Issued(r).phase = "fetching"
      /\ Issued(r).sent = IF r.caller = "none" THEN 1 ELSE 0
      /\ Issued(r).attempts = 1
      /\ Issued(r).cause = r.caller /\ Issued(r).caller = r.caller
      /\ Issued(r).issued = TRUE
      /\ Issued(r).opened = r.records + 1 /\ Issued(r).records = r.records
  BY <1>1, <1>b, <1>2, <1>3, <1>4, SentFields
<1> HIDE DEF Issued
<1>6. r.records \in Nat /\ Issued(r).refused \in BOOLEAN
  BY <1>1, <1>5 DEF CallRecords
<1>7. WellSent(Issued(r))
  BY <1>5, <1>6 DEF WellSent, Early, Most, One, MaxRetries
<1>8. WellSignalled(Issued(r))
  BY <1>5 DEF WellSignalled, UnderSignal
<1>9. WellRecorded(Issued(r))
  BY <1>5, <1>6 DEF WellRecorded, Early, Settled, One, UnderSignal
<1> QED
  BY <1>1, <1>5, <1>7, <1>8, <1>9 DEF Well

(* A call that has ended, with the failure of f or none.                    *)
EndsWith(r, phase, f) == [Ended(r, phase) EXCEPT !.failure = f, !.records = Recorded(r)]

LEMMA EndedWell ==
  ASSUME NEW r, Well(r), NEW f \in Calls \cup {NoCall}, NEW phase \in Settled \cup {"thrown"},
         r.phase \notin Settled \cup {"thrown", "collecting"}
  PROVE  /\ Well(EndsWith(r, phase, f))
         /\ EndsWith(r, phase, f).phase = phase /\ EndsWith(r, phase, f).failure = f
         /\ EndsWith(r, phase, f).sent = r.sent
         /\ EndsWith(r, phase, f).records = r.records + One(r.issued)
<1> DEFINE e == EndsWith(r, phase, f)
<1>1. r \in CallRecords /\ r.opened = r.records + One(r.issued)
      /\ r.sent <= Most(r.kind) + One(r.refused)
  BY DEF Well, WellRecorded, WellSent
<1>2. Recorded(r) = r.records + One(r.issued) /\ Recorded(r) \in Nat
  BY <1>1 DEF Recorded, One, CallRecords
<1> HIDE DEF Recorded
<1>3. phase \in Phases
  BY PhaseFacts DEF Phases
<1>4. /\ e \in CallRecords
      /\ e.phase = phase /\ e.failure = f /\ e.sent = r.sent /\ e.kind = r.kind
      /\ e.refused = r.refused /\ e.records = Recorded(r) /\ e.opened = r.opened
      /\ e.cause = "none" /\ e.caller = "none"
  BY <1>1, <1>2, <1>3 DEF EndsWith, Ended, CallRecords
<1> HIDE DEF e
<1>5. WellSent(e)
  BY <1>1, <1>4 DEF WellSent, Settled, Early
<1>6. WellSignalled(e)
  BY <1>4 DEF WellSignalled, Settled
<1>7. WellRecorded(e)
  BY <1>1, <1>2, <1>4 DEF WellRecorded, Settled, Early, UnderSignal
<1> QED
  BY <1>2, <1>4, <1>5, <1>6, <1>7 DEF Well, e

-----------------------------------------------------------------------------
(* What a step makes of the invariant, by what becomes of the call.         *)

(* A call that was given up, or whose time is over.                         *)
Stopped(r) == r.caller # "none" \/ (r.cause # "none" /\ r.phase # "detecting")

Silent == \A d \in Calls : Stopped(call[d]) => call'[d].sent = call[d].sent

(* It stays in its stretch, or goes on to another in which it has not failed.*)
LEMMA GoesOn ==
  ASSUME IInv, NEW c \in Calls, NEW r, Well(r),
         Stopped(call[c]) => r.sent = call[c].sent,
         \/ call[c].phase \notin Failing \cup Waiting /\ r.phase \notin Failing
         \/ r.phase = call[c].phase /\ r.failure = call[c].failure /\ r.records = call[c].records,
         call' = [call EXCEPT ![c] = r], error' = error, flight' = flight
  PROVE  IInv' /\ Silent
<1>1. /\ \A d \in Calls : call'[d] = IF d = c THEN r ELSE call[d]
      /\ call \in [Calls -> CallRecords] /\ r \in CallRecords
  BY DEF IInv, TypeOK, Well
<1>2. TypeOK'
  BY <1>1 DEF IInv, TypeOK
<1>3. \A d \in Calls : Well(call'[d]) /\ Sound(error'[d])
  BY <1>1 DEF IInv
<1>4. Failures'
  <2> SUFFICES ASSUME NEW d \in Calls, call'[d].phase \in Failing
               PROVE  FailsWith(d)'
    BY DEF Failures
  <2>1. FailsWith(d) /\ call[d].phase \in Failing
    BY <1>1 DEF IInv, Failures
  <2>2. /\ call'[d].phase = call[d].phase /\ call'[d].failure = call[d].failure
        /\ call'[d].records = call[d].records
    BY <1>1, <2>1
  <2>3. \A f \in Calls : call[f].phase \in Failing => call'[f].phase \in Failing
    BY <1>1
  <2> QED
    BY <2>1, <2>2, <2>3 DEF FailsWith
<1>5. Refresher'
  BY <1>1 DEF IInv, TypeOK, Refresher
<1>6. Silent
  BY <1>1 DEF Silent
<1> QED
  BY <1>2, <1>3, <1>4, <1>5, <1>6 DEF IInv

(* It waits for a token.                                                    *)
LEMMA Waits ==
  ASSUME IInv, NEW c \in Calls, NEW r, Well(r), r.phase \in Waiting,
         Stopped(call[c]) => r.sent = call[c].sent,
         call[c].phase \notin Failing \cup Waiting,
         call' = [call EXCEPT ![c] = r], error' = error,
         flight' = IF flight = NoCall THEN c ELSE flight
  PROVE  IInv' /\ Silent
<1>1. /\ \A d \in Calls : call'[d] = IF d = c THEN r ELSE call[d]
      /\ call \in [Calls -> CallRecords] /\ r \in CallRecords
  BY DEF IInv, TypeOK, Well
<1>2. TypeOK'
  BY <1>1 DEF IInv, TypeOK
<1>3. \A d \in Calls : Well(call'[d]) /\ Sound(error'[d])
  BY <1>1 DEF IInv
<1>4. Failures'
  <2> SUFFICES ASSUME NEW d \in Calls, call'[d].phase \in Failing
               PROVE  FailsWith(d)'
    BY DEF Failures
  <2>1. d # c /\ FailsWith(d)
    BY <1>1 DEF IInv, Failures, Failing, Waiting
  <2> QED
    BY <1>1, <2>1 DEF FailsWith
<1>5. Refresher'
  BY <1>1 DEF IInv, TypeOK, Refresher
<1>6. Silent
  BY <1>1 DEF Silent
<1> QED
  BY <1>2, <1>3, <1>4, <1>5, <1>6 DEF IInv

(* It fails, with an error of its own.                                      *)
LEMMA Fails ==
  ASSUME IInv, NEW c \in Calls, NEW r, Well(r), r.phase = "thrown", r.failure = c,
         NEW e, Sound(e), e.kind \in ErrorKinds, e.kind = "http" => r.records > 0,
         Stopped(call[c]) => r.sent = call[c].sent,
         call[c].phase \notin Failing \cup Waiting,
         call' = [call EXCEPT ![c] = r], error' = [error EXCEPT ![c] = e], flight' = flight
  PROVE  IInv' /\ Silent
<1>1. /\ \A d \in Calls : call'[d] = IF d = c THEN r ELSE call[d]
      /\ \A d \in Calls : error'[d] = IF d = c THEN e ELSE error[d]
      /\ call \in [Calls -> CallRecords] /\ r \in CallRecords
      /\ error \in [Calls -> ErrorRecords] /\ e \in ErrorRecords
  BY DEF IInv, TypeOK, Well, Sound
<1>2. TypeOK'
  BY <1>1 DEF IInv, TypeOK
<1>3. \A d \in Calls : Well(call'[d]) /\ Sound(error'[d])
  BY <1>1 DEF IInv
<1>4. Failures'
  <2> SUFFICES ASSUME NEW d \in Calls, call'[d].phase \in Failing
               PROVE  FailsWith(d)'
    BY DEF Failures
  <2>1. CASE d = c
    BY <1>1, <2>1 DEF FailsWith, ErrorKinds, Failing
  <2>2. CASE d # c
    <3>1. FailsWith(d) /\ call[d].failure # c
      BY <1>1, <2>2 DEF IInv, Failures, FailsWith
    <3> QED
      BY <1>1, <2>2, <3>1 DEF FailsWith
  <2> QED
    BY <2>1, <2>2
<1>5. Refresher'
  BY <1>1 DEF IInv, TypeOK, Refresher
<1>6. Silent
  BY <1>1 DEF Silent
<1> QED
  BY <1>2, <1>3, <1>4, <1>5, <1>6 DEF IInv

(* It has failed, and its error is handed on.                               *)
LEMMA HandsOn ==
  ASSUME IInv, NEW c \in Calls, call[c].phase \in Failing,
         NEW r, Well(r), r.phase \in Failing, r.failure = call[c].failure,
         r.records >= call[c].records, r.sent = call[c].sent,
         NEW e, Sound(e), e.kind = error[call[c].failure].kind,
         error[call[c].failure].reported \/ r.phase = "rejected" => e.reported,
         call' = [call EXCEPT ![c] = r],
         error' = [error EXCEPT ![call[c].failure] = e], flight' = flight
  PROVE  IInv' /\ Silent
<1> DEFINE f == call[c].failure
<1>1. /\ \A d \in Calls : call'[d] = IF d = c THEN r ELSE call[d]
      /\ \A d \in Calls : error'[d] = IF d = f THEN e ELSE error[d]
      /\ call \in [Calls -> CallRecords] /\ r \in CallRecords
      /\ error \in [Calls -> ErrorRecords] /\ e \in ErrorRecords
  BY DEF IInv, TypeOK, Well, Sound
<1>2. TypeOK'
  BY <1>1 DEF IInv, TypeOK
<1>3. \A d \in Calls : Well(call'[d]) /\ Sound(error'[d])
  BY <1>1 DEF IInv
<1>4. Failures'
  <2> SUFFICES ASSUME NEW d \in Calls, call'[d].phase \in Failing
               PROVE  FailsWith(d)'
    BY DEF Failures
  <2>1. /\ FailsWith(d) /\ call'[d].failure = call[d].failure
        /\ call[d].records \in Nat /\ call'[d].records \in Nat
        /\ call'[d].records >= call[d].records
    BY <1>1 DEF IInv, Failures, CallRecords
  <2> DEFINE g == call[d].failure
  <2>2. g \in Calls /\ call'[g].phase \in Failing
    BY <1>1, <2>1 DEF FailsWith
  <2>3. error'[g].kind = error[g].kind /\ (error[g].reported => error'[g].reported)
    BY <1>1, <2>2
  <2>4. call'[d].phase = "rejected" => error'[g].reported
    <3>1. CASE d = c
      BY <1>1, <2>2, <3>1
    <3>2. CASE d # c
      BY <1>1, <2>1, <2>3, <3>2 DEF FailsWith
    <3> QED
      BY <3>1, <3>2
  <2>5. error'[g].kind = "http" => g = d /\ call'[d].records > 0
    BY <2>1, <2>3 DEF FailsWith
  <2> QED
    BY <2>1, <2>2, <2>3, <2>4, <2>5 DEF FailsWith
<1>5. Refresher'
  BY <1>1 DEF IInv, TypeOK, Refresher, Failing, Waiting
<1>6. Silent
  BY <1>1 DEF Silent
<1> QED
  BY <1>2, <1>3, <1>4, <1>5, <1>6 DEF IInv

-----------------------------------------------------------------------------
(* The steps the actions are put together from.                             *)

Running(c) == call[c].phase \notin Failing \cup Waiting

(* r is call c within one step, which sends nothing of its own.             *)
Within(c, r) == Well(r) /\ (Stopped(call[c]) => r.sent = call[c].sent)

LEMMA ThrowsHolds ==
  ASSUME IInv, NEW c \in Calls, Running(c), NEW r, Within(c, r),
         r.phase \notin Settled \cup {"thrown", "collecting"},
         NEW e, Sound(e), e.kind \in ErrorKinds, e.kind = "http" => r.issued,
         Throws(c, r, c, e), UNCHANGED flight
  PROVE  IInv' /\ Silent
<1> DEFINE n == EndsWith(r, "thrown", c)
<1>1. /\ Well(n) /\ n.phase = "thrown" /\ n.failure = c /\ n.sent = r.sent
      /\ n.records = r.records + One(r.issued)
  BY EndedWell DEF Within
<1>2. call' = [call EXCEPT ![c] = n]
  BY DEF Throws, EndsWith
<1> HIDE DEF n
<1>3. r.issued \in BOOLEAN /\ r.records \in Nat
  BY DEF Within, Well, CallRecords
<1>4. Sound(Handled(e, r.issued)) /\ Handled(e, r.issued).kind = e.kind
  BY <1>3, HandledSound
<1>5. error' = [error EXCEPT ![c] = Handled(e, r.issued)]
  BY DEF Throws
<1>6. e.kind = "http" => n.records > 0
  BY <1>1, <1>3 DEF One
<1> QED
  BY <1>1, <1>2, <1>4, <1>5, <1>6, Fails DEF Within, Running

LEMMA EmitsHolds ==
  ASSUME IInv, NEW c \in Calls, Running(c), NEW r, Within(c, r),
         r.phase \notin Settled \cup {"thrown", "collecting"},
         NEW from \in {"none", "request", "token"},
         Emits(c, r, from), UNCHANGED flight
  PROVE  IInv' /\ Silent
<1> DEFINE e == ReportOnce(Raised("sdk", from))
<1>1. Sound(e) /\ e.kind = "sdk"
  BY RaisedSound, ReportOnceSound DEF ErrorKinds
<1>2. Throws(c, r, c, e)
  BY DEF Emits
<1> HIDE DEF e
<1> QED
  BY <1>1, <1>2, ThrowsHolds DEF ErrorKinds

LEMMA ResolvesHolds ==
  ASSUME IInv, NEW c \in Calls, Running(c), NEW r, Within(c, r),
         r.phase \notin Settled \cup {"thrown", "collecting"},
         Resolves(c, r), UNCHANGED flight
  PROVE  IInv' /\ Silent
<1> DEFINE m == EndsWith(r, "resolved", r.failure)
           n == [Ended(r, "resolved") EXCEPT !.records = Recorded(r)]
<1>1. r \in CallRecords /\ r.failure \in Calls \cup {NoCall}
  BY DEF Within, Well, CallRecords
<1>2. Well(m) /\ m.phase = "resolved" /\ m.sent = r.sent
  BY <1>1, EndedWell DEF Within, Settled
<1>3. m = n
  BY <1>1 DEF EndsWith, Ended, CallRecords
<1>4. call' = [call EXCEPT ![c] = m] /\ error' = error
  BY <1>3 DEF Resolves
<1> HIDE DEF m, n
<1> QED
  BY <1>2, <1>4, GoesOn DEF Within, Running, Failing

LEMMA ResponseHolds ==
  ASSUME IInv, NEW c \in Calls, Running(c), NEW r, Within(c, r),
         r.phase \in {"fetching", "refetching"},
         NEW status \in {"ok", "4xx", "5xx", "refused"},
         Response(c, r, status), UNCHANGED flight
  PROVE  IInv' /\ Silent
<1>1. CASE Resolves(c, r)
  BY <1>1, ResolvesHolds DEF Settled
<1>2. CASE /\ call' = [call EXCEPT ![c] = [r EXCEPT !.phase = "reading", !.status = status]]
           /\ UNCHANGED error
  <2> DEFINE n == [r EXCEPT !.phase = "reading", !.status = status]
  <2>1. r \in CallRecords
    BY DEF Within, Well
  <2>2. n \in CallRecords
    BY <2>1 DEF CallRecords, Phases, UnderSignal
  <2>3. /\ n.phase = "reading" /\ n.sent = r.sent /\ n.kind = r.kind
        /\ n.refused = r.refused /\ n.cause = r.cause /\ n.caller = r.caller
        /\ n.issued = r.issued /\ n.opened = r.opened /\ n.records = r.records
    BY <2>1 DEF CallRecords
  <2>4. call' = [call EXCEPT ![c] = n] /\ error' = error
    BY <1>2
  <2> HIDE DEF n
  <2>5. WellSent(n)
    BY <2>3 DEF Within, Well, WellSent, Early
  <2>6. WellSignalled(n)
    BY <2>3 DEF Within, Well, WellSignalled, UnderSignal
  <2>7. WellRecorded(n)
    BY <2>3 DEF Within, Well, WellRecorded, UnderSignal, Early, Settled
  <2> QED
    BY <2>2, <2>3, <2>4, <2>5, <2>6, <2>7, GoesOn DEF Within, Well, Running, Failing
<1> QED
  BY <1>1, <1>2 DEF Response

LEMMA SleepOrEndHolds ==
  ASSUME IInv, NEW c \in Calls, Running(c), NEW r, Within(c, r),
         r.phase = "fetching", Retries(r), NEW reason,
         SleepOrEnd(c, r, reason), UNCHANGED flight
  PROVE  IInv' /\ Silent
<1>1. CASE /\ r.attempts <= MaxRetries
           /\ call' = [call EXCEPT ![c] = [r EXCEPT !.phase = "sleeping"]]
           /\ UNCHANGED error
  <2> DEFINE n == [r EXCEPT !.phase = "sleeping"]
  <2>1. r \in CallRecords
    BY DEF Within, Well
  <2>2. n \in CallRecords
    BY <2>1 DEF CallRecords, Phases, UnderSignal
  <2>3. /\ n.phase = "sleeping" /\ n.sent = r.sent /\ n.kind = r.kind
        /\ n.attempts = r.attempts
        /\ n.refused = r.refused /\ n.cause = r.cause /\ n.caller = r.caller
        /\ n.issued = r.issued /\ n.opened = r.opened /\ n.records = r.records
    BY <2>1 DEF CallRecords
  <2>4. call' = [call EXCEPT ![c] = n] /\ error' = error
    BY <1>1
  <2> HIDE DEF n
  <2>5. WellSent(n)
    BY <1>1, <2>1, <2>3 DEF Within, Well, WellSent, Early, Retries, Most, MaxRetries, CallRecords
  <2>6. WellSignalled(n)
    BY <2>3 DEF Within, Well, WellSignalled, UnderSignal
  <2>7. WellRecorded(n)
    BY <2>3 DEF Within, Well, WellRecorded, UnderSignal, Early, Settled
  <2> QED
    BY <2>2, <2>3, <2>4, <2>5, <2>6, <2>7, GoesOn DEF Within, Well, Running, Failing
<1>2. CASE Response(c, r, "5xx")
  BY <1>2, ResponseHolds
<1>3. CASE Throws(c, r, c, Raised(Mapped(reason), "none"))
  BY <1>3, ThrowsHolds, RaisedSound, MappedKind DEF Settled, Mapped
<1> QED
  BY <1>1, <1>2, <1>3 DEF SleepOrEnd

LEMMA RefreshHolds ==
  ASSUME IInv, NEW c \in Calls, Running(c), NEW r, Within(c, r),
         NEW waiting \in Waiting, Well([r EXCEPT !.phase = waiting]),
         r.phase \notin Settled \cup {"thrown", "collecting"},
         Refresh(c, r, waiting)
  PROVE  IInv' /\ Silent
<1>1. CASE /\ call' = [call EXCEPT ![c] = [r EXCEPT !.phase = waiting]]
           /\ flight' = IF flight = NoCall THEN c ELSE flight
           /\ UNCHANGED error
  <2> DEFINE n == [r EXCEPT !.phase = waiting]
  <2>1. n.phase = waiting /\ n.sent = r.sent
    BY DEF Within, Well, CallRecords
  <2> HIDE DEF n
  <2>2. Well(n) /\ call' = [call EXCEPT ![c] = n]
    BY <1>1 DEF n
  <2> QED
    BY <1>1, <2>1, <2>2, Waits DEF Within, Running
<1>2. CASE Emits(c, r, "none") /\ UNCHANGED flight
  BY <1>2, EmitsHolds
<1> QED
  BY <1>1, <1>2 DEF Refresh

LEMMA InjectAuthHolds ==
  ASSUME IInv, NEW c \in Calls, Running(c), NEW r, Within(c, r),
         r.cause = "none", r.phase \in {"idle", "detecting"},
         Stopped(call[c]) => r.caller # "none",
         InjectAuth(c, r)
  PROVE  IInv' /\ Silent
<1>1. CASE call' = [call EXCEPT ![c] = Issued(r)] /\ UNCHANGED <<error, flight>>
  BY <1>1, IssuedWell, GoesOn DEF Within, Running, Failing
<1>2. CASE Emits(c, r, "none") /\ UNCHANGED flight
  BY <1>2, EmitsHolds DEF Settled
<1>3. CASE Refresh(c, r, "refreshing")
  <2> DEFINE n == [r EXCEPT !.phase = "refreshing"]
  <2>1. r \in CallRecords
    BY DEF Within, Well
  <2>2. n \in CallRecords
    BY <2>1 DEF CallRecords, Phases
  <2>3. /\ n.phase = "refreshing" /\ n.sent = r.sent /\ n.kind = r.kind
        /\ n.refused = r.refused /\ n.cause = r.cause /\ n.caller = r.caller
        /\ n.issued = r.issued /\ n.opened = r.opened /\ n.records = r.records
    BY <2>1 DEF CallRecords
  <2> HIDE DEF n
  <2>4. WellSent(n)
    BY <2>3 DEF Within, Well, WellSent, Early
  <2>5. WellSignalled(n)
    BY <2>3 DEF WellSignalled, UnderSignal
  <2>6. WellRecorded(n)
    BY <2>3 DEF Within, Well, WellRecorded, UnderSignal, Early, Settled
  <2>7. Well([r EXCEPT !.phase = "refreshing"])
    BY <2>2, <2>4, <2>5, <2>6 DEF Well, n
  <2> QED
    BY <1>3, <2>7, RefreshHolds DEF Waiting, Settled
<1> QED
  BY <1>1, <1>2, <1>3 DEF InjectAuth

-----------------------------------------------------------------------------
(* The actions, in the order of the module.                                 *)

LEMMA IdleFacts ==
  ASSUME IInv, NEW c \in Calls, call[c].phase = "idle"
  PROVE  Running(c) /\ ~Stopped(call[c]) /\ call[c].sent = 0
BY DEF IInv, Well, WellSent, WellSignalled, Early, UnderSignal, Running, Failing, Waiting, Stopped

LEMMA RefuseArgumentsHolds ==
  ASSUME IInv, NEW c \in Calls, NEW kind \in Kinds, RefuseArguments(c, kind)
  PROVE  IInv' /\ Silent
<1> DEFINE b == [NewCall EXCEPT !.kind = kind]
           n == [b EXCEPT !.phase = "thrown", !.failure = c]
<1>1. Well(b) /\ Blank(b)
  BY NewCallWell
<1>2. n = [NewCall EXCEPT !.kind = kind, !.phase = "thrown", !.failure = c]
  OBVIOUS
<1> HIDE DEF b
<1>3. n \in CallRecords
  BY <1>1 DEF Well, CallRecords, Phases
<1>4. /\ n.phase = "thrown" /\ n.failure = c /\ n.sent = 0 /\ n.kind = b.kind
      /\ n.cause = "none" /\ n.caller = "none" /\ n.opened = n.records
  BY <1>1 DEF Well, CallRecords, Blank
<1>5. call' = [call EXCEPT ![c] = n]
  BY <1>2 DEF RefuseArguments
<1> HIDE DEF n
<1>6. WellSent(n)
  BY <1>3, <1>4 DEF WellSent, Early, Most, One, MaxRetries
<1>7. WellSignalled(n)
  BY <1>4 DEF WellSignalled
<1>8. WellRecorded(n)
  BY <1>4 DEF WellRecorded, Early, UnderSignal
<1>9. call[c].phase = "idle" /\ flight' = flight
      /\ error' = [error EXCEPT ![c] = Raised("sdk", "none")]
  BY DEF RefuseArguments
<1> QED
  BY <1>3, <1>4, <1>5, <1>6, <1>7, <1>8, <1>9, IdleFacts, RaisedSound, Fails
     DEF Well, Running, ErrorKinds

LEMMA CallVerbHolds ==
  ASSUME IInv, NEW c \in Calls, NEW kind \in Kinds, CallVerb(c, kind)
  PROVE  IInv' /\ Silent
<1> DEFINE b == [NewCall EXCEPT !.kind = kind]
<1>1. Well(b) /\ Blank(b)
  BY NewCallWell
<1>2. InjectAuth(c, b) /\ call[c].phase = "idle"
  BY DEF CallVerb
<1> HIDE DEF b
<1> QED
  BY <1>1, <1>2, IdleFacts, InjectAuthHolds DEF Within, Blank

LEMMA CallFormHolds ==
  ASSUME IInv, NEW c \in Calls, CallForm(c)
  PROVE  IInv' /\ Silent
<1> DEFINE b == [NewCall EXCEPT !.kind = "FORM"]
<1>1. Well(b) /\ Blank(b)
  BY NewCallWell DEF Kinds
<1>2. /\ call' = [call EXCEPT ![c] = Issued(b)] /\ call[c].phase = "idle"
      /\ error' = error /\ flight' = flight
  BY DEF CallForm
<1> HIDE DEF b
<1> QED
  BY <1>1, <1>2, IdleFacts, IssuedWell, GoesOn DEF Blank, Running, Failing

LEMMA ContinueHolds ==
  ASSUME IInv, NEW c \in Calls, Continue(c)
  PROVE  IInv' /\ Silent
<1>1. /\ call[c].phase = "refreshed" /\ Well(call[c]) /\ call[c].cause = "none"
  BY DEF Continue, IInv, Well, WellSignalled, UnderSignal
<1>2. Running(c) /\ Within(c, call[c])
  BY <1>1 DEF Running, Failing, Waiting, Within
<1>3. CASE call' = [call EXCEPT ![c] = Issued(call[c])] /\ UNCHANGED error
  BY <1>1, <1>2, <1>3, IssuedWell, GoesOn DEF Running, Failing, Stopped, Continue
<1>4. CASE Emits(c, call[c], "none")
  BY <1>1, <1>2, <1>4, EmitsHolds DEF Settled, Continue
<1> QED
  BY <1>3, <1>4 DEF Continue

(* The refresh wakes up all that wait for it.                               *)
Woken(d, granted, failure) == WakeUp(granted, failure)[d]

LEMMA WokenWell ==
  ASSUME IInv, NEW granted \in BOOLEAN, NEW failure \in Calls \cup {NoCall}, NEW d \in Calls
  PROVE  LET w == Woken(d, granted, failure) IN
         /\ Well(w) /\ w.sent = call[d].sent /\ w.records = call[d].records
         /\ call[d].phase \notin Waiting => w = call[d]
         /\ call[d].phase \in Waiting /\ granted => w.phase \notin Failing
         /\ call[d].phase \in Waiting /\ ~granted => w.phase = "unrefreshed" /\ w.failure = failure
<1> DEFINE w == Woken(d, granted, failure)
<1>1. Well(call[d]) /\ call[d] \in CallRecords
  BY DEF IInv, Well
<1>a. w = IF call[d].phase \notin Waiting THEN call[d]
          ELSE IF ~granted THEN [call[d] EXCEPT !.phase = "unrefreshed", !.failure = failure]
          ELSE IF call[d].phase = "refreshing" THEN [call[d] EXCEPT !.phase = "refreshed"]
          ELSE [call[d] EXCEPT !.phase = "refreshed401"]
  BY DEF Woken, WakeUp
<1> HIDE DEF w
<1> SUFFICES /\ Well(w) /\ w.sent = call[d].sent /\ w.records = call[d].records
             /\ call[d].phase \notin Waiting => w = call[d]
             /\ call[d].phase \in Waiting /\ granted => w.phase \notin Failing
             /\ call[d].phase \in Waiting /\ ~granted =>
                   w.phase = "unrefreshed" /\ w.failure = failure
  BY DEF w
<1>2. CASE call[d].phase \notin Waiting
  BY <1>1, <1>2, <1>a
<1>3. CASE call[d].phase \in Waiting
  <2>1. CASE ~granted
    <3>1. w = [call[d] EXCEPT !.phase = "unrefreshed", !.failure = failure]
      BY <1>3, <1>a, <2>1
    <3>2. w \in CallRecords
      BY <1>1, <3>1 DEF CallRecords, Phases
    <3>3. /\ w.phase = "unrefreshed" /\ w.failure = failure
          /\ w.sent = call[d].sent /\ w.kind = call[d].kind
          /\ w.refused = call[d].refused /\ w.issued = call[d].issued
          /\ w.opened = call[d].opened /\ w.records = call[d].records
      BY <1>1, <3>1 DEF CallRecords
    <3>4. WellSent(w)
      BY <1>1, <3>3 DEF Well, WellSent, Early
    <3>5. WellSignalled(w)
      BY <3>3 DEF WellSignalled, UnderSignal
    <3>6. WellRecorded(w)
      BY <1>1, <1>3, <3>3 DEF Well, WellRecorded, Early, Settled, UnderSignal, Waiting
    <3> QED
      BY <1>3, <2>1, <3>2, <3>3, <3>4, <3>5, <3>6 DEF Well
  <2>2. CASE granted
    <3> DEFINE phase == IF call[d].phase = "refreshing" THEN "refreshed" ELSE "refreshed401"
    <3>1. w = [call[d] EXCEPT !.phase = phase]
      BY <1>3, <1>a, <2>2
    <3>a. /\ phase \in {"refreshed", "refreshed401"}
          /\ call[d].phase = "refreshing" => phase = "refreshed"
          /\ call[d].phase = "refreshing401" => phase = "refreshed401"
      OBVIOUS
    <3> HIDE DEF phase
    <3>2. w \in CallRecords
      BY <1>1, <3>1, <3>a DEF CallRecords, Phases, UnderSignal
    <3>3. /\ w.phase = phase
          /\ w.sent = call[d].sent /\ w.kind = call[d].kind
          /\ w.cause = call[d].cause /\ w.caller = call[d].caller
          /\ w.refused = call[d].refused /\ w.issued = call[d].issued
          /\ w.opened = call[d].opened /\ w.records = call[d].records
      BY <1>1, <3>1 DEF CallRecords
    <3>4. WellSent(w)
      BY <1>1, <1>3, <3>a, <3>3 DEF Well, WellSent, Early, Waiting
    <3>5. WellSignalled(w)
      BY <1>1, <1>3, <3>a, <3>3 DEF Well, WellSignalled, UnderSignal, Waiting
    <3>6. WellRecorded(w)
      BY <1>1, <1>3, <3>a, <3>3 DEF Well, WellRecorded, Early, Settled, UnderSignal, Waiting
    <3> QED
      BY <1>3, <2>2, <3>a, <3>2, <3>3, <3>4, <3>5, <3>6 DEF Well, Failing
  <2> QED
    BY <2>1, <2>2
<1> QED
  BY <1>2, <1>3

LEMMA RefreshGrantedHolds ==
  ASSUME IInv, RefreshGranted
  PROVE  IInv' /\ Silent
<1>1. \A d \in Calls :
        /\ Well(call'[d]) /\ call'[d].sent = call[d].sent
        /\ call[d].phase \notin Waiting => call'[d] = call[d]
        /\ call[d].phase \in Waiting => call'[d].phase \notin Failing
  <2> TAKE d \in Calls
  <2>1. call'[d] = Woken(d, TRUE, NoCall)
    BY DEF RefreshGranted, Woken
  <2> DEFINE w == Woken(d, TRUE, NoCall)
  <2>2. /\ Well(w) /\ w.sent = call[d].sent
        /\ call[d].phase \notin Waiting => w = call[d]
        /\ call[d].phase \in Waiting => w.phase \notin Failing
    BY WokenWell
  <2> HIDE DEF w
  <2> QED
    BY <2>1, <2>2 DEF w
<1>2. call' \in [Calls -> CallRecords]
  <2>1. call' = [d \in Calls |-> call'[d]]
    BY DEF RefreshGranted, WakeUp
  <2> QED
    BY <1>1, <2>1 DEF Well
<1>3. error' = error /\ flight' = NoCall
  BY DEF RefreshGranted
<1>4. Failures'
  <2> SUFFICES ASSUME NEW d \in Calls, call'[d].phase \in Failing
               PROVE  FailsWith(d)'
    BY DEF Failures
  <2>1. call'[d] = call[d] /\ FailsWith(d)
    BY <1>1 DEF IInv, Failures
  <2>2. call'[call[d].failure] = call[call[d].failure]
    BY <1>1, <2>1 DEF FailsWith, Failing, Waiting
  <2> QED
    BY <1>3, <2>1, <2>2 DEF FailsWith
<1>5. TypeOK' /\ Refresher'
  BY <1>2, <1>3 DEF IInv, TypeOK, Refresher
<1> QED
  BY <1>1, <1>3, <1>4, <1>5 DEF IInv, Silent

LEMMA RefreshFailsHolds ==
  ASSUME IInv, RefreshFails
  PROVE  IInv' /\ Silent
<1> DEFINE f == flight
<1>1. f \in Calls /\ call[f].phase \in Waiting
  BY DEF RefreshFails, IInv, TypeOK, Refresher
<1>2. \A d \in Calls :
        /\ Well(call'[d]) /\ call'[d].sent = call[d].sent /\ call'[d].records = call[d].records
        /\ call[d].phase \notin Waiting => call'[d] = call[d]
        /\ call[d].phase \in Waiting => call'[d].phase = "unrefreshed" /\ call'[d].failure = f
  <2> TAKE d \in Calls
  <2>1. call'[d] = Woken(d, FALSE, f)
    BY DEF RefreshFails, Woken
  <2> DEFINE w == Woken(d, FALSE, f)
  <2>2. /\ Well(w) /\ w.sent = call[d].sent /\ w.records = call[d].records
        /\ call[d].phase \notin Waiting => w = call[d]
        /\ call[d].phase \in Waiting => w.phase = "unrefreshed" /\ w.failure = f
    BY <1>1, WokenWell
  <2> HIDE DEF w
  <2> QED
    BY <2>1, <2>2 DEF w
<1>3. call' \in [Calls -> CallRecords]
  <2>1. call' = [d \in Calls |-> call'[d]]
    BY DEF RefreshFails, WakeUp
  <2> QED
    BY <1>2, <2>1 DEF Well
<1>4. PICK from \in {"token", "none"} :
        error' = [error EXCEPT ![f] = ReportOnce(Raised("sdk", from))]
  BY DEF RefreshFails
<1> DEFINE e == ReportOnce(Raised("sdk", from))
<1>5. Sound(e) /\ e.kind = "sdk"
  BY RaisedSound, ReportOnceSound DEF ErrorKinds
<1>6. error' = [error EXCEPT ![f] = e] /\ flight' = NoCall
  BY <1>4 DEF RefreshFails
<1> HIDE DEF e
<1>7. /\ error' \in [Calls -> ErrorRecords]
      /\ \A d \in Calls : error'[d] = IF d = f THEN e ELSE error[d]
  BY <1>1, <1>5, <1>6 DEF IInv, TypeOK, Sound
<1>8. Failures'
  <2> SUFFICES ASSUME NEW d \in Calls, call'[d].phase \in Failing
               PROVE  FailsWith(d)'
    BY DEF Failures
  <2>1. CASE call[d].phase \in Waiting
    <3>1. call'[d].failure = f /\ call'[d].phase = "unrefreshed" /\ call'[f].phase = "unrefreshed"
      BY <1>1, <1>2, <2>1
    <3>2. error'[f].kind = "sdk"
      BY <1>1, <1>5, <1>7
    <3> QED
      BY <1>1, <3>1, <3>2 DEF FailsWith, Failing
  <2>2. CASE call[d].phase \notin Waiting
    <3>1. call'[d] = call[d] /\ FailsWith(d)
      BY <1>2, <2>2 DEF IInv, Failures
    <3>2. call[d].failure # f /\ call[d].failure \in Calls
          /\ call[call[d].failure].phase \in Failing
      BY <1>1, <3>1 DEF FailsWith, Failing, Waiting
    <3>3. call'[call[d].failure] = call[call[d].failure]
          /\ error'[call[d].failure] = error[call[d].failure]
      BY <1>2, <1>7, <3>2 DEF Failing, Waiting
    <3> QED
      BY <3>1, <3>2, <3>3 DEF FailsWith
  <2> QED
    BY <2>1, <2>2
<1>9. TypeOK' /\ Refresher'
  BY <1>3, <1>6, <1>7 DEF IInv, TypeOK, Refresher
<1> QED
  BY <1>2, <1>5, <1>7, <1>8, <1>9 DEF IInv, Silent

LEMMA NotRefreshedHolds ==
  ASSUME IInv, NEW c \in Calls, NotRefreshed(c)
  PROVE  IInv' /\ Silent
<1> DEFINE f == call[c].failure
           n == EndsWith(call[c], "thrown", f)
           e == Handled(error[f], call[c].issued)
<1>1. /\ call[c].phase = "unrefreshed" /\ Well(call[c]) /\ call[c] \in CallRecords
      /\ FailsWith(c)
  BY DEF NotRefreshed, IInv, Failures, Failing, Well
<1>2. f \in Calls /\ Sound(error[f]) /\ call[c].issued \in BOOLEAN /\ call[c].records \in Nat
  BY <1>1 DEF FailsWith, IInv, CallRecords
<1>3. /\ Well(n) /\ n.phase = "thrown" /\ n.failure = f /\ n.sent = call[c].sent
      /\ n.records = call[c].records + One(call[c].issued)
  BY <1>1, <1>2, EndedWell DEF Settled
<1>4. Sound(e) /\ e.kind = error[f].kind /\ (error[f].reported => e.reported)
  BY <1>2, HandledSound
<1>5. call' = [call EXCEPT ![c] = n] /\ error' = [error EXCEPT ![f] = e] /\ flight' = flight
  BY DEF NotRefreshed, Throws, EndsWith
<1>6. n.records >= call[c].records
  BY <1>2, <1>3 DEF One
<1> HIDE DEF n, e
<1> QED
  BY <1>1, <1>3, <1>4, <1>5, <1>6, HandsOn DEF Failing

LEMMA RejectHolds ==
  ASSUME IInv, NEW c \in Calls, Reject(c)
  PROVE  IInv' /\ Silent
<1> DEFINE f == call[c].failure
           n == [call[c] EXCEPT !.phase = "rejected"]
           e == ReportOnce(error[f])
<1>1. /\ call[c].phase = "thrown" /\ Well(call[c]) /\ call[c] \in CallRecords
      /\ FailsWith(c)
  BY DEF Reject, IInv, Failures, Failing, Well
<1>2. f \in Calls /\ Sound(error[f]) /\ call[c].records \in Nat
  BY <1>1 DEF FailsWith, IInv, CallRecords
<1>3. n \in CallRecords
  BY <1>1 DEF CallRecords, Phases, Settled
<1>4. /\ n.phase = "rejected" /\ n.failure = f /\ n.sent = call[c].sent
      /\ n.kind = call[c].kind /\ n.refused = call[c].refused
      /\ n.cause = call[c].cause /\ n.caller = call[c].caller
      /\ n.opened = call[c].opened /\ n.records = call[c].records
  BY <1>1 DEF CallRecords
<1>5. Sound(e) /\ e.kind = error[f].kind /\ e.reported
  BY <1>2, ReportOnceSound
<1>6. call' = [call EXCEPT ![c] = n] /\ error' = [error EXCEPT ![f] = e] /\ flight' = flight
  BY <1>2 DEF Reject, ReportError, IInv, TypeOK
<1> HIDE DEF n, e
<1>7. WellSent(n)
  BY <1>1, <1>4 DEF Well, WellSent, Early
<1>8. WellSignalled(n)
  BY <1>1, <1>4 DEF Well, WellSignalled, UnderSignal
<1>9. WellRecorded(n)
  BY <1>1, <1>4 DEF Well, WellRecorded, UnderSignal, Early, Settled
<1>10. Well(n) /\ n.records >= call[c].records
  BY <1>2, <1>3, <1>4, <1>7, <1>8, <1>9 DEF Well
<1> QED
  BY <1>1, <1>4, <1>5, <1>6, <1>10, HandsOn DEF Failing

(* The call in a stretch that ends with an answer.                          *)
LEMMA UnderWay ==
  ASSUME IInv, NEW c \in Calls, call[c].phase \notin Failing \cup Waiting
  PROVE  /\ Running(c) /\ Within(c, call[c])
         /\ Well(call[c]) /\ call[c] \in CallRecords
BY DEF IInv, Running, Within, Well

LEMMA WakeHolds ==
  ASSUME IInv, NEW c \in Calls, Wake(c)
  PROVE  IInv' /\ Silent
<1> DEFINE a == call[c].attempts + 1
           s == [call[c] EXCEPT !.attempts = a]
           n == Sent(s, "fetching")
<1>1. /\ call[c].phase = "sleeping" /\ Well(call[c]) /\ call[c] \in CallRecords /\ Running(c)
  BY UnderWay DEF Wake, Failing, Waiting
<1>2. a \in Nat /\ a = call[c].attempts + 1
  BY <1>1 DEF CallRecords
<1>3. call' = [call EXCEPT ![c] = n] /\ error' = error /\ flight' = flight
  BY DEF Wake
<1> HIDE DEF a
<1>4. s \in CallRecords
  BY <1>1, <1>2 DEF CallRecords
<1>5. /\ s.attempts = a /\ s.sent = call[c].sent /\ s.kind = call[c].kind
      /\ s.refused = call[c].refused /\ s.cause = call[c].cause /\ s.caller = call[c].caller
      /\ s.issued = call[c].issued /\ s.opened = call[c].opened /\ s.records = call[c].records
  BY <1>1 DEF CallRecords
<1> HIDE DEF s
<1>6. /\ n \in CallRecords /\ n.phase = "fetching"
      /\ n.sent = IF call[c].cause = "none" THEN call[c].sent + 1 ELSE call[c].sent
      /\ n.attempts = a /\ n.kind = call[c].kind
      /\ n.refused = call[c].refused /\ n.cause = call[c].cause /\ n.caller = call[c].caller
      /\ n.issued = call[c].issued /\ n.opened = call[c].opened /\ n.records = call[c].records
  <2>1. "fetching" \in Phases
    BY DEF Phases, UnderSignal
  <2> QED
    BY <1>4, <1>5, <2>1, SentFields
<1> HIDE DEF n
<1>7. WellSent(n)
  <2>1. /\ call[c].sent \in Nat /\ call[c].attempts \in Nat /\ call[c].attempts < Most(call[c].kind)
        /\ call[c].sent <= call[c].attempts /\ Most(call[c].kind) \in Nat
        /\ call[c].refused \in BOOLEAN
    BY <1>1 DEF Well, WellSent, CallRecords, Most, MaxRetries
  <2>2. n.sent \in Nat /\ n.sent <= n.attempts /\ n.attempts <= Most(n.kind)
    BY <1>2, <1>6, <2>1
  <2>3. One(n.refused) \in {0, 1}
    BY DEF One
  <2>4. n.sent <= Most(n.kind) + One(n.refused)
    BY <1>2, <1>6, <2>1, <2>2, <2>3
  <2> QED
    BY <1>6, <2>2, <2>4 DEF WellSent, Early
<1>8. WellSignalled(n)
  BY <1>1, <1>6 DEF Well, WellSignalled, UnderSignal
<1>9. WellRecorded(n)
  BY <1>1, <1>6 DEF Well, WellRecorded, UnderSignal, Early, Settled
<1>10. Stopped(call[c]) => n.sent = call[c].sent
  BY <1>1, <1>6 DEF Stopped, Well, WellSignalled, UnderSignal
<1> QED
  BY <1>1, <1>3, <1>6, <1>7, <1>8, <1>9, <1>10, GoesOn DEF Well, Running, Failing

LEMMA FetchAnsweredHolds ==
  ASSUME IInv, NEW c \in Calls, FetchAnswered(c)
  PROVE  IInv' /\ Silent
<1>1. /\ call[c].phase = "fetching" /\ Well(call[c]) /\ call[c] \in CallRecords
      /\ Running(c) /\ Within(c, call[c]) /\ flight' = flight
  BY UnderWay DEF FetchAnswered, Failing, Waiting
<1>2. ASSUME NEW status \in {"ok", "4xx"}, Response(c, call[c], status)
      PROVE  IInv' /\ Silent
  BY <1>1, <1>2, ResponseHolds
<1>3. CASE Retries(call[c]) /\ SleepOrEnd(c, [call[c] EXCEPT !.failed = TRUE], "none")
  <2> DEFINE n == [call[c] EXCEPT !.failed = TRUE]
  <2>1. n \in CallRecords
    BY <1>1 DEF CallRecords
  <2>2. /\ n.phase = call[c].phase /\ n.sent = call[c].sent /\ n.attempts = call[c].attempts
        /\ n.cause = call[c].cause /\ n.caller = call[c].caller /\ n.records = call[c].records
        /\ n.kind = call[c].kind /\ n.refused = call[c].refused
        /\ n.issued = call[c].issued /\ n.opened = call[c].opened
    BY <1>1 DEF CallRecords
  <2>3. SleepOrEnd(c, n, "none")
    BY <1>3
  <2> HIDE DEF n
  <2>4. WellSent(n)
    BY <1>1, <2>2 DEF Well, WellSent
  <2>5. WellSignalled(n) /\ WellRecorded(n)
    BY <1>1, <2>2 DEF Well, WellSignalled, WellRecorded
  <2>6. Within(c, n) /\ n.phase = "fetching" /\ Retries(n)
    BY <1>1, <1>3, <2>1, <2>2, <2>4, <2>5 DEF Well, Within, Retries
  <2> QED
    BY <1>1, <2>3, <2>6, SleepOrEndHolds
<1>4. CASE Response(c, call[c], "5xx")
  BY <1>1, <1>4, ResponseHolds
<1>5. CASE call[c].kind = "FORM" /\ Response(c, [call[c] EXCEPT !.refused = TRUE], "refused")
  <2> DEFINE n == [call[c] EXCEPT !.refused = TRUE]
  <2>1. n \in CallRecords
    BY <1>1 DEF CallRecords
  <2>2. /\ n.phase = call[c].phase /\ n.sent = call[c].sent /\ n.attempts = call[c].attempts
        /\ n.cause = call[c].cause /\ n.caller = call[c].caller /\ n.records = call[c].records
        /\ n.kind = call[c].kind /\ n.refused = TRUE
        /\ n.issued = call[c].issued /\ n.opened = call[c].opened
    BY <1>1 DEF CallRecords
  <2>3. Response(c, n, "refused")
    BY <1>5
  <2> HIDE DEF n
  <2>4. WellSent(n)
    <3>1. /\ n.sent \in Nat /\ n.sent <= n.attempts /\ n.attempts \in Nat
          /\ n.attempts <= Most(n.kind) /\ Most(n.kind) \in Nat
      BY <1>1, <2>2 DEF Well, WellSent, CallRecords, Most, MaxRetries
    <3>2. One(n.refused) = 1
      BY <2>2 DEF One
    <3>3. n.sent <= Most(n.kind) + One(n.refused)
      BY <3>1, <3>2
    <3> QED
      BY <1>1, <2>2, <3>1, <3>3 DEF WellSent, Early
  <2>5. WellSignalled(n) /\ WellRecorded(n)
    BY <1>1, <2>2 DEF Well, WellSignalled, WellRecorded
  <2>6. Within(c, n) /\ n.phase = "fetching"
    BY <1>1, <2>1, <2>2, <2>4, <2>5 DEF Well, Within
  <2> QED
    BY <1>1, <2>3, <2>6, ResponseHolds
<1> QED
  BY <1>2, <1>3, <1>4, <1>5 DEF FetchAnswered

LEMMA FetchRejectedHolds ==
  ASSUME IInv, NEW c \in Calls, FetchRejected(c)
  PROVE  IInv' /\ Silent
<1> DEFINE reason == IF call[c].cause = "none" THEN "error" ELSE call[c].cause
<1>1. /\ call[c].phase = "fetching" /\ Well(call[c]) /\ call[c] \in CallRecords
      /\ Running(c) /\ Within(c, call[c]) /\ flight' = flight
  BY UnderWay DEF FetchRejected, Failing, Waiting
<1>2. CASE Throws(c, call[c], c, Raised(Mapped(reason), "none"))
  BY <1>1, <1>2, ThrowsHolds, RaisedSound, MappedKind DEF Settled, Mapped
<1>3. CASE Retries(call[c]) /\ SleepOrEnd(c, call[c], reason)
  BY <1>1, <1>3, SleepOrEndHolds
<1> QED
  BY <1>2, <1>3 DEF FetchRejected

LEMMA UnauthorizedHolds ==
  ASSUME IInv, NEW c \in Calls, Unauthorized(c)
  PROVE  IInv' /\ Silent
<1> DEFINE r == [call[c] EXCEPT !.refused = TRUE, !.status = "refused"]
           n == [r EXCEPT !.phase = "refreshing401"]
<1>1. /\ call[c].phase = "fetching" /\ Well(call[c]) /\ call[c] \in CallRecords /\ Running(c)
  BY UnderWay DEF Unauthorized, Failing, Waiting
<1>2. r \in CallRecords
  BY <1>1 DEF CallRecords
<1>3. /\ r.phase = "fetching" /\ r.sent = call[c].sent /\ r.attempts = call[c].attempts
      /\ r.cause = call[c].cause /\ r.caller = call[c].caller /\ r.records = call[c].records
      /\ r.kind = call[c].kind /\ r.refused = TRUE
      /\ r.issued = call[c].issued /\ r.opened = call[c].opened
  BY <1>1 DEF CallRecords
<1>4. (Emits(c, r, "request") /\ UNCHANGED flight) \/ Refresh(c, r, "refreshing401")
  BY DEF Unauthorized
<1> HIDE DEF r
<1>5. n \in CallRecords
  BY <1>2 DEF CallRecords, Phases, UnderSignal
<1>6. /\ n.phase = "refreshing401" /\ n.sent = r.sent
      /\ n.cause = r.cause /\ n.caller = r.caller /\ n.records = r.records
      /\ n.kind = r.kind /\ n.refused = r.refused
      /\ n.issued = r.issued /\ n.opened = r.opened
  BY <1>2 DEF CallRecords
<1> HIDE DEF n
<1>7. /\ r.sent \in Nat /\ r.attempts \in Nat /\ r.sent <= r.attempts
      /\ r.attempts <= Most(r.kind) /\ Most(r.kind) \in Nat /\ One(r.refused) = 1
  BY <1>1, <1>3 DEF Well, WellSent, CallRecords, Most, MaxRetries, One
<1>8. r.sent <= Most(r.kind) /\ r.sent <= Most(r.kind) + One(r.refused)
  BY <1>7
<1>9. WellSent(r) /\ WellSent(n)
  BY <1>3, <1>6, <1>7, <1>8 DEF WellSent, Early
<1>10. WellSignalled(r) /\ WellSignalled(n)
  BY <1>1, <1>3, <1>6 DEF Well, WellSignalled, UnderSignal
<1>11. WellRecorded(r) /\ WellRecorded(n)
  BY <1>1, <1>3, <1>6 DEF Well, WellRecorded, UnderSignal, Early, Settled
<1>12. Within(c, r) /\ Well(n)
  BY <1>2, <1>3, <1>5, <1>9, <1>10, <1>11 DEF Well, Within
<1>13. CASE Emits(c, r, "request") /\ UNCHANGED flight
  BY <1>1, <1>3, <1>12, <1>13, EmitsHolds DEF Settled
<1>14. CASE Refresh(c, r, "refreshing401")
  BY <1>1, <1>3, <1>12, <1>14, RefreshHolds DEF Settled, Waiting, n
<1> QED
  BY <1>4, <1>13, <1>14

LEMMA RefetchHolds ==
  ASSUME IInv, NEW c \in Calls, Refetch(c)
  PROVE  IInv' /\ Silent
<1>1. /\ call[c].phase = "refreshed401" /\ Well(call[c]) /\ call[c] \in CallRecords /\ Running(c)
      /\ error' = error /\ flight' = flight
  BY UnderWay DEF Refetch, Failing, Waiting
<1>2. CASE call' = [call EXCEPT ![c] = Resent(call[c])]
  <2> DEFINE n == Sent(call[c], "refetching")
  <2>1. "refetching" \in Phases
    BY DEF Phases, UnderSignal
  <2>2. /\ n \in CallRecords /\ n.phase = "refetching"
        /\ n.sent = IF call[c].cause = "none" THEN call[c].sent + 1 ELSE call[c].sent
        /\ n.kind = call[c].kind
        /\ n.refused = call[c].refused /\ n.cause = call[c].cause /\ n.caller = call[c].caller
        /\ n.issued = call[c].issued /\ n.opened = call[c].opened /\ n.records = call[c].records
    BY <1>1, <2>1, SentFields
  <2>3. call' = [call EXCEPT ![c] = n]
    BY <1>2 DEF Resent
  <2> HIDE DEF n
  <2>4. WellSent(n)
    <3>1. /\ call[c].sent \in Nat /\ call[c].sent <= Most(call[c].kind)
          /\ Most(call[c].kind) \in Nat /\ One(n.refused) = 1
      BY <1>1, <2>2 DEF Well, WellSent, CallRecords, Most, MaxRetries, One
    <3>2. n.sent <= Most(n.kind) + One(n.refused)
      BY <2>2, <3>1
    <3> QED
      BY <2>2, <3>2 DEF WellSent, Early
  <2>5. WellSignalled(n)
    BY <1>1, <2>2 DEF Well, WellSignalled, UnderSignal
  <2>6. WellRecorded(n)
    BY <1>1, <2>2 DEF Well, WellRecorded, UnderSignal, Early, Settled
  <2>7. Stopped(call[c]) => n.sent = call[c].sent
    BY <1>1, <2>2 DEF Stopped, Well, WellSignalled, UnderSignal
  <2> QED
    BY <1>1, <2>2, <2>3, <2>4, <2>5, <2>6, <2>7, GoesOn DEF Well, Running, Failing
<1>3. CASE call' = [call EXCEPT ![c].phase = "reading"]
  <2> DEFINE n == [call[c] EXCEPT !.phase = "reading"]
  <2>1. n \in CallRecords
    BY <1>1 DEF CallRecords, Phases, UnderSignal
  <2>2. /\ n.phase = "reading" /\ n.sent = call[c].sent /\ n.kind = call[c].kind
        /\ n.refused = call[c].refused /\ n.cause = call[c].cause /\ n.caller = call[c].caller
        /\ n.issued = call[c].issued /\ n.opened = call[c].opened /\ n.records = call[c].records
    BY <1>1 DEF CallRecords
  <2>3. call' = [call EXCEPT ![c] = n]
    BY <1>3
  <2> HIDE DEF n
  <2>4. WellSent(n)
    BY <1>1, <2>2 DEF Well, WellSent, Early
  <2>5. WellSignalled(n)
    BY <1>1, <2>2 DEF Well, WellSignalled, UnderSignal
  <2>6. WellRecorded(n)
    BY <1>1, <2>2 DEF Well, WellRecorded, UnderSignal, Early, Settled
  <2> QED
    BY <1>1, <2>1, <2>2, <2>3, <2>4, <2>5, <2>6, GoesOn DEF Well, Running, Failing
<1> QED
  BY <1>2, <1>3 DEF Refetch

LEMMA RefetchAnsweredHolds ==
  ASSUME IInv, NEW c \in Calls, RefetchAnswered(c)
  PROVE  IInv' /\ Silent
<1>1. /\ call[c].phase = "refetching" /\ Running(c) /\ Within(c, call[c]) /\ flight' = flight
  BY UnderWay DEF RefetchAnswered, Failing, Waiting
<1>2. ASSUME NEW status \in {"ok", "4xx", "5xx"}, Response(c, call[c], status)
      PROVE  IInv' /\ Silent
  BY <1>1, <1>2, ResponseHolds
<1>3. CASE Emits(c, call[c], "request")
  BY <1>1, <1>3, EmitsHolds DEF Settled
<1> QED
  BY <1>2, <1>3 DEF RefetchAnswered

LEMMA RefetchRejectedHolds ==
  ASSUME IInv, NEW c \in Calls, RefetchRejected(c)
  PROVE  IInv' /\ Silent
<1>1. /\ call[c].phase = "refetching" /\ Running(c) /\ Within(c, call[c]) /\ flight' = flight
  BY UnderWay DEF RefetchRejected, Failing, Waiting
<1>2. PICK reason : Throws(c, call[c], c, Raised(Mapped(reason), "none"))
  BY DEF RefetchRejected
<1> QED
  BY <1>1, <1>2, ThrowsHolds, RaisedSound, MappedKind DEF Settled, Mapped

LEMMA BodyReadHolds ==
  ASSUME IInv, NEW c \in Calls, BodyRead(c)
  PROVE  IInv' /\ Silent
<1>1. /\ call[c].phase = "reading" /\ Running(c) /\ Within(c, call[c]) /\ flight' = flight
      /\ Well(call[c])
  BY UnderWay DEF BodyRead, Failing, Waiting
<1>2. CASE Resolves(c, call[c])
  BY <1>1, <1>2, ResolvesHolds DEF Settled
<1>3. CASE Throws(c, call[c], c, ReportOnce(Raised("http", "request")))
  <2> DEFINE e == ReportOnce(Raised("http", "request"))
  <2>1. Sound(e) /\ e.kind = "http"
    BY RaisedSound, ReportOnceSound DEF ErrorKinds
  <2>2. call[c].issued
    BY <1>1 DEF Well, WellRecorded, UnderSignal
  <2> HIDE DEF e
  <2>3. Throws(c, call[c], c, e)
    BY <1>3 DEF e
  <2> QED
    BY <1>1, <2>1, <2>2, <2>3, ThrowsHolds DEF Settled, ErrorKinds
<1> QED
  BY <1>2, <1>3 DEF BodyRead

LEMMA BodyBrokenHolds ==
  ASSUME IInv, NEW c \in Calls, BodyBroken(c)
  PROVE  IInv' /\ Silent
<1>1. /\ call[c].phase = "reading" /\ Running(c) /\ Within(c, call[c]) /\ flight' = flight
  BY UnderWay DEF BodyBroken, Failing, Waiting
<1>2. PICK reason : Throws(c, call[c], c, Raised(Mapped(reason), "none"))
  BY DEF BodyBroken
<1> QED
  BY <1>1, <1>2, ThrowsHolds, RaisedSound, MappedKind DEF Settled, Mapped

-----------------------------------------------------------------------------
(* Browser data, and the end.                                               *)

LEMMA CallChargeHolds ==
  ASSUME IInv, NEW c \in Calls, CallCharge(c)
  PROVE  IInv' /\ Silent
<1> DEFINE n == [NewCall EXCEPT !.kind = "CHARGE", !.phase = "collecting", !.opened = 1]
<1>1. n \in CallRecords
  BY NewCallBlank DEF CallRecords, Phases, UnderSignal, Kinds
<1>2. /\ n.phase = "collecting" /\ n.sent = 0 /\ n.kind = "CHARGE" /\ ~n.refused
      /\ n.cause = "none" /\ n.caller = "none" /\ ~n.issued
      /\ n.opened = 1 /\ n.records = 0
  BY NewCallBlank DEF CallRecords, Blank
<1>3. /\ call' = [call EXCEPT ![c] = n] /\ error' = error /\ flight' = flight
      /\ call[c].phase = "idle"
  BY DEF CallCharge
<1> HIDE DEF n
<1>4. WellSent(n)
  BY <1>2 DEF WellSent, Early, Most, One, MaxRetries
<1>5. WellSignalled(n)
  BY <1>2 DEF WellSignalled
<1>6. WellRecorded(n)
  BY <1>2 DEF WellRecorded, UnderSignal, Early, Settled
<1> QED
  BY <1>1, <1>2, <1>3, <1>4, <1>5, <1>6, IdleFacts, GoesOn DEF Well, Running, Failing

LEMMA CollectAnsweredHolds ==
  ASSUME IInv, NEW c \in Calls, CollectAnswered(c)
  PROVE  IInv' /\ Silent
<1>1. /\ call[c].phase = "collecting" /\ Well(call[c]) /\ call[c] \in CallRecords /\ Running(c)
  BY UnderWay DEF CollectAnswered, Failing, Waiting
<1>2. PICK status \in {"ok", "absent", "4xx", "5xx"} :
        call' = [call EXCEPT ![c].phase = "detecting", ![c].status = status,
                             ![c].records = @ + 1]
  BY DEF CollectAnswered
<1> DEFINE k == call[c].records + 1
           n == [call[c] EXCEPT !.phase = "detecting", !.status = status, !.records = k]
<1>3. k \in Nat /\ k = call[c].records + 1
  BY <1>1 DEF CallRecords
<1>4. call' = [call EXCEPT ![c] = n] /\ error' = error /\ flight' = flight
  BY <1>2 DEF CollectAnswered, IInv, TypeOK
<1> HIDE DEF k
<1>5. n \in CallRecords
  BY <1>1, <1>3 DEF CallRecords, Phases, UnderSignal
<1>6. /\ n.phase = "detecting" /\ n.sent = call[c].sent /\ n.kind = call[c].kind
      /\ n.refused = call[c].refused /\ n.cause = call[c].cause /\ n.caller = call[c].caller
      /\ n.issued = call[c].issued /\ n.opened = call[c].opened /\ n.records = k
  BY <1>1 DEF CallRecords
<1> HIDE DEF n
<1>7. WellSent(n)
  BY <1>1, <1>6 DEF Well, WellSent, Early
<1>8. WellSignalled(n)
  BY <1>1, <1>6 DEF Well, WellSignalled, UnderSignal
<1>9. WellRecorded(n)
  <2>1. /\ call[c].opened = call[c].records + 1 /\ ~call[c].issued
        /\ call[c].records \in Nat
    BY <1>1 DEF Well, WellRecorded, Early, CallRecords
  <2>2. n.records > 0 /\ n.opened = n.records + One(n.issued) /\ ~n.issued
    BY <1>3, <1>6, <2>1 DEF One
  <2> QED
    BY <1>6, <2>2 DEF WellRecorded, UnderSignal, Early, Settled
<1> QED
  BY <1>1, <1>4, <1>5, <1>6, <1>7, <1>8, <1>9, GoesOn DEF Well, Running, Failing

LEMMA CollectFailsHolds ==
  ASSUME IInv, NEW c \in Calls, Running(c), NEW r \in CallRecords,
         r.sent = 0, call[c].sent = 0, r.opened = r.records, r.records > 0,
         NEW kind \in ErrorKinds, CollectFails(c, r, kind)
  PROVE  IInv' /\ Silent
<1> DEFINE n == [Ended(r, "thrown") EXCEPT !.failure = c]
           given == r.caller # "none"
           shown == IF kind = "foreign" /\ ~given THEN "sdk" ELSE kind
           raised == Raised(shown, "none")
           e == IF given THEN raised ELSE AttachCorrelation(raised, "request")
<1>1. n \in CallRecords
  BY DEF Ended, CallRecords, Phases
<1>2. /\ n.phase = "thrown" /\ n.failure = c /\ n.sent = 0 /\ n.records = r.records
      /\ n.opened = r.opened /\ n.cause = "none" /\ n.caller = "none"
      /\ n.kind = r.kind /\ n.refused = r.refused
  BY DEF Ended, CallRecords
<1>3. /\ call' = [call EXCEPT ![c] = n] /\ error' = [error EXCEPT ![c] = e]
      /\ flight' = flight
  BY DEF CollectFails
<1>4. shown \in ErrorKinds
  BY DEF ErrorKinds
<1> HIDE DEF n, shown
<1>5. Sound(raised) /\ raised.kind = shown
  BY <1>4, RaisedSound
<1> HIDE DEF raised
<1>6. Sound(e) /\ e.kind = shown
  BY <1>5, CorrelatedSound
<1> HIDE DEF e
<1>7. WellSent(n)
  BY <1>2 DEF WellSent, Early, Most, One, MaxRetries
<1>8. WellSignalled(n)
  BY <1>2 DEF WellSignalled
<1>9. WellRecorded(n)
  BY <1>2 DEF WellRecorded, UnderSignal, Early, Settled
<1>10. Well(n)
  BY <1>1, <1>7, <1>8, <1>9 DEF Well
<1> QED
  BY <1>2, <1>3, <1>4, <1>6, <1>10, Fails DEF Running

LEMMA CollectRejectedHolds ==
  ASSUME IInv, NEW c \in Calls, CollectRejected(c)
  PROVE  IInv' /\ Silent
<1> DEFINE k == call[c].records + 1
           r == [call[c] EXCEPT !.records = k]
<1>1. /\ call[c].phase = "collecting" /\ Well(call[c]) /\ call[c] \in CallRecords /\ Running(c)
  BY UnderWay DEF CollectRejected, Failing, Waiting
<1>2. CollectFails(c, r, "foreign")
  BY DEF CollectRejected
<1>3. /\ k \in Nat /\ k > 0 /\ k = call[c].opened /\ call[c].sent = 0
  BY <1>1 DEF Well, WellRecorded, WellSent, Early, CallRecords
<1> HIDE DEF k
<1>4. r \in CallRecords
  BY <1>1, <1>3 DEF CallRecords
<1>5. r.sent = call[c].sent /\ r.opened = call[c].opened /\ r.records = k
  BY <1>1 DEF CallRecords
<1> HIDE DEF r
<1> QED
  BY <1>1, <1>2, <1>3, <1>4, <1>5, CollectFailsHolds DEF ErrorKinds

LEMMA CollectedHolds ==
  ASSUME IInv, NEW c \in Calls, Collected(c)
  PROVE  IInv' /\ Silent
<1> DEFINE r == [call[c] EXCEPT !.status = "none", !.cause = "none"]
<1>1. /\ call[c].phase = "detecting" /\ Well(call[c]) /\ call[c] \in CallRecords /\ Running(c)
  BY UnderWay DEF Collected, Failing, Waiting
<1>2. call[c].caller = "none" /\ ~Stopped(call[c])
  BY <1>1 DEF Collected, Tolerates, Stopped, Well, WellSignalled, UnderSignal
<1>3. InjectAuth(c, r)
  BY DEF Collected
<1>4. r \in CallRecords
  BY <1>1 DEF CallRecords
<1>5. /\ r.phase = "detecting" /\ r.sent = call[c].sent /\ r.kind = call[c].kind
      /\ r.refused = call[c].refused /\ r.cause = "none" /\ r.caller = call[c].caller
      /\ r.issued = call[c].issued /\ r.opened = call[c].opened /\ r.records = call[c].records
  BY <1>1 DEF CallRecords
<1> HIDE DEF r
<1>6. WellSent(r)
  BY <1>1, <1>5 DEF Well, WellSent, Early
<1>7. WellSignalled(r)
  BY <1>2, <1>5 DEF WellSignalled
<1>8. WellRecorded(r)
  BY <1>1, <1>5 DEF Well, WellRecorded, UnderSignal, Early, Settled
<1> QED
  BY <1>1, <1>2, <1>3, <1>4, <1>5, <1>6, <1>7, <1>8, InjectAuthHolds DEF Within, Well

LEMMA NotCollectedHolds ==
  ASSUME IInv, NEW c \in Calls, NotCollected(c)
  PROVE  IInv' /\ Silent
<1>1. /\ call[c].phase = "detecting" /\ Well(call[c]) /\ call[c] \in CallRecords /\ Running(c)
  BY UnderWay DEF NotCollected, Failing, Waiting
<1>2. /\ call[c].sent = 0 /\ call[c].opened = call[c].records /\ call[c].records > 0
  BY <1>1 DEF Well, WellSent, WellRecorded, Early, Settled, One, CallRecords
<1>3. PICK kind \in ErrorKinds : CollectFails(c, call[c], kind)
  BY DEF NotCollected, ErrorKinds
<1> QED
  BY <1>1, <1>2, <1>3, CollectFailsHolds

LEMMA CallerAbortsHolds ==
  ASSUME IInv, NEW c \in Calls, NEW reason \in Reasons, CallerAborts(c, reason)
  PROVE  IInv' /\ Silent
<1> DEFINE k == IF call[c].phase \in UnderSignal /\ call[c].cause = "none"
                THEN reason ELSE call[c].cause
           n == [call[c] EXCEPT !.caller = reason, !.cause = k]
<1>1. /\ Well(call[c]) /\ call[c] \in CallRecords
      /\ call[c].phase \notin {"idle", "thrown"} \cup Settled
  BY DEF CallerAborts, IInv, Well
<1>2. call' = [call EXCEPT ![c] = n] /\ error' = error /\ flight' = flight
  BY DEF CallerAborts, IInv, TypeOK
<1>3. /\ k \in {"none"} \cup Reasons
      /\ call[c].phase \in UnderSignal => k # "none"
      /\ call[c].phase \notin UnderSignal => k = call[c].cause
  BY <1>1 DEF CallRecords, Reasons
<1> HIDE DEF k
<1>4. n \in CallRecords
  BY <1>1, <1>3 DEF CallRecords
<1>5. /\ n.phase = call[c].phase /\ n.sent = call[c].sent /\ n.kind = call[c].kind
      /\ n.refused = call[c].refused /\ n.cause = k /\ n.attempts = call[c].attempts
      /\ n.issued = call[c].issued /\ n.opened = call[c].opened /\ n.records = call[c].records
      /\ n.failure = call[c].failure
  BY <1>1 DEF CallRecords
<1> HIDE DEF n
<1>6. WellSent(n)
  BY <1>1, <1>5 DEF Well, WellSent
<1>7. WellSignalled(n)
  BY <1>1, <1>3, <1>5 DEF Well, WellSignalled
<1>8. WellRecorded(n)
  BY <1>1, <1>5 DEF Well, WellRecorded
<1> QED
  BY <1>2, <1>4, <1>5, <1>6, <1>7, <1>8, GoesOn DEF Well

LEMMA TimerFiresHolds ==
  ASSUME IInv, NEW c \in Calls, TimerFires(c)
  PROVE  IInv' /\ Silent
<1> DEFINE n == [call[c] EXCEPT !.cause = "abort"]
<1>1. /\ Well(call[c]) /\ call[c] \in CallRecords /\ call[c].phase \in UnderSignal
  BY DEF TimerFires, Timed, IInv, Well
<1>2. call' = [call EXCEPT ![c] = n] /\ error' = error /\ flight' = flight
  BY DEF TimerFires, IInv, TypeOK
<1>3. n \in CallRecords
  BY <1>1 DEF CallRecords, Reasons
<1>4. /\ n.phase = call[c].phase /\ n.sent = call[c].sent /\ n.kind = call[c].kind
      /\ n.refused = call[c].refused /\ n.cause = "abort" /\ n.attempts = call[c].attempts
      /\ n.caller = call[c].caller
      /\ n.issued = call[c].issued /\ n.opened = call[c].opened /\ n.records = call[c].records
      /\ n.failure = call[c].failure
  BY <1>1 DEF CallRecords
<1> HIDE DEF n
<1>5. WellSent(n)
  BY <1>1, <1>4 DEF Well, WellSent
<1>6. WellSignalled(n)
  BY <1>1, <1>4 DEF Well, WellSignalled
<1>7. WellRecorded(n)
  BY <1>1, <1>4 DEF Well, WellRecorded
<1> QED
  BY <1>2, <1>3, <1>4, <1>5, <1>6, <1>7, GoesOn DEF Well

-----------------------------------------------------------------------------

LEMMA NextHolds ==
  ASSUME IInv, Next
  PROVE  IInv' /\ Silent
<1>1. ASSUME NEW c \in Calls, Start(c)
      PROVE  IInv' /\ Silent
  <2>1. Methods[c] \subseteq Kinds
    OBVIOUS
  <2> QED
    BY <1>1, <2>1, RefuseArgumentsHolds, CallVerbHolds, CallFormHolds, CallChargeHolds DEF Start
<1>2. ASSUME NEW c \in Calls, GoOn(c)
      PROVE  IInv' /\ Silent
  BY <1>2, ContinueHolds, NotRefreshedHolds, WakeHolds, RefetchHolds, RejectHolds,
     FetchAnsweredHolds, FetchRejectedHolds, UnauthorizedHolds, RefetchAnsweredHolds,
     RefetchRejectedHolds, BodyReadHolds, BodyBrokenHolds, CollectAnsweredHolds,
     CollectRejectedHolds, CollectedHolds, NotCollectedHolds DEF GoOn
<1> QED
  BY <1>1, <1>2, TimerFiresHolds, CallerAbortsHolds, RefreshGrantedHolds, RefreshFailsHolds
     DEF Next

LEMMA StutterHolds ==
  ASSUME IInv, UNCHANGED vars
  PROVE  IInv' /\ Silent
BY DEF vars, IInv, TypeOK, Failures, FailsWith, Refresher, Silent

(* The invariant holds throughout.                                          *)
LEMMA Invariance == Spec => []IInv
<1>1. IInv /\ [Next]_vars => IInv'
  BY NextHolds, StutterHolds
<1> QED
  BY <1>1, InitHolds, PTL DEF Spec

(* Every variable keeps its type, for any calls of any methods.             *)
THEOREM TypeCorrect == Spec => []TypeOK
  BY Invariance, PTL DEF IInv

(* fetch-with-retry.ts:31-45: what must be sent once is, for any calls.     *)
THEOREM SentAtMostOnce == Spec => []SentOnce
<1>1. IInv => SentOnce
  BY DEF IInv, Well, WellSent, SentOnce, Most, One
<1> QED
  BY <1>1, Invariance, PTL

(* client.ts:96-101, 383-390, config.ts:15: every error is heard of once.   *)
THEOREM ErrorsHeardOnce == Spec => []ReportedOnce
<1>1. ASSUME IInv PROVE ReportedOnce
  <2> SUFFICES ASSUME NEW c \in Calls
               PROVE  /\ error[c].heard <= 1
                      /\ call[c].phase \in Settled => call[c].records = call[c].opened
                      /\ call[c].phase = "rejected" =>
                            LET e == error[call[c].failure] IN
                            /\ e.heard = 1
                            /\ e.events = IF e.kind = "http" THEN 0 ELSE 1
                            /\ e.kind = "http" => call[c].records > 0
    BY DEF ReportedOnce
  <2>1. error[c].heard <= 1
    BY <1>1 DEF IInv, Sound, One
  <2>2. call[c].phase \in Settled => call[c].records = call[c].opened
    BY <1>1 DEF IInv, Well, WellRecorded, CallRecords
  <2>3. ASSUME call[c].phase = "rejected"
        PROVE  LET e == error[call[c].failure] IN
               /\ e.heard = 1
               /\ e.events = IF e.kind = "http" THEN 0 ELSE 1
               /\ e.kind = "http" => call[c].records > 0
    <3>1. FailsWith(c)
      BY <1>1, <2>3 DEF IInv, Failures, Failing
    <3> QED
      BY <1>1, <2>3, <3>1 DEF IInv, FailsWith, Sound, One
  <2> QED
    BY <2>1, <2>2, <2>3
<1> QED
  BY <1>1, Invariance, PTL

(* payments.module.ts:163-167, timeout-signal.ts:40-49: what was given up   *)
(* sends nothing any more, whatever it was waiting for.                     *)
THEOREM NothingAfterStop == Spec => StoppedSendsNothing
<1>1. IInv /\ [Next]_vars =>
        [\A c \in Calls :
            (\/ call[c].caller # "none"
             \/ call[c].cause # "none" /\ call[c].phase # "detecting")
                => call'[c].sent = call[c].sent]_vars
  BY NextHolds DEF Silent, Stopped
<1> QED
  BY <1>1, Invariance, PTL DEF Spec, StoppedSendsNothing

-----------------------------------------------------------------------------
(* Endpoints.  Ids in a path.                                               *)

(* A set of naturals that has 0 and, with every number below k, the next    *)
(* one, has k: otherwise adding one would map what it has below k one to    *)
(* one into itself, and yet not onto 0.                                     *)
LEMMA CountingReaches ==
    ASSUME NEW k \in Nat, NEW T, T \subseteq Nat, 0 \in T,
           \A n \in T : n < k => n + 1 \in T
    PROVE  k \in T
<1> SUFFICES ASSUME k \notin T PROVE FALSE
  OBVIOUS
<1> DEFINE B == {n \in T : n < k}
<1>1. 0 \in B /\ B \in SUBSET Nat /\ \A n \in B : n <= k
  <2>1. 0 \in B
    OBVIOUS
  <2>2. B \subseteq Nat
    OBVIOUS
  <2>3. \A n \in B : n <= k
    OBVIOUS
  <2> HIDE DEF B
  <2> QED BY <2>1, <2>2, <2>3
<1>2. IsFiniteSet(B)
  <2> HIDE DEF B
  <2> QED BY <1>1, FS_BoundedSetOfNaturals
<1>3. \A n \in B : n + 1 \in B
  OBVIOUS
<1> HIDE DEF B
<1> DEFINE next == [n \in B |-> n + 1]
<1>4. next \in Injection(B, B)
  BY <1>1, <1>3 DEF Injection, IsInjective
<1>5. next \in Surjection(B, B)
  BY <1>2, <1>4, FS_Injection
<1>6. PICK n \in B : next[n] = 0
  BY <1>1, <1>5 DEF Surjection
<1> QED BY <1>1, <1>6

(* So a set of naturals has a least, and one that is bounded a greatest.    *)
LEMMA LeastExists ==
    ASSUME NEW S, S \subseteq Nat, S # {}
    PROVE  \E m \in S : \A n \in S : m <= n
<1> SUFFICES ASSUME \A m \in S : \E n \in S : n < m PROVE FALSE
  OBVIOUS
<1> DEFINE T == {n \in Nat : \A s \in S : n < s}
<1>1. PICK k \in S : TRUE
  OBVIOUS
<1>2. 0 \in T
  OBVIOUS
<1>3. ASSUME NEW n \in T PROVE n + 1 \in T
  <2>1. n + 1 \notin S
    OBVIOUS
  <2> QED BY <1>3, <2>1
<1>4. k \in T
  <2> HIDE DEF T
  <2>1. T \subseteq Nat
    BY DEF T
  <2> QED BY <1>1, <1>2, <1>3, <2>1, CountingReaches
<1> QED BY <1>1, <1>4

LEMMA GreatestExists ==
    ASSUME NEW S, S \subseteq Nat, S # {}, NEW k \in Nat, \A s \in S : s <= k
    PROVE  \E m \in S : \A n \in S : n <= m
<1> DEFINE T == {n \in Nat : \A s \in S : s <= n}
<1>1. PICK m \in T : \A n \in T : m <= n
  <2>1. T \subseteq Nat /\ k \in T
    OBVIOUS
  <2> HIDE DEF T
  <2> QED BY <2>1, LeastExists
<1>2. m \in S
  <2> SUFFICES ASSUME m \notin S PROVE FALSE
    OBVIOUS
  <2>0. PICK x \in S : TRUE
    OBVIOUS
  <2>1. m - 1 \in Nat /\ \A s \in S : s <= m - 1
    BY <2>0
  <2>2. m - 1 \in T
    BY <2>1
  <2> QED BY <1>1, <2>0, <2>1, <2>2
<1> QED BY <1>2

(* A function that is defined by what it is at 0 and by a step from each    *)
(* number to the next one: there is one, and any two agree.                 *)
Follows(g, n, b, F) == g[0] = b /\ \A i \in 1 .. n : g[i] = F[<<i, g[i - 1]>>]

LEMMA StepsExist ==
    ASSUME NEW n \in Nat, NEW X, NEW b \in X, NEW F \in [(1 .. n) \X X -> X]
    PROVE  \E g \in [0 .. n -> X] : Follows(g, n, b, F)
<1> DEFINE Steps(k, g) == Follows(g, k, b, F)
           T == {k \in 0 .. n : \E g \in [0 .. k -> X] : Steps(k, g)}
<1>1. 0 \in T
  <2>1. [i \in 0 .. 0 |-> b] \in [0 .. 0 -> X] /\ Steps(0, [i \in 0 .. 0 |-> b])
    BY DEF Follows
  <2> HIDE DEF Steps
  <2>2. \E g \in [0 .. 0 -> X] : Steps(0, g)
    BY <2>1
  <2> QED BY <2>2
<1>2. ASSUME NEW k \in T, k < n PROVE k + 1 \in T
  <2>1. PICK g \in [0 .. k -> X] : Steps(k, g)
    BY <1>2
  <2> DEFINE h == [i \in 0 .. k + 1 |-> IF i = k + 1 THEN F[<<k + 1, g[k]>>] ELSE g[i]]
  <2>2. k \in Nat /\ k + 1 \in 0 .. n /\ g[k] \in X
    BY <1>2
  <2>3. F[<<k + 1, g[k]>>] \in X
    BY <1>2, <2>2
  <2>4. h \in [0 .. k + 1 -> X]
    BY <2>2, <2>3
  <2>5. Steps(k + 1, h)
    <3>1. h[k + 1] = F[<<k + 1, g[k]>>] /\ \A i \in 0 .. k : h[i] = g[i]
      BY <2>2
    <3> HIDE DEF h
    <3>2. h[0] = b
      BY <2>1, <2>2, <3>1 DEF Follows
    <3>3. ASSUME NEW i \in 1 .. k + 1 PROVE h[i] = F[<<i, h[i - 1]>>]
      <4>1. CASE i = k + 1
        <5>1. i - 1 = k /\ h[k] = g[k]
          BY <2>2, <3>1, <4>1
        <5> QED BY <3>1, <4>1, <5>1
      <4>2. CASE i # k + 1
        BY <2>1, <2>2, <3>1, <4>2 DEF Follows
      <4> QED BY <4>1, <4>2
    <3> QED BY <3>2, <3>3 DEF Follows
  <2> HIDE DEF Steps, h
  <2> QED BY <2>2, <2>4, <2>5
<1>3. n \in T
  <2>1. T \subseteq Nat
    BY DEF Follows
  <2> HIDE DEF T
  <2> QED BY <1>1, <1>2, <2>1, CountingReaches
<1> QED BY <1>3

LEMMA SameSteps ==
    ASSUME NEW n \in Nat, NEW g, NEW h, g[0] = h[0],
           \A i \in 1 .. n : g[i - 1] = h[i - 1] => g[i] = h[i]
    PROVE  g[n] = h[n]
<1> DEFINE T == {k \in 0 .. n : g[k] = h[k]}
<1>1. T \subseteq Nat /\ 0 \in T
  OBVIOUS
<1>2. ASSUME NEW k \in T, k < n PROVE k + 1 \in T
  <2>1. k \in Nat /\ k + 1 \in 1 .. n /\ (k + 1) - 1 = k
    BY <1>2
  <2>2. g[k + 1] = h[k + 1]
    BY <1>2, <2>1
  <2> QED BY <2>1, <2>2
<1>3. n \in T
  <2> HIDE DEF T
  <2> QED BY <1>1, <1>2, CountingReaches
<1> QED BY <1>3

(* validate.ts:7-14: value.trim() is a text whose ends are no blanks.       *)
Characters == Path!Chars

Texts == Seq(Characters)

LEMMA TrimmedText ==
    ASSUME NEW id \in Texts
    PROVE  /\ Path!Trim(id) \in Texts
           /\ Path!Trim(id) # <<>> =>
                /\ Path!Trim(id)[1] # "blank"
                /\ Path!Trim(id)[Len(Path!Trim(id))] # "blank"
<1> DEFINE ink == {i \in DOMAIN id : id[i] # "blank"}
           t == Path!Trim(id)
<1>1. CASE ink = {}
  BY <1>1 DEF Path!Trim, Texts
<1>2. CASE ink # {}
  <2>1. ink \subseteq Nat /\ (\A i \in ink : i <= Len(id)) /\ Len(id) \in Nat
    BY DEF Texts
  <2> DEFINE m == Path!Min(ink)  n == Path!Max(ink)
  <2>2. m \in ink /\ n \in ink /\ m <= n
    <3> HIDE DEF ink
    <3>1. \E x \in ink : \A y \in ink : x =< y
      BY <1>2, <2>1, LeastExists
    <3>2. \E x \in ink : \A y \in ink : x >= y
      BY <1>2, <2>1, GreatestExists
    <3> QED BY <3>1, <3>2 DEF Path!Min, Path!Max
  <2>3. /\ m \in 1 .. Len(id) /\ n \in 1 .. Len(id)
        /\ id[m] # "blank" /\ id[n] # "blank"
    BY <2>2 DEF Texts
  <2>4. \A i \in m .. n : id[i] \in Characters
    <3> HIDE DEF m, n
    <3> QED BY <2>3 DEF Texts
  <2>5. t = SubSeq(id, m, n)
    BY <1>2 DEF Path!Trim
  <2> HIDE DEF m, n, ink, t
  <2>6. /\ t \in Seq(Characters) /\ Len(t) = n - m + 1
        /\ \A i \in 1 .. n - m + 1 : t[i] = id[m + i - 1]
    BY <2>2, <2>3, <2>4, <2>5, SubSeqProperties
  <2>7. t[1] = id[m] /\ t[n - m + 1] = id[n]
    BY <2>2, <2>3, <2>6
  <2> QED BY <2>3, <2>6, <2>7 DEF Texts, t
<1> QED BY <1>1, <1>2

(* What a part of a path has to be so that the platform leaves it alone.    *)
StaysAPart(text) ==
    /\ text # <<>>
    /\ \A i \in DOMAIN text : text[i].encoded \/ text[i].is \notin {"/", "?"}
    /\ text \notin Path!Dots(1) \cup Path!Dots(2)

(* validate.ts:26-47: an id that is not refused is one part of the path,    *)
(* whatever it contains, and GoPay reads there what was given.              *)
LEMMA EncodedStays ==
    ASSUME NEW id \in Texts, ~Path!Refuses(id)
    PROVE  /\ StaysAPart(Path!Encode(id))
           /\ Path!Decoded(Path!Encode(id)) = Path!Trim(id)
<1> DEFINE t == Path!Trim(id)
           e == Path!Encode(id)
<1>1. /\ t \in Seq(Characters)
      /\ t \notin {<<>>, <<".">>, <<".", ".">>}
  BY TrimmedText DEF Texts, Path!Refuses
<1>2. e = [i \in DOMAIN t |-> [encoded |-> t[i] \notin {"a", "."}, is |-> t[i]]]
  BY DEF Path!Encode
<1> HIDE DEF t, e
<1>3. DOMAIN e = DOMAIN t /\ DOMAIN t = 1 .. Len(t) /\ Len(t) \in Nat
  BY <1>1, <1>2
<1>4. Path!Decoded(e) = t
  BY <1>1, <1>2 DEF Path!Decoded
<1>5. e # <<>>
  BY <1>1, <1>3
<1>6. \A i \in DOMAIN e : e[i].encoded \/ e[i].is \notin {"/", "?"}
  BY <1>2
<1>7. ASSUME NEW n \in 1 .. 2, e \in Path!Dots(n) PROVE FALSE
  <2>1. DOMAIN t = 1 .. n /\ \A i \in 1 .. n : e[i] \in {Path!Raw("."), Path!Raw("%2e")}
    BY <1>3, <1>7 DEF Path!Dots
  <2>2. \A i \in 1 .. n : t[i] = "."
    BY <1>2, <2>1 DEF Path!Raw
  <2>3. Len(t) = n
    <3>1. n \in 1 .. Len(t)
      BY <1>3, <2>1
    <3>2. Len(t) \in 1 .. n
      BY <1>3, <2>1, <3>1
    <3> QED BY <3>1, <3>2
  <2> QED BY <1>1, <2>2, <2>3
<1> QED BY <1>4, <1>5, <1>6, <1>7 DEF StaysAPart, t, e

(* The ids of a call are texts.                                             *)
Given ==
    /\ DOMAIN ids \subseteq Nat
    /\ \A n \in DOMAIN ids : ids[n] \in Texts

(* When a request was sent, each id in its path is one part of it, and      *)
(* GoPay reads there the id that was given, without blanks around it.       *)
IdsAreParts ==
    outcome.result = "sent" =>
        \A n \in DOMAIN ids :
            n <= Path!Cardinality(Path!Slots(endpoint)) =>
                /\ StaysAPart(Path!Encode(ids[n]))
                /\ Path!Decoded(Path!Encode(ids[n])) = Path!Trim(ids[n])

LEMMA InitGiven == Path!Init => Given
<1> SUFFICES ASSUME Path!Init PROVE Given
  OBVIOUS
<1>1. PICK n : ids \in [1 .. n -> Path!Strings(MaxLength)]
  BY DEF Path!Init
<1>2. Path!Strings(MaxLength) \subseteq Texts
  <2>1. ASSUME NEW k \in 0 .. MaxLength PROVE [1 .. k -> Characters] \subseteq Texts
    BY <2>1, LengthAssumption DEF Texts
  <2> QED BY <2>1 DEF Path!Strings, Characters
<1>3. DOMAIN ids = 1 .. n /\ \A i \in 1 .. n : ids[i] \in Texts
  BY <1>1, <1>2
<1> QED BY <1>3 DEF Given

(* validate.ts:26-36: however long an id is and whatever is in it, what it  *)
(* becomes in the path of a request that is sent holds no separator and is  *)
(* no dot segment, in any spelling, and is read as the id that was given.   *)
THEOREM IdsStayParts == Path!Spec => []IdsAreParts
<1>1. Path!Init => Given /\ IdsAreParts
  <2>1. Path!Init => outcome = [result |-> "none"]
    BY DEF Path!Init
  <2> QED BY <2>1, InitGiven DEF IdsAreParts
<1>2. Given /\ IdsAreParts /\ [Path!Next]_(Path!vars) => (Given /\ IdsAreParts)'
  <2> SUFFICES ASSUME Given, IdsAreParts, [Path!Next]_(Path!vars)
               PROVE  Given' /\ IdsAreParts'
    OBVIOUS
  <2>1. CASE UNCHANGED Path!vars
    BY <2>1 DEF Path!vars, Given, IdsAreParts, Path!Slots
  <2>2. CASE Path!Call
    <3>1. UNCHANGED <<page, endpoint, ids>>
      BY <2>2 DEF Path!Call
    <3>2. ASSUME outcome'.result = "sent", NEW n \in DOMAIN ids,
                 n <= Path!Cardinality(Path!Slots(endpoint))
          PROVE  ~Path!Refuses(ids[n])
      <4>1. ~Path!Refused(n)
        BY <2>2, <3>2 DEF Path!Call
      <4> QED BY <3>2, <4>1 DEF Path!Refused
    <3>3. Given'
      BY <3>1 DEF Given
    <3>4. IdsAreParts'
      BY <3>1, <3>2, EncodedStays DEF Given, IdsAreParts, Path!Slots
    <3> QED BY <3>3, <3>4
  <2> QED BY <2>1, <2>2 DEF Path!Next
<1> QED BY <1>1, <1>2, PTL DEF Path!Spec

(* Sequences.                                                               *)
LEMMA ConcatElements ==
    \A S : \A s, t \in Seq(S) :
        /\ s \o t \in Seq(S) /\ Len(s \o t) = Len(s) + Len(t)
        /\ \A i \in 1 .. Len(s) + Len(t) :
              (s \o t)[i] = IF i <= Len(s) THEN s[i] ELSE t[i - Len(s)]
  BY ConcatProperties

LEMMA ConcatAssociates ==
    \A S : \A s, t, u \in Seq(S) : (s \o t) \o u = s \o (t \o u)
  BY ConcatAssociative

LEMMA AppendToEnd ==
    ASSUME NEW S, NEW s \in Seq(S), NEW u \in Seq(S), NEW t \in S
    PROVE  s \o Append(u, t) = Append(s \o u, t)
  BY AppendProperties, ConcatProperties

LEMMA PutLast ==
    ASSUME NEW S, NEW s \in Seq(S), NEW e \in S, NEW t \in S
    PROVE  [Append(s, e) EXCEPT ![Len(s) + 1] = t] = Append(s, t)
<1> DEFINE a == Append(s, e)  b == Append(s, t)
<1>1. /\ a \in Seq(S) /\ Len(a) = Len(s) + 1
      /\ b \in Seq(S) /\ Len(b) = Len(s) + 1
      /\ \A i \in 1 .. Len(s) : a[i] = s[i] /\ b[i] = s[i]
      /\ b[Len(s) + 1] = t
  BY AppendProperties
<1>2. Len(s) + 1 \in 1 .. Len(a) /\ Len(s) \in Nat
  BY <1>1
<1> HIDE DEF a, b
<1> DEFINE c == [a EXCEPT ![Len(s) + 1] = t]
<1>3. c \in Seq(S) /\ Len(c) = Len(a) /\ \A i \in 1 .. Len(a) : c[i] = b[i]
  <2>1. /\ c \in Seq(S) /\ Len(c) = Len(a)
        /\ \A i \in 1 .. Len(a) : c[i] = IF i = Len(s) + 1 THEN t ELSE a[i]
    BY <1>1, <1>2, ExceptSeq
  <2> HIDE DEF c
  <2> QED BY <1>1, <1>2, <2>1
<1> HIDE DEF c
<1>4. c = b
  BY <1>1, <1>3, SeqEqual
<1> QED BY <1>4 DEF a, b, c

LEMMA SeqOf ==
    ASSUME NEW n \in Nat, NEW S, NEW f \in [1 .. n -> S]
    PROVE  f \in Seq(S) /\ Len(f) = n
  OBVIOUS

LEMMA Joined ==
    ASSUME NEW n \in Nat, NEW m \in Nat, NEW s, NEW t,
           s = [i \in 1 .. n |-> s[i]], t = [i \in 1 .. m |-> t[i]]
    PROVE  s \o t = [i \in 1 .. n + m |-> IF i <= n THEN s[i] ELSE t[i - n]]
<1> DEFINE S == {s[i] : i \in 1 .. n} \cup {t[i] : i \in 1 .. m}
<1>1. (\A i \in 1 .. n : s[i] \in S) /\ \A i \in 1 .. m : t[i] \in S
  OBVIOUS
<1> HIDE DEF S
<1>2. s \in [1 .. n -> S] /\ t \in [1 .. m -> S]
  BY <1>1
<1>3. s \in Seq(S) /\ t \in Seq(S) /\ Len(s) = n /\ Len(t) = m
  BY <1>2, SeqOf
<1>4. /\ s \o t \in Seq(S) /\ Len(s \o t) = Len(s) + Len(t)
      /\ \A i \in 1 .. Len(s) + Len(t) :
            (s \o t)[i] = IF i <= Len(s) THEN s[i] ELSE t[i - Len(s)]
  BY <1>3, ConcatElements
<1> DEFINE u == s \o t
<1>5. u = [i \in 1 .. n + m |-> u[i]] /\ \A i \in 1 .. n + m : u[i] = IF i <= n THEN s[i] ELSE t[i - n]
  BY <1>3, <1>4
<1> HIDE DEF u
<1>6. u = [i \in 1 .. n + m |-> IF i <= n THEN s[i] ELSE t[i - n]]
  BY <1>5
<1> QED BY <1>6 DEF u

LEMMA PairOf ==
    ASSUME NEW S, NEW a \in S, NEW b \in S
    PROVE  <<a>> \o <<b>> = <<a, b>>
<1> DEFINE s == <<a>>  t == <<b>>
<1>1. s \in Seq(S) /\ t \in Seq(S) /\ Len(s) = 1 /\ Len(t) = 1 /\ s[1] = a /\ t[1] = b
  OBVIOUS
<1>2. <<a, b>> \in Seq(S)
  OBVIOUS
<1> HIDE DEF s, t
<1>3. s \o t \in Seq(S) /\ Len(s \o t) = 2 /\ (s \o t)[1] = a /\ (s \o t)[2] = b
  <2>1. /\ s \o t \in Seq(S) /\ Len(s \o t) = Len(s) + Len(t)
        /\ \A i \in 1 .. Len(s) + Len(t) :
              (s \o t)[i] = IF i <= Len(s) THEN s[i] ELSE t[i - Len(s)]
    BY <1>1, ConcatProperties
  <2> QED BY <1>1, <2>1
<1> DEFINE u == s \o t  v == <<a, b>>
<1>4. Len(u) = Len(v) /\ \A i \in 1 .. Len(u) : u[i] = v[i]
  BY <1>3
<1> HIDE DEF u, v
<1>5. u = v
  BY <1>2, <1>3, <1>4, SeqEqual DEF u, v
<1> QED BY <1>5 DEF u, v, s, t

(* What the texts of paths are made of.                                     *)
Paths == Path!OfServer \cup Path!OfPage

Words == UNION {{path[i] : i \in DOMAIN path} : path \in Paths}

Tokens == [encoded : BOOLEAN, is : Characters \cup Words]

Slash == Path!Raw("/")

LEMMA RawToken ==
    ASSUME NEW c \in Characters \cup Words
    PROVE  Path!Raw(c) \in Tokens
  BY DEF Path!Raw, Tokens

LEMMA SlashToken == Slash \in Tokens
  <1>1. "/" \in Characters
    BY DEF Characters, Path!Chars
  <1> QED BY <1>1, RawToken DEF Slash

(* The platform splits a text: one token more either begins a part or is    *)
(* the end of the last one.                                                 *)
NoParts == <<<<>>>>

Partings == Seq(Seq(Tokens)) \ {<<>>}

PartsWith(parts, t) ==
    IF t = Slash THEN Append(parts, <<>>)
    ELSE [parts EXCEPT ![Len(parts)] = Append(@, t)]

LEMMA PartsWithType ==
    ASSUME NEW parts \in Partings, NEW t \in Tokens
    PROVE  PartsWith(parts, t) \in Partings
  BY DEF Partings, PartsWith

LEMMA SplitSteps ==
    ASSUME NEW text \in Seq(Tokens)
    PROVE  \E g \in [0 .. Len(text) -> Partings] :
              /\ g[0] = NoParts
              /\ \A n \in 1 .. Len(text) : g[n] = PartsWith(g[n - 1], text[n])
              /\ Path!Split(text) = g[Len(text)]
<1> DEFINE len == Len(text)
           F == [np \in (1 .. len) \X Partings |-> PartsWith(np[2], text[np[1]])]
<1>1. len \in Nat /\ NoParts \in Partings
  BY DEF Partings, NoParts
<1>2. F \in [(1 .. len) \X Partings -> Partings]
  BY PartsWithType
<1>3. PICK g \in [0 .. len -> Partings] : Follows(g, len, NoParts, F)
  <2> HIDE DEF F, len
  <2> QED BY <1>1, <1>2, StepsExist
<1>4. ASSUME NEW n \in 1 .. len PROVE g[n] = PartsWith(g[n - 1], text[n])
  <2>1. g[n - 1] \in Partings
    <3> HIDE DEF F, len
    <3> QED BY <1>1, <1>3
  <2> QED BY <1>3, <2>1 DEF Follows
<1> HIDE DEF F
<1> DEFINE Eq(h) == h = [n \in 0 .. len |->
                           IF n = 0 THEN NoParts ELSE PartsWith(h[n - 1], text[n])]
<1>5. Eq(g)
  <2>1. ASSUME NEW n \in 0 .. len
        PROVE  g[n] = IF n = 0 THEN NoParts ELSE PartsWith(g[n - 1], text[n])
    <3> HIDE DEF len
    <3> QED BY <1>1, <1>3, <1>4 DEF Follows
  <2> HIDE DEF len
  <2> QED BY <2>1
<1> DEFINE parts == CHOOSE h : Eq(h)
<1>6. Path!Split(text) = parts[len]
  BY DEF Path!Split, PartsWith, Slash, NoParts
<1>7. Eq(parts)
  <2> HIDE DEF Eq
  <2> QED BY <1>5
<1> HIDE DEF parts, len
<1>8. ASSUME NEW n \in 1 .. len, parts[n - 1] = g[n - 1] PROVE parts[n] = g[n]
  BY <1>1, <1>4, <1>7, <1>8
<1>9. parts[len] = g[len]
  <2>1. parts[0] = g[0]
    BY <1>1, <1>3, <1>7 DEF Follows
  <2> HIDE DEF Eq
  <2> QED BY <1>1, <1>8, <2>1, SameSteps
<1> QED BY <1>3, <1>4, <1>6, <1>9 DEF len, Follows

LEMMA SplitNothing == Path!Split(<<>>) = NoParts
<1>1. <<>> \in Seq(Tokens) /\ Len(<<>>) = 0
  OBVIOUS
<1> QED BY <1>1, SplitSteps

LEMMA SplitOneMore ==
    ASSUME NEW text \in Seq(Tokens), NEW t \in Tokens
    PROVE  /\ Path!Split(text) \in Partings
           /\ Path!Split(Append(text, t)) = PartsWith(Path!Split(text), t)
<1> DEFINE len == Len(text)  more == Append(text, t)
<1>1. PICK g \in [0 .. len -> Partings] :
          /\ g[0] = NoParts
          /\ \A n \in 1 .. len : g[n] = PartsWith(g[n - 1], text[n])
          /\ Path!Split(text) = g[len]
  BY SplitSteps
<1>2. /\ len \in Nat /\ more \in Seq(Tokens) /\ Len(more) = len + 1
      /\ \A n \in 1 .. len : more[n] = text[n]
      /\ more[len + 1] = t
  OBVIOUS
<1> HIDE DEF len, more
<1>3. PICK h \in [0 .. len + 1 -> Partings] :
          /\ h[0] = NoParts
          /\ \A n \in 1 .. len + 1 : h[n] = PartsWith(h[n - 1], more[n])
          /\ Path!Split(more) = h[len + 1]
  BY <1>2, SplitSteps
<1>4. h[len] = g[len]
  <2>1. ASSUME NEW n \in 1 .. len, h[n - 1] = g[n - 1] PROVE h[n] = g[n]
    BY <1>1, <1>2, <1>3, <2>1
  <2>2. h[0] = g[0]
    BY <1>1, <1>3
  <2> QED BY <1>2, <2>1, <2>2, SameSteps
<1>5. h[len + 1] = PartsWith(h[len], t)
  BY <1>2, <1>3
<1> QED BY <1>1, <1>2, <1>3, <1>4, <1>5 DEF more

(* A word without a separator goes to the end of the last part; after a     *)
(* separator it is a part of its own; alone it is the only one.             *)
LEMMA SplitWord ==
    ASSUME NEW text \in Seq(Tokens), NEW word \in Seq(Tokens),
           \A i \in DOMAIN word : word[i] # Slash
    PROVE  LET parts == Path!Split(text) IN
           Path!Split(text \o word) =
               [parts EXCEPT ![Len(parts)] = @ \o word]
<1> DEFINE parts == Path!Split(text)
           last == Len(parts)
           upTo(k) == SubSeq(word, 1, k)
           T == {k \in 0 .. Len(word) :
                    Path!Split(text \o upTo(k)) = [parts EXCEPT ![last] = @ \o upTo(k)]}
<1>1. parts \in Partings
  BY SlashToken, SplitOneMore
<1>2. last \in DOMAIN parts /\ parts[last] \in Seq(Tokens) /\ last \in Nat
  BY <1>1 DEF Partings
<1> HIDE DEF parts, last
<1>3. 0 \in T
  <2>1. upTo(0) = <<>> /\ text \o <<>> = text /\ parts[last] \o <<>> = parts[last]
    BY <1>2
  <2>2. [parts EXCEPT ![last] = @ \o <<>>] = parts
    BY <1>1, <1>2, <2>1 DEF Partings
  <2>3. 0 \in 0 .. Len(word)
    OBVIOUS
  <2> HIDE DEF upTo
  <2> QED BY <2>1, <2>2, <2>3 DEF parts
<1>4. ASSUME NEW k \in T, k < Len(word) PROVE k + 1 \in T
  <2> DEFINE sofar == text \o upTo(k)  t == word[k + 1]
  <2>1. /\ k \in Nat /\ k + 1 \in DOMAIN word /\ k + 1 \in 0 .. Len(word)
        /\ t \in Tokens /\ t # Slash
    BY <1>4
  <2>2. upTo(k) \in Seq(Tokens) /\ upTo(k + 1) = Append(upTo(k), t)
    BY <1>4, <2>1
  <2>3. sofar \in Seq(Tokens) /\ text \o upTo(k + 1) = Append(sofar, t)
    <3> DEFINE piece == upTo(k)
    <3>1. piece \in Seq(Tokens)
      BY <2>2
    <3> HIDE DEF piece, t
    <3>2. text \o piece \in Seq(Tokens) /\ text \o Append(piece, t) = Append(text \o piece, t)
      BY <2>1, <3>1, AppendToEnd, ConcatProperties
    <3> QED BY <2>2, <3>2 DEF piece
  <2>4. Path!Split(sofar) = [parts EXCEPT ![last] = @ \o upTo(k)]
    BY <1>4
  <2> HIDE DEF sofar, upTo, t
  <2>5. Path!Split(text \o upTo(k + 1)) = PartsWith(Path!Split(sofar), t)
    BY <2>1, <2>3, SplitOneMore
  <2>6. /\ Len(Path!Split(sofar)) = last
        /\ Path!Split(sofar)[last] = parts[last] \o upTo(k)
    BY <1>1, <1>2, <2>4 DEF Partings, last
  <2>7. PartsWith(Path!Split(sofar), t)
            = [parts EXCEPT ![last] = Append(parts[last] \o upTo(k), t)]
    BY <1>1, <1>2, <2>1, <2>4, <2>6 DEF PartsWith, Partings
  <2>8. Append(parts[last] \o upTo(k), t) = parts[last] \o upTo(k + 1)
    <3> DEFINE old == parts[last]  piece == upTo(k)
    <3>1. old \in Seq(Tokens) /\ piece \in Seq(Tokens)
      BY <1>2, <2>2
    <3> HIDE DEF old, piece
    <3>2. old \o Append(piece, t) = Append(old \o piece, t)
      BY <2>1, <3>1, AppendToEnd
    <3> QED BY <2>2, <3>2 DEF old, piece
  <2> QED BY <2>1, <2>5, <2>7, <2>8
<1>5. Len(word) \in T
  <2>1. T \subseteq Nat /\ Len(word) \in Nat
    OBVIOUS
  <2> HIDE DEF T
  <2> QED BY <1>3, <1>4, <2>1, CountingReaches
<1>6. upTo(Len(word)) = word
  OBVIOUS
<1> HIDE DEF upTo
<1> QED BY <1>5, <1>6 DEF parts, last

LEMMA SplitPart ==
    ASSUME NEW text \in Seq(Tokens), NEW word \in Seq(Tokens),
           \A i \in DOMAIN word : word[i] # Slash
    PROVE  Path!Split(text \o <<Slash>> \o word) = Append(Path!Split(text), word)
<1> DEFINE parts == Path!Split(text)  slashed == Append(text, Slash)
<1>1. Slash \in Tokens
  BY SlashToken
<1>2. parts \in Partings /\ Path!Split(slashed) = Append(parts, <<>>)
  BY <1>1, SplitOneMore DEF PartsWith
<1>3. slashed \in Seq(Tokens) /\ text \o <<Slash>> \o word = slashed \o word
  BY <1>1
<1> HIDE DEF parts, slashed
<1>4. Path!Split(slashed \o word) =
          [Append(parts, <<>>) EXCEPT ![Len(Append(parts, <<>>))] = @ \o word]
  BY <1>2, <1>3, SplitWord
<1>5. [Append(parts, <<>>) EXCEPT ![Len(Append(parts, <<>>))] = @ \o word]
          = Append(parts, word)
  <2> DEFINE S == Seq(Tokens)  none == <<>>
  <2>1. parts \in Seq(S) /\ none \in S /\ none \o word = word
    BY <1>2 DEF Partings
  <2> HIDE DEF S, none
  <2>2. /\ Len(Append(parts, none)) = Len(parts) + 1
        /\ Append(parts, none)[Len(parts) + 1] = none
    BY <2>1, AppendProperties
  <2>3. word \in S
    BY DEF S
  <2>4. [Append(parts, none) EXCEPT ![Len(parts) + 1] = word] = Append(parts, word)
    BY <2>1, <2>3, PutLast
  <2> QED BY <2>1, <2>2, <2>4 DEF none
<1> QED BY <1>3, <1>4, <1>5 DEF parts

LEMMA SplitFirst ==
    ASSUME NEW word \in Seq(Tokens), \A i \in DOMAIN word : word[i] # Slash
    PROVE  Path!Split(word) = <<word>>
<1>1. <<>> \in Seq(Tokens) /\ <<>> \o word = word
  OBVIOUS
<1>2. Path!Split(<<>> \o word) = [NoParts EXCEPT ![Len(NoParts)] = @ \o word]
  <2> DEFINE none == <<>>
  <2> HIDE DEF none
  <2>1. Path!Split(none \o word) =
            [Path!Split(none) EXCEPT ![Len(Path!Split(none))] = @ \o word]
    BY <1>1, SplitWord DEF none
  <2>2. Path!Split(none) = NoParts
    BY SplitNothing DEF none
  <2> QED BY <2>1, <2>2 DEF none
<1>3. [NoParts EXCEPT ![Len(NoParts)] = @ \o word] = <<word>>
  BY <1>1 DEF NoParts
<1> QED BY <1>1, <1>2, <1>3

(* A text is cut off before the first of the tokens that stop it.           *)
NoStop(text, stops) == \A i \in DOMAIN text : text[i].encoded \/ text[i].is \notin stops

LEMMA UntilEnd ==
    ASSUME NEW text, NEW stops, NoStop(text, stops)
    PROVE  Path!Until(text, stops) = text
  BY DEF Path!Until, NoStop

LEMMA UntilStop ==
    ASSUME NEW stops, NEW text \in Seq(Tokens), NoStop(text, stops),
           NEW rest \in Seq(Tokens), rest # <<>>,
           ~rest[1].encoded, rest[1].is \in stops
    PROVE  Path!Until(text \o rest, stops) = text
<1> DEFINE all == text \o rest
           at == {i \in DOMAIN all : ~all[i].encoded /\ all[i].is \in stops}
           m == Len(text) + 1
<1>1. /\ all \in Seq(Tokens) /\ Len(all) = Len(text) + Len(rest)
      /\ \A i \in 1 .. Len(text) : all[i] = text[i]
      /\ m \in DOMAIN all /\ all[m] = rest[1]
      /\ Len(text) \in Nat /\ Len(rest) \in Nat \ {0}
  <2>1. Len(rest) \in Nat \ {0} /\ Len(text) \in Nat
    BY EmptySeq
  <2> QED BY <2>1, ConcatProperties
<1> HIDE DEF all
<1>2. m \in at
  BY <1>1
<1>3. \A i \in at : i >= m /\ i \in Nat
  <2> SUFFICES ASSUME NEW i \in at PROVE i >= m /\ i \in Nat
    OBVIOUS
  <2>1. i \in 1 .. Len(all)
    BY <1>1
  <2>2. ASSUME i <= Len(text) PROVE FALSE
    BY <1>1, <2>1, <2>2 DEF NoStop
  <2> QED BY <1>1, <2>1, <2>2
<1>4. Path!Until(all, stops) = SubSeq(all, 1, Path!Min(at) - 1)
  BY <1>2 DEF Path!Until
<1>5. Path!Min(at) = m
  <2> HIDE DEF at
  <2>1. m \in at /\ \A y \in at : m <= y
    BY <1>1, <1>2, <1>3
  <2>2. \A x \in at : (\A y \in at : x <= y) => x = m
    BY <1>1, <1>3, <2>1
  <2> QED BY <2>1, <2>2 DEF Path!Min
<1>6. SubSeq(all, 1, Len(text)) = text
  <2>1. \A i \in 1 .. Len(text) : all[i] \in Tokens
    BY <1>1
  <2>2. /\ SubSeq(all, 1, Len(text)) \in Seq(Tokens)
        /\ Len(SubSeq(all, 1, Len(text))) = Len(text)
        /\ \A i \in 1 .. Len(text) : SubSeq(all, 1, Len(text))[i] = text[i]
    <3>1. 1 \in Int /\ Len(text) \in Int
      BY <1>1
    <3> QED BY <1>1, <2>1, <3>1, SubSeqProperties
  <2> QED BY <2>2, SeqEqual
<1> HIDE DEF at
<1>7. Path!Min(at) - 1 = Len(text)
  BY <1>1, <1>5
<1> QED BY <1>4, <1>6, <1>7 DEF all

LEMMA NoStopConcat ==
    ASSUME NEW stops, NEW s \in Seq(Tokens), NEW t \in Seq(Tokens),
           NoStop(s, stops), NoStop(t, stops)
    PROVE  NoStop(s \o t, stops)
<1>1. /\ Len(s) \in Nat /\ Len(t) \in Nat
      /\ DOMAIN (s \o t) = 1 .. Len(s) + Len(t)
      /\ \A i \in 1 .. Len(s) + Len(t) :
            (s \o t)[i] = IF i <= Len(s) THEN s[i] ELSE t[i - Len(s)]
  BY ConcatProperties
<1> QED BY <1>1 DEF NoStop

LEMMA StaysSeparate ==
    ASSUME NEW word \in Seq(Tokens), StaysAPart(word)
    PROVE  NoStop(word, {"?"}) /\ \A i \in DOMAIN word : word[i] # Slash
  BY DEF StaysAPart, NoStop, Slash, Path!Raw

(* The text of a path, one place or word at a time.                         *)
PartAt(path, i) ==
    IF path[i] = Path!Id THEN Path!Encode(ids[Path!Ordinal(path, i)])
    ELSE <<Path!Raw(path[i])>>

SlashAt(path, i) ==
    IF i = 1 \/ path[i] = "?" \/ path[i - 1] = "?" THEN <<>> ELSE <<Slash>>

TextWith(path, text, i) == text \o SlashAt(path, i) \o PartAt(path, i)

LEMMA PathSteps ==
    ASSUME NEW path, NEW len \in Nat, Len(path) = len,
           \A i \in 1 .. len : PartAt(path, i) \in Seq(Tokens)
    PROVE  \E g \in [0 .. len -> Seq(Tokens)] :
              /\ g[0] = <<>>
              /\ \A i \in 1 .. len : g[i] = TextWith(path, g[i - 1], i)
              /\ Path!PathText(path) = g[len]
<1> DEFINE X == Seq(Tokens)
           F == [it \in (1 .. len) \X X |-> TextWith(path, it[2], it[1])]
           none == <<>>
<1>1. none \in X
  OBVIOUS
<1>2. ASSUME NEW i \in 1 .. len, NEW text \in X PROVE TextWith(path, text, i) \in X
  <2>1. SlashAt(path, i) \in X
    BY SlashToken DEF SlashAt
  <2>2. text \o SlashAt(path, i) \in X
    BY <2>1, ConcatProperties
  <2> QED BY <1>2, <2>2, ConcatProperties DEF TextWith
<1>3. F \in [(1 .. len) \X X -> X]
  <2> HIDE DEF X
  <2> QED BY <1>2
<1> HIDE DEF X, none
<1>4. PICK g \in [0 .. len -> X] : Follows(g, len, none, F)
  <2> HIDE DEF F
  <2> QED BY <1>1, <1>3, StepsExist
<1>5. ASSUME NEW i \in 1 .. len PROVE g[i] = TextWith(path, g[i - 1], i)
  <2>1. g[i] = F[<<i, g[i - 1]>>]
    <3> HIDE DEF F
    <3> QED BY <1>4 DEF Follows
  <2>2. g[i - 1] \in X
    <3> HIDE DEF F
    <3> QED BY <1>4
  <2> QED BY <2>1, <2>2
<1> HIDE DEF F
<1> DEFINE Eq(h) == h = [i \in 0 .. len |->
                           IF i = 0 THEN <<>> ELSE TextWith(path, h[i - 1], i)]
<1>6. Eq(g)
  <2>1. ASSUME NEW i \in 0 .. len
        PROVE  g[i] = IF i = 0 THEN <<>> ELSE TextWith(path, g[i - 1], i)
    BY <1>4, <1>5 DEF Follows, none
  <2> QED BY <2>1
<1> DEFINE texts == CHOOSE h : Eq(h)
<1>7. Path!PathText(path) = texts[len]
  BY DEF Path!PathText, TextWith, SlashAt, PartAt, Slash
<1>8. Eq(texts)
  <2> HIDE DEF Eq
  <2> QED BY <1>6
<1> HIDE DEF texts
<1>9. texts[len] = g[len]
  <2>1. texts[0] = g[0]
    BY <1>4, <1>8 DEF Follows, none
  <2>2. ASSUME NEW i \in 1 .. len, texts[i - 1] = g[i - 1] PROVE texts[i] = g[i]
    BY <1>5, <1>8, <2>2
  <2> HIDE DEF Eq
  <2> QED BY <2>1, <2>2, SameSteps
<1> QED BY <1>4, <1>5, <1>7, <1>9 DEF Follows, X, none

(* A path asks for its first q places and words; what may follow them is a  *)
(* query.                                                                   *)
AsksFor(path, q) ==
    /\ \A i \in 1 .. q : path[i] # "?"
    /\ \/ q = Len(path)
       \/ q = Len(path) - 2 /\ path[q + 1] = "?" /\ path[q + 2] # Path!Id

(* build-url.ts: when each of them stays a part, the platform splits the    *)
(* path into just these.                                                    *)
LEMMA PathIsSplit ==
    ASSUME NEW path \in Seq(Words),
           \A i \in 1 .. Len(path) : PartAt(path, i) \in Seq(Tokens),
           NEW q \in Nat, q # 0, AsksFor(path, q),
           \A i \in 1 .. q : StaysAPart(PartAt(path, i))
    PROVE  Path!Split(Path!Until(Path!PathText(path), {"?"}))
               = [i \in 1 .. q |-> PartAt(path, i)]
<1> DEFINE len == Len(path)
<1>1. len \in Nat /\ q \in 1 .. len /\ q <= len
  BY DEF AsksFor
<1>2. PICK g \in [0 .. len -> Seq(Tokens)] :
          /\ g[0] = <<>>
          /\ \A i \in 1 .. len : g[i] = TextWith(path, g[i - 1], i)
          /\ Path!PathText(path) = g[len]
  <2> HIDE DEF len
  <2> QED BY <1>1, PathSteps DEF len
<1> DEFINE p(i) == PartAt(path, i)
<1>3. g[1] = p(1)
  <2>1. 1 \in 1 .. len /\ SlashAt(path, 1) = <<>> /\ p(1) \in Seq(Tokens)
    BY <1>1 DEF SlashAt
  <2>2. g[1] = TextWith(path, <<>>, 1)
    BY <1>2, <2>1
  <2> QED BY <2>1, <2>2 DEF TextWith
<1>4. ASSUME NEW i \in 2 .. q PROVE g[i] = g[i - 1] \o <<Slash>> \o p(i)
  <2>1. i \in 1 .. len /\ path[i] # "?" /\ path[i - 1] # "?" /\ i # 1
    BY <1>1 DEF AsksFor
  <2> QED BY <1>2, <2>1 DEF TextWith, SlashAt
<1>5. ASSUME NEW i \in 1 .. q
      PROVE  p(i) \in Seq(Tokens) /\ NoStop(p(i), {"?"}) /\ \A j \in DOMAIN p(i) : p(i)[j] # Slash
  <2>1. i \in 1 .. Len(path)
    BY <1>1
  <2> HIDE DEF p
  <2>2. p(i) \in Seq(Tokens) /\ StaysAPart(p(i))
    BY <2>1 DEF p
  <2> QED BY <2>2, StaysSeparate
<1> HIDE DEF p, len
<1> DEFINE sofar(k) == [i \in 1 .. k |-> p(i)]
           T == {k \in 0 .. q - 1 : NoStop(g[k + 1], {"?"}) /\ Path!Split(g[k + 1]) = sofar(k + 1)}
<1>6. 0 \in T
  <2>1. 1 \in 1 .. q /\ 0 \in 0 .. q - 1
    BY <1>1
  <2>2. NoStop(g[1], {"?"}) /\ Path!Split(g[1]) = <<p(1)>>
    <3> DEFINE word == p(1)
    <3>1. word \in Seq(Tokens) /\ NoStop(word, {"?"}) /\ \A j \in DOMAIN word : word[j] # Slash
      BY <1>5, <2>1
    <3> HIDE DEF word
    <3>2. Path!Split(word) = <<word>>
      BY <3>1, SplitFirst
    <3> QED BY <1>3, <3>1, <3>2 DEF word
  <2>3. <<p(1)>> = sofar(1)
    OBVIOUS
  <2>4. 0 + 1 = 1
    OBVIOUS
  <2> HIDE DEF sofar
  <2> QED BY <2>1, <2>2, <2>3, <2>4
<1>7. ASSUME NEW k \in T, k < q - 1 PROVE k + 1 \in T
  <2>1. /\ k \in Nat /\ k + 1 \in 0 .. q - 1 /\ k + 2 \in 2 .. q /\ k + 2 \in 1 .. q
        /\ k + 1 \in 0 .. len /\ (k + 1) + 1 = k + 2 /\ (k + 2) - 1 = k + 1
    BY <1>1, <1>7
  <2>2. g[k + 1] \in Seq(Tokens) /\ NoStop(g[k + 1], {"?"}) /\ Path!Split(g[k + 1]) = sofar(k + 1)
    BY <1>2, <2>1
  <2>3. g[k + 2] = g[k + 1] \o <<Slash>> \o p(k + 2)
    BY <1>4, <2>1
  <2>4. p(k + 2) \in Seq(Tokens) /\ NoStop(p(k + 2), {"?"}) /\ \A j \in DOMAIN p(k + 2) : p(k + 2)[j] # Slash
    BY <1>5, <2>1
  <2>5. Path!Split(g[k + 2]) = Append(sofar(k + 1), p(k + 2))
    <3> DEFINE word == p(k + 2)  text == g[k + 1]
    <3>1. text \in Seq(Tokens) /\ word \in Seq(Tokens) /\ \A j \in DOMAIN word : word[j] # Slash
      BY <2>2, <2>4
    <3> HIDE DEF text, word
    <3>2. Path!Split(text \o <<Slash>> \o word) = Append(Path!Split(text), word)
      BY <3>1, SplitPart
    <3> QED BY <2>2, <2>3, <3>2 DEF text, word
  <2>6. NoStop(g[k + 2], {"?"})
    <3>1. NoStop(<<Slash>>, {"?"}) /\ <<Slash>> \in Seq(Tokens)
      BY SlashToken DEF NoStop, Slash, Path!Raw
    <3> DEFINE word == p(k + 2)  text == g[k + 1]
    <3>2. text \in Seq(Tokens) /\ word \in Seq(Tokens) /\ NoStop(text, {"?"}) /\ NoStop(word, {"?"})
      BY <2>2, <2>4
    <3> HIDE DEF text, word
    <3>3. text \o <<Slash>> \in Seq(Tokens) /\ NoStop(text \o <<Slash>>, {"?"})
      BY <3>1, <3>2, NoStopConcat, ConcatProperties
    <3>4. NoStop(text \o <<Slash>> \o word, {"?"})
      BY <3>2, <3>3, NoStopConcat
    <3> QED BY <2>3, <3>4 DEF text, word
  <2>7. Append(sofar(k + 1), p(k + 2)) = sofar(k + 2)
    <3>1. Len(sofar(k + 1)) = k + 1
      BY <2>1
    <3> QED BY <2>1, <3>1
  <2> HIDE DEF sofar
  <2> QED BY <2>1, <2>5, <2>6, <2>7
<1>8. NoStop(g[q], {"?"}) /\ Path!Split(g[q]) = sofar(q)
  <2>1. q - 1 \in Nat /\ (q - 1) + 1 = q
    BY <1>1
  <2>2. q - 1 \in T
    <3>1. T \subseteq Nat
      OBVIOUS
    <3> HIDE DEF T
    <3> QED BY <1>6, <1>7, <2>1, <3>1, CountingReaches
  <2> HIDE DEF sofar
  <2> QED BY <2>1, <2>2
<1>9. Path!Until(g[len], {"?"}) = g[q]
  <2>1. CASE q = len
    BY <1>8, <2>1, UntilEnd
  <2>2. CASE q = len - 2 /\ path[q + 1] = "?" /\ path[q + 2] # Path!Id
    <3> DEFINE ask == <<Path!Raw("?")>>  more == <<Path!Raw(path[q + 2])>>  text == g[q]
    <3>1. /\ q + 1 \in 1 .. len /\ q + 2 \in 1 .. len /\ (q + 1) - 1 = q /\ (q + 2) - 1 = q + 1
          /\ q + 1 \in 0 .. len /\ q \in 0 .. len
      BY <1>1, <2>2
    <3>2. g[q + 1] = text \o <<>> \o ask
      <4>1. path[q + 1] # Path!Id
        BY <2>2 DEF Path!Id
      <4> QED BY <1>2, <2>2, <3>1, <4>1 DEF TextWith, SlashAt, PartAt
    <3>3. g[q + 2] = g[q + 1] \o <<>> \o more
      BY <1>2, <2>2, <3>1 DEF TextWith, SlashAt, PartAt
    <3>4. text \in Seq(Tokens) /\ ask \in Seq(Tokens) /\ more \in Seq(Tokens)
      <4>1. "?" \in Characters /\ path[q + 2] \in Words
        BY <3>1 DEF Characters, Path!Chars, len
      <4> QED BY <1>2, <3>1, <4>1, RawToken
    <3>5. ask[1] = Path!Raw("?") /\ more # <<>>
      OBVIOUS
    <3> HIDE DEF ask, more, text
    <3> DEFINE rest == ask \o more
    <3>6. g[q + 2] = text \o rest
      <4>1. text \o <<>> = text /\ text \o ask \in Seq(Tokens)
        BY <3>4, ConcatProperties
      <4>2. (text \o ask) \o <<>> = text \o ask /\ (text \o ask) \o more = text \o (ask \o more)
        BY <3>4, <4>1, ConcatAssociative, ConcatEmptySeq
      <4> QED BY <3>2, <3>3, <4>1, <4>2
    <3>7. rest \in Seq(Tokens) /\ rest # <<>> /\ rest[1] = Path!Raw("?")
      BY <3>4, <3>5 DEF ask
    <3>8. ~rest[1].encoded /\ rest[1].is \in {"?"}
      BY <3>7 DEF Path!Raw
    <3> HIDE DEF rest
    <3>9. Path!Until(text \o rest, {"?"}) = text
      BY <1>8, <3>4, <3>7, <3>8, UntilStop DEF text
    <3>10. len = q + 2
      BY <1>1, <2>2
    <3> HIDE DEF T, sofar
    <3> QED BY <3>6, <3>9, <3>10 DEF text
  <2> QED BY <2>1, <2>2 DEF AsksFor, len
<1> QED BY <1>2, <1>8, <1>9 DEF p

(* The text of a path begins with its first word.                           *)
LEMMA PathBegins ==
    ASSUME NEW path \in Seq(Words), path # <<>>, path[1] # Path!Id,
           \A i \in 1 .. Len(path) : PartAt(path, i) \in Seq(Tokens)
    PROVE  Path!PathText(path) # <<>> /\ Path!PathText(path)[1] = Path!Raw(path[1])
<1> DEFINE len == Len(path)
<1>1. len \in Nat \ {0}
  BY EmptySeq
<1>2. PICK g \in [0 .. len -> Seq(Tokens)] :
          /\ g[0] = <<>>
          /\ \A i \in 1 .. len : g[i] = TextWith(path, g[i - 1], i)
          /\ Path!PathText(path) = g[len]
  <2> HIDE DEF len
  <2> QED BY <1>1, PathSteps DEF len
<1>3. \A i \in 1 .. len : PartAt(path, i) \in Seq(Tokens)
  OBVIOUS
<1> DEFINE Begins(t) == t # <<>> /\ t[1] = Path!Raw(path[1])
<1>4. Begins(g[1])
  <2>1. 1 \in 1 .. len /\ SlashAt(path, 1) = <<>> /\ PartAt(path, 1) = <<Path!Raw(path[1])>>
    BY <1>1 DEF SlashAt, PartAt
  <2>2. g[1] = TextWith(path, <<>>, 1)
    BY <1>2, <2>1
  <2> DEFINE word == PartAt(path, 1)
  <2>3. word \in Seq(Tokens) /\ <<>> \o <<>> = <<>>
    BY <1>3, <2>1
  <2>4. word # <<>> /\ word[1] = Path!Raw(path[1])
    BY <2>1
  <2> HIDE DEF word
  <2>5. <<>> \o word = word
    BY <2>3
  <2>6. g[1] = word
    BY <2>1, <2>2, <2>3, <2>5 DEF TextWith, word
  <2> QED BY <2>4, <2>6
<1> HIDE DEF len
<1> DEFINE T == {k \in 0 .. len - 1 : Begins(g[k + 1])}
<1>5. ASSUME NEW k \in T, k < len - 1 PROVE k + 1 \in T
  <2> DEFINE text == g[k + 1]  slash == SlashAt(path, k + 2)  word == PartAt(path, k + 2)
  <2>1. /\ k \in Nat /\ k + 1 \in 0 .. len - 1 /\ k + 2 \in 1 .. len /\ (k + 1) + 1 = k + 2
        /\ (k + 2) - 1 = k + 1 /\ k + 1 \in 0 .. len
    BY <1>1, <1>5
  <2>2. g[k + 2] = text \o slash \o word
    BY <1>2, <2>1 DEF TextWith
  <2>3. text \in Seq(Tokens) /\ slash \in Seq(Tokens) /\ word \in Seq(Tokens)
    <3>1. text \in Seq(Tokens) /\ word \in Seq(Tokens)
      BY <1>2, <1>3, <2>1
    <3>2. slash \in Seq(Tokens)
      BY SlashToken DEF SlashAt
    <3> QED BY <3>1, <3>2
  <2>4. text # <<>> /\ text[1] = Path!Raw(path[1])
    BY <1>5
  <2> HIDE DEF text, slash, word
  <2>5. text \o slash \in Seq(Tokens) /\ (text \o slash) # <<>> /\ (text \o slash)[1] = text[1]
    BY <2>3, <2>4
  <2>6. (text \o slash \o word) # <<>> /\ (text \o slash \o word)[1] = text[1]
    BY <2>3, <2>5
  <2>7. Begins(g[k + 2])
    BY <2>2, <2>4, <2>6
  <2> HIDE DEF Begins
  <2> QED BY <2>1, <2>7
<1>6. len - 1 \in T
  <2>1. T \subseteq Nat /\ len - 1 \in Nat
    BY <1>1
  <2>2. 0 \in T
    BY <1>1, <1>4
  <2> HIDE DEF T
  <2> QED BY <1>5, <2>1, <2>2, CountingReaches
<1>7. (len - 1) + 1 = len
  BY <1>1
<1> QED BY <1>2, <1>6, <1>7

(* In the path of a payment nothing but a separator comes after its id.     *)
LEMMA PaymentBegins ==
    ASSUME NEW path \in Seq(Words), Len(path) > 1, path[1] = "payments", path[2] = Path!Id,
           Len(path) > 2 => path[3] # "?",
           \A i \in 1 .. Len(path) : PartAt(path, i) \in Seq(Tokens)
    PROVE  \E rest \in Seq(Tokens) :
              /\ Path!PathText(path) =
                    <<Path!Raw("payments"), Slash>> \o PartAt(path, 2) \o rest
              /\ rest # <<>> => rest[1] = Slash
<1> DEFINE len == Len(path)  id == PartAt(path, 2)
           first == <<Path!Raw("payments"), Slash>>
<1>1. len \in Nat /\ len >= 2
  OBVIOUS
<1>2. PICK g \in [0 .. len -> Seq(Tokens)] :
          /\ g[0] = <<>>
          /\ \A i \in 1 .. len : g[i] = TextWith(path, g[i - 1], i)
          /\ Path!PathText(path) = g[len]
  <2> HIDE DEF len
  <2> QED BY <1>1, PathSteps DEF len
<1>3. \A i \in 1 .. len : PartAt(path, i) \in Seq(Tokens)
  OBVIOUS
<1> HIDE DEF len
<1>4. 1 \in 1 .. len /\ 2 \in 1 .. len /\ id \in Seq(Tokens)
  BY <1>1, <1>3
<1>5. g[2] = first \o id
  <2>1. path[1] # Path!Id /\ path[1] # "?" /\ path[2] # "?"
    BY DEF Path!Id
  <2>2. g[1] = <<>> \o <<>> \o <<Path!Raw("payments")>>
    <3>1. g[1] = TextWith(path, <<>>, 1)
      BY <1>2, <1>4
    <3>2. SlashAt(path, 1) = <<>> /\ PartAt(path, 1) = <<Path!Raw("payments")>>
      BY <2>1 DEF SlashAt, PartAt
    <3> QED BY <3>1, <3>2 DEF TextWith
  <2>3. g[1] = <<Path!Raw("payments")>>
    BY <2>2
  <2>4. g[2] = g[1] \o <<Slash>> \o id
    <3>1. g[2] = TextWith(path, g[2 - 1], 2) /\ 2 - 1 = 1
      BY <1>2, <1>4
    <3>2. SlashAt(path, 2) = <<Slash>>
      BY <2>1 DEF SlashAt
    <3> QED BY <3>1, <3>2 DEF TextWith
  <2>5. <<Path!Raw("payments")>> \o <<Slash>> = first
    <3>1. Path!Raw("payments") \in Tokens
      BY <1>4, RawToken DEF len
    <3> QED BY <3>1, SlashToken, PairOf
  <2> QED BY <2>3, <2>4, <2>5
<1>6. first \in Seq(Tokens) /\ first \o id \in Seq(Tokens)
  <2>1. "payments" \in Words
    BY <1>4 DEF len
  <2>2. first \in Seq(Tokens)
    BY <2>1, RawToken, SlashToken
  <2> HIDE DEF first, id
  <2> QED BY <1>4, <2>2, ConcatProperties
<1> DEFINE Goes(k, rest) ==
              /\ g[k] = first \o id \o rest
              /\ k = 2 => rest = <<>>
              /\ k # 2 => rest # <<>> /\ rest[1] = Slash
           T == {k \in 0 .. len - 2 : \E rest \in Seq(Tokens) : Goes(k + 2, rest)}
<1> HIDE DEF first, id
<1>7. 0 \in T
  <2>1. first \o id \o <<>> = first \o id /\ <<>> \in Seq(Tokens)
    BY <1>6
  <2>2. Goes(2, <<>>)
    BY <1>5, <2>1
  <2>3. 0 \in 0 .. len - 2 /\ 0 + 2 = 2
    BY <1>1
  <2> HIDE DEF Goes
  <2> QED BY <2>1, <2>2, <2>3
<1>8. ASSUME NEW k \in T, k < len - 2 PROVE k + 1 \in T
  <2>1. /\ k \in Nat /\ k + 1 \in 0 .. len - 2 /\ k + 3 \in 1 .. len /\ (k + 1) + 2 = k + 3
        /\ (k + 3) - 1 = k + 2 /\ k + 3 # 2 /\ k + 3 # 1
    BY <1>1, <1>8
  <2>2. PICK rest \in Seq(Tokens) : Goes(k + 2, rest)
    BY <1>8
  <2> DEFINE slash == SlashAt(path, k + 3)  word == PartAt(path, k + 3)
             more == (rest \o slash) \o word
  <2>3. g[k + 3] = ((first \o id) \o rest) \o slash \o word
    BY <1>2, <2>1, <2>2 DEF TextWith
  <2>4. slash \in Seq(Tokens) /\ word \in Seq(Tokens)
    BY <1>3, <2>1, SlashToken DEF SlashAt
  <2>5. IF k + 2 = 2 THEN rest = <<>> /\ slash = <<Slash>> ELSE rest # <<>> /\ rest[1] = Slash
    <3>1. CASE k = 0
      <4>1. path[3] # "?" /\ path[2] # "?"
        BY <1>1, <1>8, <3>1 DEF len, Path!Id
      <4> QED BY <2>2, <3>1, <4>1 DEF SlashAt
    <3>2. CASE k # 0
      BY <2>1, <2>2, <3>2
    <3> QED BY <3>1, <3>2
  <2> HIDE DEF slash, word
  <2>6. rest \o slash \in Seq(Tokens) /\ (rest \o slash) # <<>> /\ (rest \o slash)[1] = Slash
    <3>1. CASE k + 2 = 2
      <4>1. rest \o slash = <<Slash>>
        <5>1. <<>> \o <<Slash>> = <<Slash>>
          BY SlashToken
        <5> QED BY <2>5, <3>1, <5>1
      <4> QED BY <4>1, SlashToken
    <3>2. CASE k + 2 # 2
      BY <2>4, <2>5, <3>2
    <3> QED BY <3>1, <3>2
  <2>7. more \in Seq(Tokens) /\ more # <<>> /\ more[1] = Slash
    <3> DEFINE s == rest \o slash
    <3> HIDE DEF s
    <3>1. s \in Seq(Tokens) /\ s # <<>> /\ s[1] = Slash
      BY <2>6 DEF s
    <3> QED BY <2>4, <3>1 DEF s
  <2>8. ((first \o id) \o rest) \o slash \o word = (first \o id) \o more
    <3> DEFINE f == first \o id
    <3>1. f \in Seq(Tokens)
      BY <1>6
    <3> HIDE DEF f, Goes, T, more
    <3>2. slash \in Seq(Tokens) /\ word \in Seq(Tokens) /\ rest \in Seq(Tokens)
      BY <2>4
    <3>3. \A a, b, c \in Seq(Tokens) : (a \o b) \o c = a \o (b \o c)
      BY ConcatAssociates
    <3>4. (f \o rest) \o slash = f \o (rest \o slash)
      BY <3>1, <3>2, <3>3, Zenon
    <3> DEFINE both == rest \o slash
    <3>5. both \in Seq(Tokens)
      BY <2>6
    <3> HIDE DEF both
    <3>6. (f \o both) \o word = f \o (both \o word)
      BY <3>1, <3>2, <3>3, <3>5, Zenon
    <3> QED BY <3>4, <3>6 DEF f, both, more
  <2> HIDE DEF more
  <2>9. Goes(k + 3, more)
    BY <2>1, <2>3, <2>7, <2>8
  <2> HIDE DEF Goes
  <2> QED BY <2>1, <2>7, <2>9
<1>9. len - 2 \in T /\ (len - 2) + 2 = len
  <2>1. T \subseteq Nat /\ len - 2 \in Nat
    BY <1>1
  <2> HIDE DEF T
  <2>2. len - 2 \in T
    BY <1>7, <1>8, <2>1, CountingReaches
  <2> QED BY <1>1, <2>2
<1>10. PICK rest \in Seq(Tokens) : Goes(len, rest)
  <2> HIDE DEF Goes
  <2> QED BY <1>9
<1> QED BY <1>2, <1>10 DEF first, id

(* Parts that are no dot segments follow the base path, all of them and in  *)
(* their order.                                                             *)
UrlWith(parts, url, i) ==
    LET up(u) == IF u = <<>> THEN u ELSE Path!Front(u)
        stays == IF parts[i] \in Path!Dots(2) THEN up(url) ELSE url
    IN  IF parts[i] \notin Path!Dots(1) \cup Path!Dots(2) THEN Append(url, parts[i])
        ELSE IF i = Len(parts) THEN Append(stays, <<>>) ELSE stays

LEMMA UrlOfParts ==
    ASSUME NEW text, NEW S, NEW parts \in Seq(S), Path!BasePath \in Seq(S),
           Path!Split(Path!Until(text, {"?"})) = parts,
           \A i \in 1 .. Len(parts) : parts[i] \notin Path!Dots(1) \cup Path!Dots(2)
    PROVE  Path!BuildUrl(text) = Path!BasePath \o parts
<1> DEFINE len == Len(parts)  base == Path!BasePath
           upTo(i) == SubSeq(parts, 1, i)
           g == [i \in 0 .. len |-> base \o upTo(i)]
<1>1. len \in Nat /\ base \in Seq(S) /\ \A i \in 1 .. len : parts[i] \in S
  OBVIOUS
<1>2. g[0] = base /\ g[len] = base \o parts
  <2>1. upTo(0) = <<>> /\ upTo(len) = parts /\ base \o <<>> = base
    OBVIOUS
  <2> HIDE DEF upTo, base, len
  <2> QED BY <1>1, <2>1
<1>3. ASSUME NEW i \in 1 .. len PROVE g[i] = UrlWith(parts, g[i - 1], i)
  <2> DEFINE before == upTo(i - 1)  t == parts[i]
  <2>1. before \in Seq(S) /\ upTo(i) = Append(before, t) /\ t \in S
    <3>1. i - 1 \in Nat /\ i \in Nat /\ i <= len
      BY <1>1
    <3> QED BY <1>1, <3>1
  <2> HIDE DEF before, t, upTo, base
  <2>2. base \o Append(before, t) = Append(base \o before, t)
    BY <1>1, <2>1, AppendProperties, ConcatProperties
  <2>3. g[i] = base \o Append(before, t) /\ g[i - 1] = base \o before
    <3>1. i \in 0 .. len /\ i - 1 \in 0 .. len
      BY <1>1
    <3>2. g[i] = base \o upTo(i) /\ g[i - 1] = base \o upTo(i - 1)
      BY <3>1
    <3> QED BY <2>1, <3>2 DEF before
  <2> HIDE DEF g
  <2>4. UrlWith(parts, g[i - 1], i) = Append(g[i - 1], t)
    BY DEF UrlWith, t
  <2> QED BY <2>2, <2>3, <2>4
<1> HIDE DEF upTo
<1> DEFINE Eq(h) == h = [i \in 0 .. len |->
                           IF i = 0 THEN Path!BasePath ELSE UrlWith(parts, h[i - 1], i)]
<1>4. Eq(g)
  <2>1. ASSUME NEW i \in 0 .. len
        PROVE  g[i] = IF i = 0 THEN Path!BasePath ELSE UrlWith(parts, g[i - 1], i)
    <3> HIDE DEF g
    <3> QED BY <1>1, <1>2, <1>3
  <2>2. g = [i \in 0 .. len |-> g[i]]
    OBVIOUS
  <2> HIDE DEF g
  <2> QED BY <2>1, <2>2
<1> DEFINE built == CHOOSE h : Eq(h)
<1>5. Path!BuildUrl(text) = built[len]
  BY DEF Path!BuildUrl, UrlWith
<1>6. Eq(built)
  <2> HIDE DEF Eq, g
  <2> QED BY <1>4
<1> HIDE DEF built, g
<1>7. built[len] = g[len]
  <2>1. built[0] = g[0]
    BY <1>1, <1>2, <1>6
  <2>2. ASSUME NEW i \in 1 .. len, built[i - 1] = g[i - 1] PROVE built[i] = g[i]
    BY <1>3, <1>6, <2>2
  <2> HIDE DEF Eq, len
  <2> QED BY <1>1, <2>1, <2>2, SameSteps
<1> QED BY <1>2, <1>5, <1>7

(* The paths of the methods. All their words but one are names.             *)
Names == {Path!Id, "payments", "charge", "google-pay", "apple-pay", "qr-payment", "info",
          "validate", "app-info", "format", "refunds", "eshops", "links", "recurrences",
          "start", "next", "cards", "tokens", "events", "oauth2", "token",
          "browser-data", "webhooks", "public-keys"}

LEMMA NamesHave ==
    /\ Path!Id \in Names /\ "payments" \in Names /\ "charge" \in Names
    /\ "google-pay" \in Names /\ "apple-pay" \in Names /\ "qr-payment" \in Names
    /\ "info" \in Names /\ "validate" \in Names /\ "app-info" \in Names
    /\ "format" \in Names /\ "refunds" \in Names /\ "eshops" \in Names
    /\ "links" \in Names /\ "recurrences" \in Names /\ "start" \in Names
    /\ "next" \in Names /\ "cards" \in Names /\ "tokens" \in Names
    /\ "events" \in Names /\ "oauth2" \in Names /\ "token" \in Names
    /\ "browser-data" \in Names /\ "webhooks" \in Names /\ "public-keys" \in Names
  BY DEF Names

LEMMA OfNames ==
    /\ <<>> \in Seq(Names) /\ <<"charge">> \in Seq(Names)
    /\ <<"google-pay", "info">> \in Seq(Names) /\ <<"apple-pay", "info">> \in Seq(Names)
    /\ <<"apple-pay", "validate">> \in Seq(Names) /\ <<"qr-payment", "info">> \in Seq(Names)
    /\ <<"apple-pay", "app-info">> \in Seq(Names) /\ <<"refunds">> \in Seq(Names)
    /\ <<"start">> \in Seq(Names) /\ <<"next">> \in Seq(Names)
    /\ <<"oauth2", "token">> \in Seq(Names) /\ <<"cards", "browser-data">> \in Seq(Names)
    /\ <<"webhooks", "public-keys">> \in Seq(Names) /\ <<"cards", "tokens">> \in Seq(Names)
    /\ <<"cards", "tokens", Path!Id>> \in Seq(Names)
    /\ <<"payments", Path!Id>> \in Seq(Names) /\ <<"refunds", Path!Id>> \in Seq(Names)
    /\ <<"recurrences", Path!Id>> \in Seq(Names)
    /\ <<"eshops", Path!Id, "payments">> \in Seq(Names)
    /\ <<"eshops", Path!Id, "recurrences">> \in Seq(Names)
    /\ <<"eshops", Path!Id, "links">> \in Seq(Names)
    /\ <<"eshops", Path!Id, "links", Path!Id>> \in Seq(Names)
    /\ <<"eshops", Path!Id, "events">> \in Seq(Names)
    /\ <<"eshops", Path!Id, "events", Path!Id>> \in Seq(Names)
  BY NamesHave

(* All that matters of a path: it begins with a word, its query comes last, *)
(* none of its words is a separator or a dot segment, and the path of a     *)
(* payment goes on with its id.                                             *)
Shaped(path) ==
    /\ \E S : path \in Seq(S)
    /\ path # <<>> /\ path[1] # Path!Id
    /\ \E q \in 1 .. Len(path) : AsksFor(path, q)
    /\ \A i \in 1 .. Len(path) : path[i] \notin {"/", ".", "%2e"}
    /\ path[1] = "payments" =>
          Len(path) > 1 /\ path[2] = Path!Id /\ (Len(path) > 2 => path[3] # "?")

LEMMA ShapedOfNames ==
    ASSUME NEW path \in Seq(Names), path # <<>>, path[1] # Path!Id, path[1] # "payments"
    PROVE  Shaped(path)
<1>1. Len(path) \in Nat \ {0} /\ \A i \in 1 .. Len(path) : path[i] \in Names
  BY EmptySeq
<1>2. \A w \in Names : w \notin {"?", "/", ".", "%2e"}
  BY DEF Names, Path!Id
<1>3. AsksFor(path, Len(path))
  BY <1>1, <1>2 DEF AsksFor
<1>4. \E q \in 1 .. Len(path) : AsksFor(path, q)
  BY <1>1, <1>3
<1> QED BY <1>1, <1>2, <1>4 DEF Shaped

LEMMA ShapedOfPayment ==
    ASSUME NEW rest \in Seq(Names)
    PROVE  Shaped(<<"payments", Path!Id>> \o rest)
<1> DEFINE first == <<"payments", Path!Id>>  path == first \o rest
<1>1. first \in Seq(Names) /\ Len(first) = 2 /\ first[1] = "payments" /\ first[2] = Path!Id
  BY DEF Names
<1> HIDE DEF first
<1>2. /\ path \in Seq(Names) /\ Len(path) = 2 + Len(rest) /\ Len(rest) \in Nat
      /\ path[1] = "payments" /\ path[2] = Path!Id
      /\ \A i \in 1 .. Len(path) : path[i] \in Names
  <2>1. /\ path \in Seq(Names) /\ Len(path) = Len(first) + Len(rest)
        /\ \A i \in 1 .. Len(first) + Len(rest) :
               path[i] = IF i <= Len(first) THEN first[i] ELSE rest[i - Len(first)]
    BY <1>1, ConcatProperties
  <2> HIDE DEF path
  <2>2. path[1] = first[1] /\ path[2] = first[2] /\ Len(rest) \in Nat
    BY <1>1, <2>1
  <2> QED BY <1>1, <2>1, <2>2
<1> HIDE DEF path
<1>3. \A w \in Names : w \notin {"?", "/", ".", "%2e"}
  BY DEF Names, Path!Id
<1>4. AsksFor(path, Len(path))
  BY <1>2, <1>3 DEF AsksFor
<1>5. \E q \in 1 .. Len(path) : AsksFor(path, q)
  BY <1>2, <1>4
<1>6. path # <<>> /\ path[1] # Path!Id
  BY <1>2 DEF Path!Id
<1>7. Len(path) > 2 => path[3] # "?"
  BY <1>2, <1>3
<1>8. Shaped(path)
  BY <1>2, <1>3, <1>5, <1>6, <1>7 DEF Shaped
<1> QED BY <1>8 DEF path, first

LEMMA ShapedQrCode == Shaped(<<"payments", Path!Id>> \o <<"qr-payment", "info", "?", "format">>)
<1> DEFINE S == Names \cup {"?"}
           first == <<"payments", Path!Id>>  rest == <<"qr-payment", "info", "?", "format">>
           path == first \o rest
<1>1. /\ first \in Seq(S) /\ Len(first) = 2 /\ first[1] = "payments" /\ first[2] = Path!Id
  BY DEF Names
<1>2. /\ rest \in Seq(S) /\ Len(rest) = 4
      /\ rest[1] = "qr-payment" /\ rest[2] = "info" /\ rest[3] = "?" /\ rest[4] = "format"
  BY DEF Names
<1> HIDE DEF first, rest, S
<1>3. /\ path \in Seq(S) /\ Len(path) = 6
      /\ path[1] = "payments" /\ path[2] = Path!Id /\ path[3] = "qr-payment"
      /\ path[4] = "info" /\ path[5] = "?" /\ path[6] = "format"
  <2>1. /\ path \in Seq(S) /\ Len(path) = Len(first) + Len(rest)
        /\ \A i \in 1 .. Len(first) + Len(rest) :
               path[i] = IF i <= Len(first) THEN first[i] ELSE rest[i - Len(first)]
    <3>1. first \in Seq(S) /\ rest \in Seq(S)
      BY <1>1, <1>2
    <3> QED BY <3>1, ConcatElements, Zenon
  <2> HIDE DEF path
  <2>2. /\ path[1] = first[1] /\ path[2] = first[2] /\ path[3] = rest[1]
        /\ path[4] = rest[2] /\ path[5] = rest[3] /\ path[6] = rest[4]
        /\ Len(path) = 6
    BY <1>1, <1>2, <2>1
  <2> QED BY <1>1, <1>2, <2>1, <2>2
<1> HIDE DEF path
<1>4. AsksFor(path, 4)
  BY <1>3 DEF AsksFor, Path!Id
<1>5. \E q \in 1 .. Len(path) : AsksFor(path, q)
  BY <1>3, <1>4
<1>6. \A i \in 1 .. Len(path) : path[i] \notin {"/", ".", "%2e"}
  BY <1>3 DEF Path!Id
<1>7. path # <<>> /\ path[1] # Path!Id
  BY <1>3 DEF Path!Id
<1>8. Shaped(path)
  BY <1>3, <1>5, <1>6, <1>7 DEF Shaped
<1> QED BY <1>8 DEF path, first, rest

LEMMA PathsShaped ==
    ASSUME NEW path \in Path!OfServer \cup Path!OfPage
    PROVE  Shaped(path)
<1>1. ASSUME NEW R, NEW rest \in R, path = <<"payments", Path!Id>> \o rest,
             \A r \in R : r \in Seq(Names) \/ r = <<"qr-payment", "info", "?", "format">>
      PROVE  Shaped(path)
  BY <1>1, ShapedOfPayment, ShapedQrCode
<1>2. \A r \in Path!Reads : r \in Seq(Names) \/ r = <<"qr-payment", "info", "?", "format">>
  BY OfNames DEF Path!Reads
<1>3. <<"apple-pay", "app-info">> \in Seq(Names) /\ <<"refunds">> \in Seq(Names)
  BY DEF Names
<1>4. ASSUME path \in Path!SomePayment(Path!Reads \cup {<<"apple-pay", "app-info">>, <<"refunds">>})
      PROVE  Shaped(path)
  BY <1>1, <1>2, <1>3, <1>4 DEF Path!SomePayment
<1>5. CASE path \in Path!Payments \cup Path!PaymentsOfPage \cup Path!Refunds
  <2>1. ASSUME path \in {<<"eshops", Path!Id, "payments">>, <<"refunds", Path!Id>>} PROVE Shaped(path)
    <3>1. path \in Seq(Names)
      BY <2>1, OfNames
    <3>2. path # <<>> /\ path[1] # Path!Id /\ path[1] # "payments"
      BY <2>1 DEF Path!Id
    <3> QED BY <3>1, <3>2, ShapedOfNames
  <2> QED BY <1>4, <1>5, <2>1 DEF Path!Payments, Path!PaymentsOfPage, Path!Refunds, Path!SomePayment
<1>6. CASE path \in Path!Links \cup Path!Events \cup Path!CardTokens \cup Path!Plain
  <2>1. path \in Seq(Names)
    BY <1>6, OfNames DEF Path!Links, Path!Events, Path!CardTokens, Path!Plain
  <2>2. path # <<>> /\ path[1] # Path!Id /\ path[1] # "payments"
    BY <1>6 DEF Path!Id, Path!Links, Path!Events, Path!CardTokens, Path!Plain
  <2> QED BY <2>1, <2>2, ShapedOfNames
<1>7. CASE path \in Path!Recurrences
  <2>1. CASE path = <<"eshops", Path!Id, "recurrences">>
    <3>1. path \in Seq(Names)
      BY <2>1, OfNames
    <3>2. path # <<>> /\ path[1] # Path!Id /\ path[1] # "payments"
      BY <2>1 DEF Path!Id
    <3> QED BY <3>1, <3>2, ShapedOfNames
  <2>2. ASSUME NEW rest \in {<<>>, <<"start">>, <<"next">>}, path = <<"recurrences", Path!Id>> \o rest
        PROVE  Shaped(path)
    <3> DEFINE first == <<"recurrences", Path!Id>>
    <3>1. first \in Seq(Names) /\ Len(first) = 2 /\ first[1] = "recurrences" /\ rest \in Seq(Names)
      BY <2>2, OfNames
    <3> HIDE DEF first
    <3>2. first \o rest \in Seq(Names) /\ (first \o rest)[1] = "recurrences" /\ Len(first \o rest) > 1
      BY <3>1, ConcatProperties
    <3>3. path \in Seq(Names) /\ path[1] # Path!Id /\ path[1] # "payments" /\ path # <<>>
      BY <2>2, <3>2 DEF Path!Id, first
    <3> QED BY <3>3, ShapedOfNames
  <2> QED BY <1>7, <2>1, <2>2 DEF Path!Recurrences
<1>8. CASE path \in {<<"oauth2", "token">>, <<"cards", "browser-data">>}
  BY <1>6, <1>8 DEF Path!Plain
<1> QED BY <1>5, <1>6, <1>7, <1>8 DEF Path!OfServer, Path!OfPage

(* validate.ts:46: encodeURIComponent() is undone by who reads the path.    *)
LEMMA EncodedReads ==
    ASSUME NEW id \in Texts
    PROVE  /\ Path!Encode(id) \in Seq(Tokens)
           /\ Path!Decoded(Path!Encode(id)) = Path!Trim(id)
<1> DEFINE t == Path!Trim(id)
           e == Path!Encode(id)
<1>1. t \in Seq(Characters)
  BY TrimmedText DEF Texts
<1>2. e = [i \in DOMAIN t |-> [encoded |-> t[i] \notin {"a", "."}, is |-> t[i]]]
  BY DEF Path!Encode
<1> HIDE DEF t, e
<1>3. DOMAIN e = DOMAIN t /\ DOMAIN t = 1 .. Len(t) /\ Len(t) \in Nat
  BY <1>1, <1>2
<1>4. Path!Decoded(e) = t
  BY <1>1, <1>2 DEF Path!Decoded
<1>5. \A i \in 1 .. Len(t) : e[i] \in Tokens
  BY <1>1, <1>2 DEF Tokens
<1>6. e \in Seq(Tokens)
  <2>1. e = [i \in 1 .. Len(t) |-> e[i]]
    BY <1>2, <1>3
  <2>2. e \in [1 .. Len(t) -> Tokens]
    BY <1>5, <2>1
  <2> QED BY <1>3, <2>2
<1> QED BY <1>4, <1>6 DEF t, e

(* Every place of a path has an id that is not refused. Then all of the     *)
(* path stays as the method wrote it.                                       *)
Placed(path) ==
    \A i \in DOMAIN path :
        path[i] = Path!Id =>
            LET id == ids[Path!Ordinal(path, i)] IN id \in Texts /\ ~Path!Refuses(id)

LEMMA WordStays ==
    ASSUME NEW w \in Words, w \notin {"/", "?", ".", "%2e"}
    PROVE  <<Path!Raw(w)>> \in Seq(Tokens) /\ StaysAPart(<<Path!Raw(w)>>)
<1> DEFINE r == Path!Raw(w)  word == <<r>>
<1>1. r \in Tokens /\ r.is = w
  BY RawToken DEF Path!Raw
<1>2. r # Path!Raw(".") /\ r # Path!Raw("%2e")
  BY DEF Path!Raw
<1> HIDE DEF r
<1>3. word \in Seq(Tokens) /\ word # <<>> /\ DOMAIN word = 1 .. 1 /\ word[1] = r
  BY <1>1
<1> HIDE DEF word
<1>4. \A i \in DOMAIN word : word[i].encoded \/ word[i].is \notin {"/", "?"}
  BY <1>1, <1>3
<1>5. ASSUME NEW n \in 1 .. 2, word \in Path!Dots(n) PROVE FALSE
  <2>1. word[1] \in {Path!Raw("."), Path!Raw("%2e")}
    <3>1. 1 \in 1 .. n
      OBVIOUS
    <3> QED BY <1>5, <3>1 DEF Path!Dots
  <2> QED BY <1>2, <1>3, <2>1
<1> QED BY <1>3, <1>4, <1>5 DEF StaysAPart, word, r

LEMMA PartsOfPath ==
    ASSUME NEW path \in Paths, Placed(path)
    PROVE  /\ path \in Seq(Words)
           /\ \A i \in 1 .. Len(path) :
                /\ PartAt(path, i) \in Seq(Tokens)
                /\ path[i] # "?" => StaysAPart(PartAt(path, i))
<1>1. Shaped(path)
  BY PathsShaped DEF Paths
<1>2. path \in Seq(Words)
  <2>1. PICK S : path \in Seq(S)
    BY <1>1 DEF Shaped
  <2>2. \A i \in 1 .. Len(path) : path[i] \in Words
    <3>1. DOMAIN path = 1 .. Len(path)
      BY <2>1
    <3> QED BY <3>1 DEF Words
  <2>3. Len(path) \in Nat /\ path = [i \in 1 .. Len(path) |-> path[i]]
    BY <2>1
  <2>4. path \in [1 .. Len(path) -> Words]
    BY <2>2, <2>3
  <2> QED BY <2>3, <2>4
<1>3. ASSUME NEW i \in 1 .. Len(path)
      PROVE  PartAt(path, i) \in Seq(Tokens) /\ (path[i] # "?" => StaysAPart(PartAt(path, i)))
  <2>1. i \in DOMAIN path /\ path[i] \in Words /\ path[i] \notin {"/", ".", "%2e"}
    BY <1>1, <1>2 DEF Shaped
  <2>2. CASE path[i] = Path!Id
    <3> DEFINE id == ids[Path!Ordinal(path, i)]
    <3>1. id \in Texts /\ ~Path!Refuses(id)
      BY <2>1, <2>2 DEF Placed
    <3>2. PartAt(path, i) = Path!Encode(id)
      BY <2>2 DEF PartAt
    <3> HIDE DEF id
    <3> QED BY <3>1, <3>2, EncodedReads, EncodedStays
  <2>3. CASE path[i] = "?"
    <3>1. PartAt(path, i) = <<Path!Raw("?")>> /\ "?" \in Words
      BY <2>1, <2>3 DEF PartAt, Path!Id
    <3>2. Path!Raw("?") \in Tokens
      BY <3>1, RawToken
    <3> QED BY <2>3, <3>1, <3>2
  <2>4. CASE path[i] \notin {Path!Id, "?"}
    <3>1. PartAt(path, i) = <<Path!Raw(path[i])>>
      BY <2>4 DEF PartAt
    <3> QED BY <2>1, <2>4, <3>1, WordStays
  <2> QED BY <2>2, <2>3, <2>4
<1> QED BY <1>2, <1>3

LEMMA UrlOfPath ==
    ASSUME NEW path \in Paths, Placed(path), NEW q \in 1 .. Len(path), AsksFor(path, q)
    PROVE  Path!BuildUrl(Path!PathText(path)) = Path!BasePath \o [i \in 1 .. q |-> PartAt(path, i)]
<1>1. path \in Seq(Words) /\ Len(path) \in Nat /\ q \in Nat /\ q # 0 /\ \A i \in 1 .. q : i \in 1 .. Len(path)
  BY PartsOfPath
<1>2. \A i \in 1 .. q : PartAt(path, i) \in Seq(Tokens) /\ StaysAPart(PartAt(path, i))
  BY <1>1, PartsOfPath DEF AsksFor
<1>3. \A i \in 1 .. Len(path) : PartAt(path, i) \in Seq(Tokens)
  BY PartsOfPath
<1> DEFINE parts == [i \in 1 .. q |-> PartAt(path, i)]
           text == Path!PathText(path)
           base == Path!BasePath
           S == Seq(Tokens) \cup {base[1], base[2], base[3]}
<1>4. Path!Split(Path!Until(text, {"?"})) = parts
  BY <1>1, <1>2, <1>3, PathIsSplit
<1>5. parts \in Seq(S) /\ Len(parts) = q
  <2>1. \A i \in 1 .. q : PartAt(path, i) \in S
    BY <1>2
  <2> HIDE DEF S
  <2> QED BY <1>1, <2>1
<1>6. base \in Seq(S)
  <2>1. base = [i \in 1 .. 3 |-> base[i]]
    BY DEF Path!BasePath
  <2>2. base[1] \in S /\ base[2] \in S /\ base[3] \in S
    OBVIOUS
  <2> HIDE DEF base, S
  <2>3. \A i \in 1 .. 3 : base[i] \in S
    BY <2>2
  <2>4. base \in [1 .. 3 -> S]
    BY <2>1, <2>3
  <2> QED BY <2>4, SeqOf
<1>7. \A i \in 1 .. Len(parts) : parts[i] \notin Path!Dots(1) \cup Path!Dots(2)
  BY <1>2, <1>5 DEF StaysAPart
<1> HIDE DEF parts, S, text
<1>8. Path!BuildUrl(text) = base \o parts
  BY <1>4, <1>5, <1>6, <1>7, UrlOfParts
<1> QED BY <1>8 DEF parts, text

(* correlation.ts:60-66: the id read out of the text of the path is the one *)
(* that was put there.                                                      *)
LEMMA HeaderOfPath ==
    ASSUME NEW path \in Paths, Placed(path)
    PROVE  Path!PaymentHeader(Path!PathText(path)) =
               IF path[1] = "payments" THEN PartAt(path, 2)
               ELSE IF page THEN Path!Encode(ids[1]) ELSE <<>>
<1> DEFINE text == Path!PathText(path)
<1>1. Shaped(path) /\ path \in Seq(Words)
  BY PathsShaped, PartsOfPath DEF Paths
<1>2. \A i \in 1 .. Len(path) : PartAt(path, i) \in Seq(Tokens)
  BY PartsOfPath
<1>3. text[1] = Path!Raw(path[1])
  BY <1>1, <1>2, PathBegins DEF Shaped
<1>4. CASE path[1] # "payments"
  <2>1. text[1] # Path!Raw("payments")
    BY <1>3, <1>4 DEF Path!Raw
  <2> HIDE DEF text
  <2>2. ~Path!InPath(text)
    BY <2>1 DEF Path!InPath
  <2>3. Path!PaymentHeader(text) = IF page THEN Path!Encode(ids[1]) ELSE <<>>
    BY <2>2 DEF Path!PaymentHeader
  <2> QED BY <1>4, <2>3 DEF text
<1>5. CASE path[1] = "payments"
  <2>1. Len(path) > 1 /\ path[2] = Path!Id /\ (Len(path) > 2 => path[3] # "?")
    BY <1>1, <1>5 DEF Shaped
  <2> DEFINE first == <<Path!Raw("payments"), Slash>>  id == PartAt(path, 2)
  <2>2. PICK rest \in Seq(Tokens) :
            /\ text = first \o id \o rest
            /\ rest # <<>> => rest[1] = Slash
    BY <1>1, <1>2, <1>5, <2>1, PaymentBegins
  <2>3. id \in Seq(Tokens) /\ StaysAPart(id)
    <3>1. 2 \in 1 .. Len(path) /\ path[2] # "?"
      BY <1>1, <2>1 DEF Path!Id
    <3> QED BY <3>1, PartsOfPath
  <2>4. first \in Seq(Tokens) /\ Len(first) = 2
    <3>1. "payments" \in Words
      <4>1. 1 \in DOMAIN path
        BY <1>1, <2>1
      <4> QED BY <1>5, <4>1 DEF Words
    <3> QED BY <3>1, RawToken, SlashToken
  <2> HIDE DEF text, first, id
  <2> DEFINE after == id \o rest
  <2>5. after \in Seq(Tokens) /\ text = first \o after
    BY <2>2, <2>3, <2>4, ConcatAssociates, ConcatElements
  <2>6. Len(after) \in Nat /\ Len(after) > 0
    BY <2>2, <2>3, ConcatProperties, EmptySeq DEF StaysAPart
  <2> HIDE DEF after
  <2>7. /\ text \in Seq(Tokens) /\ Len(text) = 2 + Len(after)
        /\ \A i \in 1 .. Len(after) : text[i + 2] = after[i]
    <3>1. /\ text \in Seq(Tokens) /\ Len(text) = Len(first) + Len(after)
          /\ \A i \in 1 .. Len(first) + Len(after) :
                text[i] = IF i <= Len(first) THEN first[i] ELSE after[i - Len(first)]
      BY <2>4, <2>5, ConcatProperties
    <3> QED BY <2>4, <2>6, <3>1
  <2>8. SubSeq(text, 3, Len(text)) = after
    <3> DEFINE len == Len(text)  s == SubSeq(text, 3, len)
    <3>1. len \in Int /\ 3 \in Int /\ 3 <= len /\ len - 3 + 1 = Len(after)
      BY <2>6, <2>7
    <3>2. \A i \in 3 .. len : text[i] \in Tokens
      BY <2>7
    <3>3. /\ s \in Seq(Tokens) /\ Len(s) = Len(after)
          /\ \A i \in 1 .. Len(after) : s[i] = text[3 + i - 1]
      <4> HIDE DEF len
      <4> QED BY <3>1, <3>2, SubSeqProperties
    <3> HIDE DEF s, len
    <3>4. \A i \in 1 .. Len(s) : s[i] = after[i]
      BY <2>6, <2>7, <3>3
    <3>5. s = after
      BY <2>5, <3>3, <3>4, SeqEqual
    <3> QED BY <3>5 DEF s, len
  <2>9. Path!Until(after, {"/", "?"}) = id
    <3>1. NoStop(id, {"/", "?"})
      BY <2>3 DEF NoStop, StaysAPart
    <3>2. CASE rest = <<>>
      <4>1. after = id
        BY <2>3, <3>2 DEF after
      <4> QED BY <3>1, <4>1, UntilEnd
    <3>3. CASE rest # <<>>
      <4>1. ~rest[1].encoded /\ rest[1].is \in {"/", "?"}
        BY <2>2, <3>3 DEF Slash, Path!Raw
      <4> QED BY <2>2, <2>3, <3>1, <3>3, <4>1, UntilStop DEF after
    <3> QED BY <3>2, <3>3
  <2>10. Path!InPath(text)
    BY <1>3, <1>5, <2>6, <2>7 DEF Path!InPath, text
  <2>11. Path!PaymentHeader(text) = id
    BY <2>8, <2>9, <2>10 DEF Path!PaymentHeader
  <2> QED BY <1>5, <2>11 DEF text, id
<1> QED BY <1>4, <1>5

(* What was asked for is what is read.                                      *)
Asked(path) == {i \in DOMAIN path : \A j \in 1 .. i : path[j] # "?"}

GivenAt(path, i) ==
    IF path[i] = Path!Id THEN Path!Trim(ids[Path!Ordinal(path, i)]) ELSE <<path[i]>>

LEMMA ReadAsGiven ==
    ASSUME NEW path \in Paths, Placed(path), NEW i \in 1 .. Len(path)
    PROVE  Path!Decoded(PartAt(path, i)) = GivenAt(path, i)
<1>1. CASE path[i] = Path!Id
  <2>1. i \in DOMAIN path
    BY PartsOfPath
  <2> DEFINE id == ids[Path!Ordinal(path, i)]
  <2>2. id \in Texts
    BY <1>1, <2>1 DEF Placed
  <2> HIDE DEF id
  <2>3. Path!Decoded(Path!Encode(id)) = Path!Trim(id)
    BY <2>2, EncodedReads
  <2> QED BY <1>1, <2>3 DEF PartAt, GivenAt, id
<1>2. CASE path[i] # Path!Id
  BY <1>2 DEF PartAt, GivenAt, Path!Decoded, Path!Raw
<1> QED BY <1>1, <1>2

LEMMA AskedIs ==
    ASSUME NEW path \in Paths, NEW q \in 1 .. Len(path), AsksFor(path, q),
           path \in Seq(Words)
    PROVE  Asked(path) = 1 .. q
<1>1. DOMAIN path = 1 .. Len(path) /\ Len(path) \in Nat
  OBVIOUS
<1>2. q \in Nat /\ (\A i \in 1 .. q : path[i] # "?") /\ (q + 1 \in 1 .. Len(path) => path[q + 1] = "?")
  <2>1. q \in Nat /\ q <= Len(path) /\ Len(path) \in Nat
    BY <1>1
  <2>2. (\A i \in 1 .. q : path[i] # "?") /\ (q = Len(path) \/ path[q + 1] = "?")
    BY DEF AsksFor
  <2>3. ASSUME q + 1 \in 1 .. Len(path) PROVE path[q + 1] = "?"
    <3>1. q # Len(path)
      BY <2>1, <2>3
    <3> QED BY <2>2, <3>1
  <2> QED BY <2>1, <2>2, <2>3
<1>3. ASSUME NEW i \in 1 .. q PROVE i \in Asked(path)
  <2>1. i \in 1 .. Len(path) /\ \A j \in 1 .. i : j \in 1 .. q
    BY <1>1, <1>2
  <2> QED BY <1>1, <1>2, <2>1 DEF Asked
<1>4. ASSUME NEW i \in Asked(path) PROVE i \in 1 .. q
  <2>1. i \in 1 .. Len(path) /\ \A j \in 1 .. i : path[j] # "?"
    BY <1>1 DEF Asked
  <2>2. ASSUME i > q PROVE FALSE
    <3>1. q + 1 \in 1 .. i /\ q + 1 \in 1 .. Len(path)
      BY <1>1, <1>2, <2>1, <2>2
    <3> QED BY <1>2, <2>1, <3>1
  <2> QED BY <1>1, <1>2, <2>1, <2>2
<1> QED BY <1>3, <1>4

LEMMA UrlReads ==
    ASSUME NEW path \in Paths, Placed(path)
    PROVE  LET url == Path!BuildUrl(Path!PathText(path)) IN
           [n \in DOMAIN url |-> Path!Decoded(url[n])]
               = [n \in 1 .. 3 |-> Path!Decoded(Path!BasePath[n])]
                     \o [n \in Asked(path) |-> GivenAt(path, n)]
<1>1. path \in Seq(Words) /\ Len(path) \in Nat
  BY PartsOfPath
<1>2. PICK q \in 1 .. Len(path) : AsksFor(path, q)
  BY PathsShaped DEF Shaped, Paths
<1> DEFINE base == Path!BasePath  parts == [i \in 1 .. q |-> PartAt(path, i)]
           url == Path!BuildUrl(Path!PathText(path))
           read == [n \in DOMAIN url |-> Path!Decoded(url[n])]
           s == [n \in 1 .. 3 |-> Path!Decoded(base[n])]
           t == [n \in 1 .. q |-> GivenAt(path, n)]
<1>3. url = base \o parts
  BY <1>2, UrlOfPath
<1>4. Asked(path) = 1 .. q
  BY <1>1, <1>2, AskedIs
<1>5. q \in Nat /\ DOMAIN base = 1 .. 3 /\ Len(base) = 3 /\ Len(parts) = q
  BY <1>1 DEF Path!BasePath
<1>6. url = [n \in 1 .. 3 + q |-> IF n <= 3 THEN base[n] ELSE parts[n - 3]]
  <2>1. base = [n \in 1 .. 3 |-> base[n]]
    BY DEF Path!BasePath
  <2>2. parts = [n \in 1 .. q |-> parts[n]]
    OBVIOUS
  <2> HIDE DEF base, parts, url
  <2> QED BY <1>3, <1>5, <2>1, <2>2, Joined
<1>7. s \o t = [n \in 1 .. 3 + q |-> IF n <= 3 THEN s[n] ELSE t[n - 3]]
  <2>1. s = [n \in 1 .. 3 |-> s[n]] /\ t = [n \in 1 .. q |-> t[n]]
    OBVIOUS
  <2> HIDE DEF s, t
  <2> QED BY <1>5, <2>1, Joined
<1>8. ASSUME NEW n \in 1 .. 3 + q PROVE Path!Decoded(url[n]) = IF n <= 3 THEN s[n] ELSE t[n - 3]
  <2>1. CASE n <= 3
    <3>1. n \in 1 .. 3
      BY <1>5, <2>1
    <3> HIDE DEF url
    <3> QED BY <1>6, <2>1, <3>1
  <2>2. CASE ~(n <= 3)
    <3>1. n - 3 \in 1 .. q /\ n - 3 \in 1 .. Len(path)
      BY <1>1, <1>5, <2>2
    <3>2. Path!Decoded(PartAt(path, n - 3)) = GivenAt(path, n - 3)
      BY <3>1, ReadAsGiven
    <3>3. url[n] = PartAt(path, n - 3)
      <4> HIDE DEF url
      <4> QED BY <1>6, <2>2, <3>1
    <3> HIDE DEF url
    <3> QED BY <2>2, <3>1, <3>2, <3>3
  <2> QED BY <2>1, <2>2
<1> HIDE DEF s, t, url
<1>9. read = s \o t
  <2>1. DOMAIN url = 1 .. 3 + q
    BY <1>6
  <2> QED BY <1>7, <1>8, <2>1
<1> QED BY <1>4, <1>9 DEF s, t, url

(* The places of a path are numbered from 1; in a page the only one is that *)
(* of the payment.                                                          *)
LEMMA PathCounts == \A S : Path!Cardinality(S) = Cardinality(S)
  BY DEF Path!Cardinality, Cardinality

LEMMA Ordinals ==
    ASSUME NEW path \in Paths, NEW i \in Path!Slots(path)
    PROVE  /\ Path!Ordinal(path, i) \in Nat \ {0}
           /\ Path!Ordinal(path, i) <= Path!Cardinality(Path!Slots(path))
<1> DEFINE slots == Path!Slots(path)  before == {j \in slots : j <= i}
<1>1. DOMAIN path = 1 .. Len(path) /\ Len(path) \in Nat
  <2>1. PICK S : path \in Seq(S)
    BY PathsShaped DEF Shaped, Paths
  <2> QED BY <2>1
<1>2. IsFiniteSet(slots)
  <2>1. IsFiniteSet(1 .. Len(path))
    BY <1>1, FS_Interval
  <2>2. slots \subseteq 1 .. Len(path)
    BY <1>1 DEF Path!Slots
  <2> HIDE DEF slots
  <2> QED BY <2>1, <2>2, FS_Subset
<1>3. before \subseteq slots /\ i \in before
  BY <1>1 DEF Path!Slots
<1> HIDE DEF before, slots
<1>4. IsFiniteSet(before) /\ Cardinality(before) <= Cardinality(slots)
  BY <1>2, <1>3, FS_Subset
<1>5. Cardinality(before) \in Nat /\ Cardinality(before) # 0
  BY <1>3, <1>4, FS_CardinalityType, FS_EmptySet
<1> QED BY <1>4, <1>5, PathCounts DEF Path!Ordinal, before, slots

LEMMA FirstOrdinal ==
    ASSUME NEW path \in Paths, path[1] # Path!Id, path[2] = Path!Id, Len(path) > 1
    PROVE  2 \in Path!Slots(path) /\ Path!Ordinal(path, 2) = 1
<1>1. DOMAIN path = 1 .. Len(path) /\ Len(path) \in Nat
  <2>1. PICK S : path \in Seq(S)
    BY PathsShaped DEF Shaped, Paths
  <2> QED BY <2>1
<1>2. 2 \in Path!Slots(path) /\ 1 \notin Path!Slots(path) /\ Path!Slots(path) \subseteq Nat \ {0}
  BY <1>1 DEF Path!Slots
<1>3. {j \in Path!Slots(path) : j <= 2} = {2}
  BY <1>2
<1>4. Cardinality({2}) = 1
  BY FS_Singleton
<1> QED BY <1>2, <1>3, <1>4, PathCounts DEF Path!Ordinal

LEMMA PageSlots ==
    ASSUME NEW path \in Path!OfPage, NEW i \in Path!Slots(path)
    PROVE  i = 2 /\ Path!Ordinal(path, i) = 1
<1> USE DEF Paths
<1>1. Shaped(path) /\ path \in Paths
  BY PathsShaped DEF Path!OfPage
<1>2. CASE path \in {<<"oauth2", "token">>, <<"cards", "browser-data">>}
  BY <1>2 DEF Path!Slots, Path!Id
<1>3. CASE path \in Path!PaymentsOfPage
  <2> DEFINE first == <<"payments", Path!Id>>
  <2>1. PICK rest \in Path!Reads \cup {<<"apple-pay", "app-info">>} : path = first \o rest
    BY <1>3 DEF Path!PaymentsOfPage, Path!SomePayment
  <2>2. ASSUME NEW j \in DOMAIN rest PROVE rest[j] # Path!Id
    BY <2>1, <2>2 DEF Path!Reads, Path!Id
  <2>3. \E S : first \in Seq(S) /\ rest \in Seq(S)
    <3> DEFINE S == Names \cup {"?"}
    <3>1. first \in Seq(S)
      BY DEF Names
    <3>2. ASSUME NEW s \in Seq(Names) PROVE s \in Seq(S)
      OBVIOUS
    <3>3. <<"qr-payment", "info", "?", "format">> \in Seq(S)
      BY DEF Names
    <3> HIDE DEF S
    <3>4. rest \in Seq(S)
      BY <2>1, <3>2, <3>3, OfNames DEF Path!Reads
    <3> QED BY <3>1, <3>4
  <2>4. PICK S : first \in Seq(S) /\ rest \in Seq(S)
    BY <2>3
  <2>5. Len(first) = 2 /\ first[1] = "payments" /\ first[2] = Path!Id
    OBVIOUS
  <2> HIDE DEF first
  <2>6. /\ path \in Seq(S) /\ Len(path) = Len(first) + Len(rest) /\ Len(rest) \in Nat
        /\ \A j \in 1 .. Len(first) + Len(rest) :
              path[j] = IF j <= Len(first) THEN first[j] ELSE rest[j - Len(first)]
    BY <2>1, <2>4, ConcatProperties
  <2>7. path[1] = "payments" /\ path[2] = Path!Id /\ Len(path) > 1
    BY <2>5, <2>6
  <2>8. ASSUME i # 2 PROVE FALSE
    <3>1. i \in 1 .. Len(path) /\ path[i] = Path!Id
      BY <2>6 DEF Path!Slots
    <3>2. i # 1
      BY <2>7, <3>1 DEF Path!Id
    <3>3. i - 2 \in 1 .. Len(rest) /\ path[i] = rest[i - 2]
      BY <2>5, <2>6, <2>8, <3>1, <3>2
    <3>4. i - 2 \in DOMAIN rest
      BY <2>4, <3>3
    <3> QED BY <2>2, <3>1, <3>3, <3>4
  <2>9. path[1] # Path!Id
    BY <1>1 DEF Shaped
  <2> QED BY <1>1, <2>7, <2>8, <2>9, FirstOrdinal
<1> QED BY <1>2, <1>3 DEF Path!OfPage

(* A call has a text for each place of its path, and a page the payment     *)
(* attached.                                                                *)
Fit ==
    /\ endpoint \in IF page THEN Path!OfPage ELSE Path!OfServer
    /\ DOMAIN ids = 1 .. (IF page THEN 1 ELSE Path!Cardinality(Path!Slots(endpoint)))
    /\ \A n \in DOMAIN ids : ids[n] \in Texts

LEMMA InitFit == Path!Init => Fit
<1> SUFFICES ASSUME Path!Init PROVE Fit
  OBVIOUS
<1> DEFINE n == IF page THEN 1 ELSE Path!Cardinality(Path!Slots(endpoint))
<1>1. ids \in [1 .. n -> Path!Strings(MaxLength)]
  BY DEF Path!Init
<1>2. Path!Strings(MaxLength) \subseteq Texts
  <2>1. ASSUME NEW k \in 0 .. MaxLength PROVE [1 .. k -> Characters] \subseteq Texts
    BY <2>1, LengthAssumption DEF Texts
  <2> QED BY <2>1 DEF Path!Strings, Characters
<1>3. endpoint \in IF page THEN Path!OfPage ELSE Path!OfServer
  BY DEF Path!Init
<1>4. DOMAIN ids = 1 .. n /\ \A i \in 1 .. n : ids[i] \in Texts
  <2> HIDE DEF n
  <2> QED BY <1>1, <1>2
<1> QED BY <1>3, <1>4 DEF Fit

LEMMA SentIsPlaced ==
    ASSUME Fit, \A n \in DOMAIN ids : ~Path!Refused(n)
    PROVE  endpoint \in Paths /\ Placed(endpoint)
<1>1. endpoint \in Paths
  BY DEF Fit, Paths
<1>2. ASSUME NEW i \in DOMAIN endpoint, endpoint[i] = Path!Id
      PROVE  LET id == ids[Path!Ordinal(endpoint, i)] IN id \in Texts /\ ~Path!Refuses(id)
  <2> DEFINE n == Path!Ordinal(endpoint, i)
  <2>1. i \in Path!Slots(endpoint)
    BY <1>2 DEF Path!Slots
  <2>2. n \in Nat \ {0} /\ n <= Path!Cardinality(Path!Slots(endpoint))
    BY <1>1, <2>1, Ordinals
  <2>3. page => n = 1
    BY <2>1, PageSlots DEF Fit
  <2>4. Path!Cardinality(Path!Slots(endpoint)) \in Nat \/ page
    <3>1. DOMAIN endpoint = 1 .. Len(endpoint) /\ Len(endpoint) \in Nat
      <4>1. PICK S : endpoint \in Seq(S)
        BY <1>1, PathsShaped DEF Shaped, Paths
      <4> QED BY <4>1
    <3>2. IsFiniteSet(1 .. Len(endpoint))
      BY <3>1, FS_Interval
    <3>3. Path!Slots(endpoint) \subseteq 1 .. Len(endpoint)
      BY <3>1 DEF Path!Slots
    <3>4. IsFiniteSet(Path!Slots(endpoint))
      BY <3>2, <3>3, FS_Subset
    <3> QED BY <3>4, PathCounts, FS_CardinalityType
  <2> HIDE DEF n
  <2>5. n \in DOMAIN ids
    BY <2>2, <2>3, <2>4 DEF Fit
  <2>6. ids[n] \in Texts /\ ~Path!Refuses(ids[n])
    BY <2>2, <2>5 DEF Fit, Path!Refused
  <2> QED BY <2>6 DEF n
<1> QED BY <1>1, <1>2 DEF Placed

LEMMA HeaderReads ==
    ASSUME Fit, endpoint \in Paths, Placed(endpoint)
    PROVE  Path!Decoded(Path!PaymentHeader(Path!PathText(endpoint))) =
               IF page \/ endpoint[1] = "payments" THEN Path!Trim(ids[1]) ELSE <<>>
<1>1. Shaped(endpoint)
  BY PathsShaped DEF Paths
<1>2. CASE endpoint[1] = "payments"
  <2>1. endpoint[2] = Path!Id /\ Len(endpoint) > 1 /\ endpoint[1] # Path!Id
    BY <1>1, <1>2 DEF Shaped
  <2>2. Path!Ordinal(endpoint, 2) = 1 /\ 2 \in Path!Slots(endpoint)
    BY <2>1, FirstOrdinal
  <2>3. 2 \in 1 .. Len(endpoint)
    <3>1. PICK S : endpoint \in Seq(S)
      BY <1>1 DEF Shaped
    <3> QED BY <2>1, <3>1
  <2>4. Path!Decoded(PartAt(endpoint, 2)) = Path!Trim(ids[1])
    BY <2>1, <2>2, <2>3, ReadAsGiven DEF GivenAt
  <2> QED BY <1>2, <2>4, HeaderOfPath
<1>3. CASE endpoint[1] # "payments" /\ page
  <2>1. ids[1] \in Texts
    BY <1>3 DEF Fit
  <2> QED BY <1>3, <2>1, HeaderOfPath, EncodedReads
<1>4. CASE endpoint[1] # "payments" /\ ~page
  <2>1. Path!Decoded(<<>>) = <<>>
    BY DEF Path!Decoded
  <2> QED BY <1>4, <2>1, HeaderOfPath
<1> QED BY <1>2, <1>3, <1>4

(* validate.ts:26-36, correlation.ts:60-66: whatever the ids are and        *)
(* however long, a request that is sent goes to the endpoint of the method  *)
(* called, with each id in its place, and its headers name the payment of   *)
(* the path, else the one attached, and no other.                           *)
THEOREM GoesWhereAsked == Path!Spec => []NamedEndpoint
<1>1. Path!Init => Fit /\ NamedEndpoint
  <2>1. Path!Init => outcome = [result |-> "none"]
    BY DEF Path!Init
  <2> QED BY <2>1, InitFit DEF NamedEndpoint, Path!NamedEndpoint
<1>2. Fit /\ NamedEndpoint /\ [Path!Next]_(Path!vars) => (Fit /\ NamedEndpoint)'
  <2> SUFFICES ASSUME Fit, NamedEndpoint, [Path!Next]_(Path!vars)
               PROVE  Fit' /\ NamedEndpoint'
    OBVIOUS
  <2>1. CASE UNCHANGED Path!vars
    <3>1. Fit'
      BY <2>1 DEF Path!vars, Fit, Path!Slots
    <3>2. NamedEndpoint'
      BY <2>1 DEF Path!vars, NamedEndpoint, Path!NamedEndpoint, Path!Slots, Path!Ordinal
    <3> QED BY <3>1, <3>2
  <2>2. CASE Path!Call
    <3>1. UNCHANGED <<page, endpoint, ids>>
      BY <2>2 DEF Path!Call
    <3>2. Fit'
      BY <3>1 DEF Fit, Path!Slots
    <3>3. NamedEndpoint'
      <4> SUFFICES ASSUME outcome'.result = "sent" PROVE NamedEndpoint'
        BY DEF NamedEndpoint, Path!NamedEndpoint
      <4>1. \A n \in DOMAIN ids : ~Path!Refused(n)
        BY <2>2 DEF Path!Call
      <4>2. endpoint \in Paths /\ Placed(endpoint)
        BY <4>1, SentIsPlaced
      <4>3. /\ outcome'.url = Path!BuildUrl(Path!PathText(endpoint))
            /\ outcome'.payment = Path!PaymentHeader(Path!PathText(endpoint))
        BY <2>2 DEF Path!Call
      <4> DEFINE read == [n \in DOMAIN outcome'.url |-> Path!Decoded(outcome'.url[n])]
                 right == [n \in 1 .. 3 |-> Path!Decoded(Path!BasePath[n])]
                              \o [n \in Asked(endpoint) |-> GivenAt(endpoint, n)]
      <4>4. read = right
        BY <4>2, <4>3, UrlReads
      <4>5. Path!Decoded(outcome'.payment) =
               IF page \/ endpoint[1] = "payments" THEN Path!Trim(ids[1]) ELSE <<>>
        BY <4>2, <4>3, HeaderReads
      <4> QED BY <3>1, <4>4, <4>5
              DEF NamedEndpoint, Path!NamedEndpoint, Asked, GivenAt, Path!Ordinal, Path!Slots
    <3> QED BY <3>2, <3>3
  <2> QED BY <2>1, <2>2 DEF Path!Next
<1> QED BY <1>1, <1>2, PTL DEF Path!Spec

=============================================================================
