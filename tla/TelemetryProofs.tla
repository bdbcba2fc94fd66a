--------------------------- MODULE TelemetryProofs ---------------------------
(***************************************************************************)
(* Proofs about what the browser SDK tells of itself: the leaves of        *)
(* PageVisit, the numbers and counts of EventUpload, the reports of        *)
(* CardFormReports, the oscillation of HeightTracker and what Sanitize     *)
(* leaves of a message or a body.  Each part is proved of its own          *)
(* specification, for every number of SDKs, visits and messages, every     *)
(* budget and every set of chunks; the instances are those of MCTelemetry. *)
(***************************************************************************)
EXTENDS MCTelemetry, SequenceTheorems, FiniteSetTheorems, TLAPS

-----------------------------------------------------------------------------
(* PageVisit.  The funnel's budget.                                         *)

LEMMA KindsOfNames ==
    \A n \in Names : BudgetOf[n] \in Kinds /\ (BudgetOf[n] = "lifecycle" <=> n \in Funnel)
<1>. SUFFICES ASSUME NEW n \in Names
              PROVE  BudgetOf[n] \in Kinds /\ (BudgetOf[n] = "lifecycle" <=> n \in Funnel)
  OBVIOUS
<1>1. n \notin Funnel => KindOf(n) \in Kinds \ {"lifecycle"}
  BY DEF Names, KindOf, Kinds, CallEvents, ErrorEvents, WalletEvents, FormEvents, PageEvents
<1>2. BudgetOf[n] = IF n \in Funnel THEN "lifecycle" ELSE KindOf(n)
  BY DEF BudgetOf
<1>3. "lifecycle" \in Kinds
  BY DEF Kinds
<1>. HIDE DEF Names, Funnel
<1>. QED
  BY <1>1, <1>2, <1>3

Spendings == [SDKs -> [Kinds -> Nat]]

(* What an SDK has spent of the funnel's budget.                            *)
Spent(s, i) == s[i]["lifecycle"]

LEMMA SentSpends ==
    ASSUME NEW s \in Spendings, NEW i \in SDKs, NEW name \in Names
    PROVE  LET t == Sent(s, i, name)
           IN  /\ t \in Spendings
               /\ \A j \in SDKs \ {i} : t[j] = s[j]
               /\ name \notin Funnel => Spent(t, i) = Spent(s, i)
               /\ name \in Funnel =>
                      /\ Within(s[i], name) <=> Spent(s, i) < Budget["lifecycle"]
                      /\ Spent(t, i) = IF Within(s[i], name) THEN Spent(s, i) + 1
                                       ELSE Spent(s, i)
<1>. DEFINE k == BudgetOf[name]
            spend == [s[i] EXCEPT ![k] = @ + 1]
            t == Sent(s, i, name)
<1>1. k \in Kinds /\ (k = "lifecycle" <=> name \in Funnel)
  BY KindsOfNames
<1>2. "lifecycle" \in Kinds
  BY DEF Kinds
<1>3. s[i] \in [Kinds -> Nat]
  BY DEF Spendings
<1>4. /\ spend \in [Kinds -> Nat]
      /\ spend[k] = s[i][k] + 1
      /\ \A l \in Kinds \ {k} : spend[l] = s[i][l]
  BY <1>1, <1>3
<1>5. t = IF Within(s[i], name) THEN [s EXCEPT ![i] = spend] ELSE s
  BY DEF Sent, Spend
<1>6. Within(s[i], name) <=> s[i][k] < Budget[k]
  BY DEF Within
<1>. HIDE DEF spend, k, t
<1>7. /\ t \in Spendings
      /\ \A j \in SDKs \ {i} : t[j] = s[j]
      /\ t[i] = IF Within(s[i], name) THEN spend ELSE s[i]
  BY <1>4, <1>5 DEF Spendings
<1>. QED
  BY <1>1, <1>2, <1>3, <1>4, <1>6, <1>7 DEF Spent, t

(* What is told of the page takes nothing from the funnel.                  *)
Unmarked(s, t) == t \in Spendings /\ \A i \in SDKs : Spent(t, i) = Spent(s, i)

LEMMA SentUnmarked ==
    ASSUME NEW s \in Spendings, NEW i \in SDKs, NEW name \in Names \ Funnel
    PROVE  Unmarked(s, Sent(s, i, name))
<1>. DEFINE t == Sent(s, i, name)
<1>1. /\ t \in Spendings
      /\ \A j \in SDKs \ {i} : t[j] = s[j]
      /\ Spent(t, i) = Spent(s, i)
  BY SentSpends
<1>. HIDE DEF t
<1>2. \A j \in SDKs : Spent(t, j) = Spent(s, j)
  BY <1>1 DEF Spent
<1>. QED
  BY <1>1, <1>2 DEF Unmarked, t

LEMMA UnmarkedTwice ==
    ASSUME NEW s, NEW t, NEW u, Unmarked(s, t), Unmarked(t, u)
    PROVE  Unmarked(s, u)
BY DEF Unmarked

LEMMA ReportUnmarked ==
    ASSUME TypeOK, NEW s \in Spendings, NEW name \in Names \ Funnel
    PROVE  Unmarked(s, Report(s, name))
<1>1. CASE built = 0
  BY <1>1 DEF Report, Unmarked
<1>2. CASE built # 0
  <2>1. built \in SDKs
    BY <1>2, SDKsAssumption DEF TypeOK, SDKs
  <2>2. Report(s, name) = Sent(s, built, name)
    BY <1>2 DEF Report
  <2>. QED
    BY <2>1, <2>2, SentUnmarked
<1>. QED
  BY <1>1, <1>2

LEMMA ShownUnmarked ==
    ASSUME TypeOK, NEW s \in Spendings, NEW shown \in {"visible", "hidden"}
    PROVE  Unmarked(s, Shown(s, shown))
<1>1. shown \in Names \ Funnel
  BY DEF Names, Funnel, PageEvents
<1>2. Unmarked(s, s)
  BY DEF Unmarked
<1>. QED
  BY <1>1, <1>2, ReportUnmarked DEF Shown

(* The markers of the funnel an SDK sent are what it has spent on it.       *)
Budgeted ==
    /\ spent \in Spendings
    /\ markers \in [SDKs -> Nat]
    /\ \A i \in SDKs :
        /\ markers[i] = Spent(spent, i)
        /\ markers[i] <= Budget["lifecycle"]
        /\ i > built => markers[i] = 0

(* On a page that is there, a leave was told exactly while the latch says   *)
(* so, and the beacon is armed.                                             *)
LatchTells ==
    /\ page.where = "here" =>
        /\ told = IF leftAt = "lately" THEN "redirect" ELSE "none"
        /\ built > 0 => armed
    /\ built = 0 => leftAt = "never" /\ told = "none" /\ ~armed

(* A form belongs to an SDK that is built.                                  *)
CardsBuilt == \A i \in SDKs : card[i].form # "none" => i <= built

PageInv == TypeOK /\ Budgeted /\ LatchTells /\ CardsBuilt /\ LeaveTold

LEMMA FunnelBudget == Budget["lifecycle"] \in Nat \ {0} /\ "lifecycle" \in Kinds
BY BudgetAssumption DEF Kinds

(* An event of an SDK that is built: its markers go on with its budget.     *)
LEMMA BudgetedOn ==
    ASSUME PageInv, NEW i \in SDKs, i <= built, NEW name \in Names, UNCHANGED built,
           spent' = Sent(spent, i, name),
           markers' = IF name \in Funnel /\ Within(spent[i], name)
                      THEN [markers EXCEPT ![i] = @ + 1] ELSE markers
    PROVE  Budgeted'
<1>1. /\ spent' \in Spendings
      /\ \A j \in SDKs \ {i} : spent'[j] = spent[j]
      /\ name \notin Funnel => Spent(spent', i) = Spent(spent, i)
      /\ name \in Funnel =>
             /\ Within(spent[i], name) <=> Spent(spent, i) < Budget["lifecycle"]
             /\ Spent(spent', i) = IF Within(spent[i], name) THEN Spent(spent, i) + 1
                                   ELSE Spent(spent, i)
  BY SentSpends DEF PageInv, Budgeted
<1>2. /\ markers' \in [SDKs -> Nat]
      /\ \A j \in SDKs \ {i} : markers'[j] = markers[j]
      /\ markers'[i] = IF name \in Funnel /\ Within(spent[i], name) THEN markers[i] + 1
                       ELSE markers[i]
  BY DEF PageInv, Budgeted
<1>3. built \in Nat
  BY SDKsAssumption DEF PageInv, TypeOK
<1>. QED
  BY <1>1, <1>2, <1>3, FunnelBudget DEF PageInv, Budgeted, Spent, SDKs

(* Nothing of the funnel.                                                   *)
LEMMA BudgetedStill ==
    ASSUME PageInv, UNCHANGED <<built, markers>>, Unmarked(spent, spent')
    PROVE  Budgeted'
BY DEF PageInv, Budgeted, Unmarked

-----------------------------------------------------------------------------

LEMMA BuildStep ==
    ASSUME PageInv, NEW reports \in SUBSET {"arrival", "discarded"}, Build(reports)
    PROVE  PageInv'
<1>. DEFINE new == built + 1
            init == Sent(spent, new, "init")
<1>1. new \in SDKs /\ built' = new /\ built \in Nat
  BY SDKsAssumption DEF Build, PageInv, TypeOK, SDKs
<1>2. spent \in Spendings /\ Spent(spent, new) = 0 /\ markers[new] = 0
  BY <1>1 DEF PageInv, Budgeted
<1>3. /\ init \in Spendings
      /\ \A j \in SDKs \ {new} : init[j] = spent[j]
      /\ Spent(init, new) = 1
  <2>1. "init" \in Names /\ "init" \in Funnel
    BY DEF Names, Funnel
  <2>. QED
    BY <1>1, <1>2, <2>1, SentSpends, FunnelBudget
<1>. HIDE DEF init
<1>4. Unmarked(init, spent')
  <2>. DEFINE known == IF "arrival" \in reports THEN Sent(init, new, "arrival") ELSE init
  <2>1. "arrival" \in Names \ Funnel /\ "discarded" \in Names \ Funnel
    BY DEF Names, Funnel, PageEvents
  <2>2. Unmarked(init, init)
    BY <1>3 DEF Unmarked
  <2>3. Unmarked(init, known)
    BY <1>1, <1>3, <2>1, <2>2, SentUnmarked
  <2>. HIDE DEF known
  <2>4. Unmarked(known, Sent(known, new, "discarded"))
    <3>1. known \in Spendings
      BY <2>3 DEF Unmarked
    <3>. QED
      BY <1>1, <2>1, <3>1, SentUnmarked
  <2>5. spent' = IF arrived THEN init
                 ELSE IF "discarded" \in reports THEN Sent(known, new, "discarded") ELSE known
    BY DEF Build, Register, init, known
  <2>. QED
    BY <2>2, <2>3, <2>4, <2>5, UnmarkedTwice
<1>5. /\ markers' \in [SDKs -> Nat] /\ markers'[new] = 1
      /\ \A j \in SDKs \ {new} : markers'[j] = markers[j]
  BY <1>1 DEF Build, PageInv, Budgeted
<1>6. Budgeted'
  <2>. SUFFICES ASSUME NEW i \in SDKs
                PROVE  /\ markers'[i] = Spent(spent', i)
                       /\ markers'[i] <= Budget["lifecycle"]
                       /\ i > new => markers'[i] = 0
    BY <1>1, <1>4, <1>5 DEF Budgeted, Unmarked
  <2>1. Spent(spent', i) = Spent(init, i)
    BY <1>4 DEF Unmarked
  <2>2. CASE i = new
    BY <1>1, <1>3, <1>5, <2>1, <2>2, FunnelBudget
  <2>3. CASE i # new
    <3>1. Spent(init, i) = Spent(spent, i)
      BY <1>3, <2>3 DEF Spent
    <3>2. i \in Nat
      BY DEF SDKs
    <3>. QED
      BY <1>1, <1>5, <2>1, <2>3, <3>1, <3>2 DEF PageInv, Budgeted
  <2>. QED
    BY <2>2, <2>3
<1>7. TypeOK'
  <2>1. spent' \in [SDKs -> [Kinds -> Nat]] /\ markers' \in [SDKs -> Nat]
    BY <1>4, <1>5 DEF Unmarked, Spendings
  <2>. QED
    BY <1>1, <2>1 DEF Build, Register, ResetLeft, PageInv, TypeOK, Leaves, Places, SDKs
<1>8. LatchTells' /\ LeaveTold'
  BY <1>1 DEF Build, ResetLeft, Running, PageInv, LatchTells, LeaveTold
<1>9. CardsBuilt'
  <2>1. card' = card
    BY DEF Build
  <2>. QED
    BY <1>1, <2>1 DEF PageInv, CardsBuilt, SDKs
<1>. QED
  BY <1>6, <1>7, <1>8, <1>9 DEF PageInv

LEMMA CardsLeft ==
    ASSUME PageInv, UNCHANGED <<built, card>>
    PROVE  CardsBuilt'
BY DEF PageInv, CardsBuilt

LEMMA TellStep ==
    ASSUME PageInv, NEW i \in SDKs, NEW name \in Traffic, Tell(i, name)
    PROVE  PageInv'
<1>1. name \in Names
  BY TrafficAssumption
<1>2. Budgeted'
  BY <1>1, BudgetedOn DEF Tell
<1>3. TypeOK'
  BY <1>2 DEF Tell, PageInv, TypeOK, Budgeted, Spendings
<1>4. LatchTells' /\ LeaveTold'
  BY DEF Tell, Running, PageInv, LatchTells, LeaveTold
<1>5. CardsBuilt'
  BY CardsLeft DEF Tell
<1>. QED
  BY <1>2, <1>3, <1>4, <1>5 DEF PageInv

(* A marker of the funnel that an SDK sends, or does not.                   *)
LEMMA MarkStep ==
    ASSUME PageInv, NEW i \in SDKs, i <= built, NEW name \in Funnel, NEW builds \in BOOLEAN,
           Mark(i, name, builds), UNCHANGED built
    PROVE  Budgeted'
<1>1. name \in Names
  BY DEF Names
<1>2. CASE builds
  <2>1. /\ spent' = Sent(spent, i, name)
        /\ markers' = IF name \in Funnel /\ Within(spent[i], name)
                      THEN [markers EXCEPT ![i] = @ + 1] ELSE markers
    BY <1>2 DEF Mark, Goes
  <2>. QED
    BY <1>1, <2>1, BudgetedOn
<1>3. CASE ~builds
  <2>1. UNCHANGED <<spent, markers>>
    BY <1>3 DEF Mark, Goes
  <2>. QED
    BY <2>1 DEF PageInv, Budgeted
<1>. QED
  BY <1>2, <1>3

LEMMA RedirectStep ==
    ASSUME PageInv, NEW i \in SDKs, NEW builds \in BOOLEAN, Redirect(i, builds)
    PROVE  PageInv'
<1>1. "leave" \in Funnel
  BY DEF Funnel
<1>2. Budgeted'
  BY <1>1, MarkStep DEF Redirect
<1>3. TypeOK'
  BY <1>2 DEF Redirect, MarkLeft, PageInv, TypeOK, Budgeted, Spendings, Leaves
<1>4. LatchTells' /\ LeaveTold'
  <2>1. built \in Nat /\ i \in Nat /\ i # 0
    BY SDKsAssumption DEF PageInv, TypeOK, SDKs
  <2>. QED
    BY <2>1 DEF Redirect, MarkLeft, Running, PageInv, LatchTells, LeaveTold
<1>5. CardsBuilt'
  BY CardsLeft DEF Redirect
<1>. QED
  BY <1>2, <1>3, <1>4, <1>5 DEF PageInv

(* What happens to a form's own state.                                      *)
LEMMA FormSteps ==
    ASSUME PageInv, NEW i \in SDKs,
           \/ MountForm(i) \/ FormSettles(i)
           \/ \E builds \in BOOLEAN : Ready(i, builds) \/ Unmount(i, builds)
    PROVE  PageInv'
<1>1. card' \in [SDKs -> Cards]
  <2>1. card \in [SDKs -> Cards] /\ card[i] \in Cards
    BY DEF PageInv, TypeOK
  <2>2. CASE MountForm(i)
    <3>. DEFINE c == [card[i] EXCEPT !.form = "mounting", !.readyAt = Older(@)]
    <3>1. card' = [card EXCEPT ![i] = c]
      BY <2>1, <2>2 DEF MountForm
    <3>2. c \in Cards
      BY <2>1 DEF Cards, Older
    <3>. HIDE DEF c
    <3>. QED
      BY <2>1, <3>1, <3>2
  <2>3. CASE FormSettles(i)
    BY <2>1, <2>3 DEF FormSettles, Cards
  <2>4. CASE \E builds \in BOOLEAN : Ready(i, builds)
    <3>. DEFINE c == [card[i] EXCEPT !.form = "ready", !.readyAt = "own"]
    <3>1. card' = [card EXCEPT ![i] = c]
      BY <2>1, <2>4 DEF Ready
    <3>2. c \in Cards
      BY <2>1 DEF Cards
    <3>. HIDE DEF c
    <3>. QED
      BY <2>1, <3>1, <3>2
  <2>5. CASE \E builds \in BOOLEAN : Unmount(i, builds)
    BY <2>1, <2>5 DEF Unmount, Cards
  <2>. QED
    BY <2>2, <2>3, <2>4, <2>5
<1>2. Budgeted'
  <2>1. CASE MountForm(i) \/ FormSettles(i)
    BY <2>1 DEF MountForm, FormSettles, PageInv, Budgeted
  <2>2. ASSUME NEW builds \in BOOLEAN, Ready(i, builds) \/ Unmount(i, builds)
        PROVE  Budgeted'
    <3>1. "ready" \in Funnel /\ "unmount" \in Funnel
      BY DEF Funnel
    <3>2. i <= built
      BY <2>2 DEF Ready, Unmount, PageInv, CardsBuilt
    <3>. QED
      BY <2>2, <3>1, <3>2, MarkStep DEF Ready, Unmount
  <2>. QED
    BY <2>1, <2>2
<1>3. UNCHANGED <<page, built, armed, leftAt, visibility, arrived, told>> /\ Running
  BY DEF MountForm, FormSettles, Ready, Unmount
<1>4. TypeOK'
  BY <1>1, <1>2, <1>3 DEF PageInv, TypeOK, Budgeted, Spendings
<1>5. LatchTells' /\ LeaveTold'
  BY <1>3 DEF Running, PageInv, LatchTells, LeaveTold
<1>6. CardsBuilt'
  <2>1. card \in [SDKs -> Cards]
    BY DEF PageInv, TypeOK
  <2>2. card'[i].form = "none" \/ i <= built
    BY <1>3, <2>1 DEF MountForm, FormSettles, Ready, Unmount, PageInv, CardsBuilt, Cards
  <2>3. \A j \in SDKs \ {i} : card'[j] = card[j]
    BY <2>1 DEF MountForm, FormSettles, Ready, Unmount
  <2>. QED
    BY <1>3, <2>2, <2>3 DEF PageInv, CardsBuilt
<1>. QED
  BY <1>2, <1>4, <1>5, <1>6 DEF PageInv

LEMMA PageSteps ==
    ASSUME PageInv, LatchExpires \/ ChangeVisibility \/ Freeze \/ Resume \/ Restore
    PROVE  PageInv'
<1>1. Unmarked(spent, spent') /\ UNCHANGED <<built, markers>>
  <2>1. TypeOK /\ spent \in Spendings /\ Unmarked(spent, spent)
    BY DEF PageInv, Budgeted, Unmarked
  <2>2. "freeze" \in Names \ Funnel /\ "resume" \in Names \ Funnel /\ "restored" \in Names \ Funnel
    BY DEF Names, Funnel, PageEvents
  <2>3. CASE Restore
    <3>. DEFINE seen == Shown(spent, "visible")
    <3>1. Unmarked(spent, seen) /\ spent' = Report(seen, "restored")
      BY <2>1, <2>3, ShownUnmarked DEF Restore
    <3>. HIDE DEF seen
    <3>2. Unmarked(seen, spent')
      BY <2>1, <2>2, <3>1, ReportUnmarked DEF Unmarked
    <3>. QED
      BY <2>3, <3>1, <3>2, UnmarkedTwice DEF Restore
  <2>4. CASE LatchExpires
    BY <2>1, <2>4 DEF LatchExpires
  <2>5. CASE ChangeVisibility
    BY <2>1, <2>5, ShownUnmarked DEF ChangeVisibility
  <2>6. CASE Freeze \/ Resume
    BY <2>1, <2>2, <2>6, ReportUnmarked DEF Freeze, Resume
  <2>. QED
    BY <2>3, <2>4, <2>5, <2>6
<1>2. Budgeted'
  BY <1>1, BudgetedStill
<1>3. TypeOK'
  <2>1. page' \in [where : Places, shown : {"visible", "hidden"}, frozen : BOOLEAN]
    BY DEF PageInv, TypeOK, LatchExpires, ChangeVisibility, Freeze, Resume, Restore, Places
  <2>2. visibility' \in {"unknown", "visible", "hidden"}
    BY DEF PageInv, TypeOK, LatchExpires, ChangeVisibility, Freeze, Resume, Restore, Seen
  <2>3. armed' \in BOOLEAN /\ leftAt' \in {"never", "lately", "before"} /\ told' \in Leaves
    BY DEF PageInv, TypeOK, LatchExpires, ChangeVisibility, Freeze, Resume, Restore,
       RearmLeaveBeacon, ResetLeft, Leaves
  <2>4. UNCHANGED <<arrived, card>>
    BY DEF LatchExpires, ChangeVisibility, Freeze, Resume, Restore
  <2>. QED
    BY <1>1, <1>2, <2>1, <2>2, <2>3, <2>4 DEF PageInv, TypeOK, Budgeted, Spendings
<1>4. LatchTells' /\ LeaveTold'
  <2>1. built \in Nat
    BY SDKsAssumption DEF PageInv, TypeOK
  <2>2. page \in [where : Places, shown : {"visible", "hidden"}, frozen : BOOLEAN]
    BY DEF PageInv, TypeOK
  <2>3. CASE LatchExpires
    BY <2>1, <2>3 DEF LatchExpires, PageInv, LatchTells, LeaveTold
  <2>4. CASE ChangeVisibility \/ Freeze \/ Resume
    <3>1. page'.where = page.where /\ UNCHANGED <<built, armed, leftAt, markers, told>>
      BY <2>2, <2>4 DEF ChangeVisibility, Freeze, Resume
    <3>. QED
      BY <3>1 DEF PageInv, LatchTells, LeaveTold
  <2>5. CASE Restore
    <3>1. page'.where = "here" /\ told' = "none" /\ built' = built
      BY <2>2, <2>5 DEF Restore
    <3>2. built > 0 => armed' /\ leftAt' = "never"
      BY <2>1, <2>5 DEF Restore, RearmLeaveBeacon, ResetLeft
    <3>3. built = 0 => UNCHANGED <<armed, leftAt>>
      BY <2>5 DEF Restore, RearmLeaveBeacon
    <3>. QED
      BY <2>1, <3>1, <3>2, <3>3 DEF PageInv, LatchTells, LeaveTold
  <2>. QED
    BY <2>3, <2>4, <2>5
<1>5. CardsBuilt'
  BY <1>1, CardsLeft DEF LatchExpires, ChangeVisibility, Freeze, Resume, Restore
<1>. QED
  BY <1>2, <1>3, <1>4, <1>5 DEF PageInv

(* The beacon tells the leave no redirect told, or its budget is spent.     *)
LEMMA PageHideStep ==
    ASSUME PageInv, NEW persisted \in BOOLEAN, NEW builds \in BOOLEAN,
           PageHide(persisted, builds)
    PROVE  PageInv'
<1>. DEFINE tells == IF builds THEN Sent(spent, built, "leave") ELSE spent
<1>1. /\ page \in [where : Places, shown : {"visible", "hidden"}, frozen : BOOLEAN]
      /\ spent \in Spendings /\ built \in Nat /\ page.where = "here" /\ UNCHANGED built
      /\ page'.where \in {"cached", "gone"}
  BY SDKsAssumption DEF PageInv, Budgeted, TypeOK, PageHide, Running
<1>4. CardsBuilt'
  BY CardsLeft DEF PageHide
<1>2. CASE ~armed \/ HasLeft
  <2>1. Unmarked(spent, spent') /\ UNCHANGED <<markers, told>>
    BY <1>1, <1>2, ShownUnmarked DEF PageHide, Beacon, PageInv
  <2>2. Budgeted'
    BY <1>1, <2>1, BudgetedStill
  <2>3. built > 0 => told = "redirect"
    BY <1>1, <1>2 DEF HasLeft, PageInv, LatchTells
  <2>4. LatchTells' /\ LeaveTold'
    BY <1>1, <2>1, <2>3 DEF PageHide, PageInv, LatchTells, LeaveTold
  <2>5. TypeOK'
    BY <1>1, <2>1, <2>2 DEF PageHide, PageInv, TypeOK, Budgeted, Spendings, Seen, Places
  <2>. QED
    BY <1>4, <2>2, <2>4, <2>5 DEF PageInv
<1>3. CASE armed /\ ~HasLeft
  <2>1. built \in SDKs /\ told = "none" /\ "leave" \in Funnel /\ "leave" \in Names
    BY <1>1, <1>3, SDKsAssumption
    DEF HasLeft, PageInv, LatchTells, TypeOK, SDKs, Funnel, Names
  <2>2. /\ spent' = Shown(tells, "hidden")
        /\ markers' = IF Goes(built, "leave", builds)
                      THEN [markers EXCEPT ![built] = @ + 1] ELSE markers
        /\ told' = IF ~builds THEN "unbuildable"
                   ELSE IF ~Goes(built, "leave", builds) THEN "refused" ELSE "beacon"
    BY <1>3, <2>1 DEF PageHide, Beacon
  <2>3. /\ tells \in Spendings
        /\ \A j \in SDKs \ {built} : Spent(tells, j) = Spent(spent, j)
        /\ Spent(tells, built) = IF Goes(built, "leave", builds) THEN Spent(spent, built) + 1
                                 ELSE Spent(spent, built)
        /\ Goes(built, "leave", builds) <=> builds /\ Spent(spent, built) < Budget["lifecycle"]
    BY <1>1, <2>1, SentSpends DEF Goes, Spent
  <2>4. Unmarked(tells, spent')
    BY <2>2, <2>3, ShownUnmarked DEF PageInv
  <2>. HIDE DEF tells
  <2>5. /\ markers' \in [SDKs -> Nat]
        /\ \A j \in SDKs \ {built} : markers'[j] = markers[j]
        /\ markers'[built] = IF Goes(built, "leave", builds) THEN markers[built] + 1
                             ELSE markers[built]
    BY <2>1, <2>2 DEF PageInv, Budgeted
  <2>6. Budgeted'
    <3>. SUFFICES ASSUME NEW i \in SDKs
                  PROVE  /\ markers'[i] = Spent(spent', i)
                         /\ markers'[i] <= Budget["lifecycle"]
                         /\ i > built => markers'[i] = 0
      BY <1>1, <2>4, <2>5 DEF Budgeted, Unmarked
    <3>1. Spent(spent', i) = Spent(tells, i)
      BY <2>4 DEF Unmarked
    <3>2. /\ markers[i] = Spent(spent, i) /\ markers[i] <= Budget["lifecycle"]
          /\ i > built => markers[i] = 0
          /\ markers[i] \in Nat
      BY DEF PageInv, Budgeted
    <3>. QED
      BY <1>1, <2>3, <2>5, <3>1, <3>2, FunnelBudget
  <2>7. told' = "refused" => markers'[built] = Budget["lifecycle"]
    <3>1. markers[built] = Spent(spent, built) /\ markers[built] <= Budget["lifecycle"]
          /\ markers[built] \in Nat
      BY <2>1 DEF PageInv, Budgeted
    <3>. QED
      BY <2>2, <2>3, <2>5, <3>1, FunnelBudget
  <2>8. built > 0
    BY <2>1 DEF SDKs
  <2>9. LatchTells' /\ LeaveTold'
    BY <1>1, <2>2, <2>7, <2>8 DEF LatchTells, LeaveTold
  <2>10. TypeOK'
    BY <1>1, <2>2, <2>4, <2>5
    DEF PageHide, PageInv, TypeOK, Unmarked, Spendings, Seen, Places, Leaves
  <2>. QED
    BY <1>4, <2>6, <2>9, <2>10 DEF PageInv
<1>. QED
  BY <1>2, <1>3

LEMMA InitPageInv == Init => PageInv
<1>. SUFFICES ASSUME Init PROVE PageInv
  OBVIOUS
<1>1. Unspent \in [Kinds -> Nat] /\ Unspent["lifecycle"] = 0
  BY FunnelBudget DEF Unspent
<1>2. spent \in Spendings /\ \A i \in SDKs : Spent(spent, i) = 0
  BY <1>1 DEF Init, Spendings, Spent
<1>3. Budgeted
  BY <1>2, FunnelBudget DEF Init, Budgeted
<1>4. TypeOK
  <2>1. page \in [where : Places, shown : {"visible", "hidden"}, frozen : BOOLEAN]
    BY DEF Init, Places
  <2>2. card \in [SDKs -> Cards]
    <3>1. [form |-> "none", readyAt |-> "none", timed |-> "none"] \in Cards
      BY DEF Cards
    <3>. QED
      BY <3>1 DEF Init
  <2>3. built \in 0 .. MaxSDKs
    BY SDKsAssumption DEF Init
  <2>. QED
    BY <1>2, <1>3, <2>1, <2>2, <2>3 DEF Init, TypeOK, Budgeted, Spendings, Leaves
<1>5. LatchTells /\ LeaveTold
  BY DEF Init, LatchTells, LeaveTold
<1>6. CardsBuilt
  BY DEF Init, CardsBuilt
<1>. QED
  BY <1>3, <1>4, <1>5, <1>6 DEF PageInv

LEMMA NextPageInv == PageInv /\ [Next]_vars => PageInv'
<1>. SUFFICES ASSUME PageInv, [Next]_vars PROVE PageInv'
  OBVIOUS
<1>1. CASE \E reports \in SUBSET {"arrival", "discarded"} : Build(reports)
  BY <1>1, BuildStep
<1>2. CASE \E p, b \in BOOLEAN : PageHide(p, b)
  BY <1>2, PageHideStep
<1>3. ASSUME NEW i \in SDKs,
             \/ \E name \in Traffic : Tell(i, name)
             \/ \E b \in BOOLEAN : Redirect(i, b) \/ Ready(i, b) \/ Unmount(i, b)
             \/ MountForm(i) \/ FormSettles(i)
      PROVE  PageInv'
  BY <1>3, TellStep, RedirectStep, FormSteps
<1>4. CASE LatchExpires \/ ChangeVisibility \/ Freeze \/ Resume \/ Restore
  BY <1>4, PageSteps
<1>5. CASE UNCHANGED vars
  BY <1>5 DEF vars, PageInv, TypeOK, Budgeted, LatchTells, CardsBuilt, LeaveTold
<1>. QED
  BY <1>1, <1>2, <1>3, <1>4, <1>5 DEF Next

(* What the page's state and the SDKs' may hold.                            *)
THEOREM PageTypeCorrect == Spec => []TypeOK
<1>1. PageInv => TypeOK
  BY DEF PageInv
<1>. QED
  BY <1>1, InitPageInv, NextPageInv, PTL DEF Spec

(* leave-beacon.ts:30-62, leave-latch.ts:7-21: a page that was left told    *)
(* one leave, or the SDK that should have has spent the funnel's budget.    *)
THEOREM OneLeave == Spec => []LeaveTold
<1>1. PageInv => LeaveTold
  BY DEF PageInv
<1>. QED
  BY <1>1, InitPageInv, NextPageInv, PTL DEF Spec

-----------------------------------------------------------------------------
(* EventUpload.  The number of an event is its place on the wire, and what  *)
(* an event of a calm page tells is all that failed before it.              *)

FailedUpTo(n) == {m \in 1 .. n : wire[m].fate \in {"lost", "unanswered"}}

(* The page knew, when the event was built, what became of all before it.   *)
Accounted(n) ==
    /\ \A m \in 1 .. n - 1 : wire[m].fate \notin Upload!Pending
    /\ wire[n].unsent = Cardinality(FailedUpTo(n - 1))

UploadInv ==
    /\ wire \in Seq(Upload!Requests)
    /\ sequence = Len(wire)
    /\ unsent = Cardinality(FailedUpTo(Len(wire)))
    /\ \A n \in DOMAIN wire : wire[n].seq = n /\ (wire[n].calm => Accounted(n))

(* The instance counts with the same Cardinality.                           *)
LEMMA UploadCounts == \A S : Upload!Cardinality(S) = Cardinality(S)
BY DEF Upload!Cardinality, Cardinality

LEMMA FailedFinite ==
    ASSUME NEW n \in Nat
    PROVE  IsFiniteSet(FailedUpTo(n)) /\ Cardinality(FailedUpTo(n)) \in Nat
<1>1. IsFiniteSet(1 .. n)
  BY FS_Interval
<1>2. FailedUpTo(n) \subseteq 1 .. n
  BY DEF FailedUpTo
<1>. QED
  BY <1>1, <1>2, FS_Subset, FS_CardinalityType

(* An event handed to fetch().                                              *)
LEMMA PostStep ==
    ASSUME UploadInv, NEW i \in Upload!SDKs, NEW name \in {"apiCall"}, Upload!Post(i, name)
    PROVE  UploadInv'
<1>1. CASE Upload!Refused
  BY <1>1 DEF Upload!Refused, Upload!vars, UploadInv, Accounted, FailedUpTo
<1>2. ASSUME wire' = Append(wire, Upload!Handed(i)), sequence' = Upload!NextSequence(i),
             unsent' = Upload!CountFrom(unsent)
      PROVE  UploadInv'
  <2>0. PICK len \in Nat : len = Len(wire)
    BY DEF UploadInv
  <2>1. /\ wire \in Seq(Upload!Requests) /\ Len(wire) = len /\ DOMAIN wire = 1 .. len
        /\ sequence = len /\ unsent = Cardinality(FailedUpTo(len)) /\ unsent \in Nat
    BY <2>0, FailedFinite DEF UploadInv
  <2>. DEFINE sent == Upload!Handed(i)
              calm == \A n \in DOMAIN wire : wire[n].fate \notin Upload!Pending
  <2>2. /\ sent \in Upload!Requests
        /\ sent.seq = len + 1 /\ sent.fate = "flying" /\ sent.unsent = unsent
        /\ sent.calm = calm
    <3>1. sent = [sdk |-> i, seq |-> len + 1, unsent |-> unsent, fate |-> "flying",
                  calm |-> calm]
      BY <2>1 DEF Upload!Handed, Upload!NextSequence
    <3>2. calm \in BOOLEAN
      OBVIOUS
    <3>. HIDE DEF sent, calm
    <3>. QED
      BY <2>1, <3>1, <3>2 DEF Upload!Requests, Upload!Fates
  <2>. HIDE DEF sent
  <2>3. /\ wire' \in Seq(Upload!Requests) /\ Len(wire') = len + 1
        /\ DOMAIN wire' = 1 .. len + 1
        /\ \A n \in 1 .. len : wire'[n] = wire[n]
        /\ wire'[len + 1] = sent
    <3>1. wire' = Append(wire, sent)
      BY <1>2 DEF sent
    <3>. QED
      BY <2>1, <2>2, <3>1
  <2>4. \A n \in 0 .. len : FailedUpTo(n)' = FailedUpTo(n)
    BY <2>1, <2>3 DEF FailedUpTo
  <2>5. FailedUpTo(len + 1)' = FailedUpTo(len)
    BY <2>1, <2>2, <2>3 DEF FailedUpTo
  <2>6. ASSUME NEW n \in DOMAIN wire'
        PROVE  wire'[n].seq = n /\ (wire'[n].calm => Accounted(n)')
    <3>1. CASE n \in 1 .. len
      <4>1. wire'[n] = wire[n] /\ wire[n].seq = n /\ (wire[n].calm => Accounted(n))
        BY <2>1, <2>3, <3>1 DEF UploadInv
      <4>2. FailedUpTo(n - 1)' = FailedUpTo(n - 1)
        BY <2>1, <2>4, <3>1
      <4>3. \A m \in 1 .. n - 1 : wire'[m] = wire[m]
        BY <2>1, <2>3, <3>1
      <4>. QED
        BY <4>1, <4>2, <4>3 DEF Accounted
    <3>2. CASE n = len + 1
      <4>1. n - 1 = len
        BY <2>1, <3>2
      <4>2. sent.calm => \A m \in 1 .. n - 1 : wire'[m].fate \notin Upload!Pending
        BY <2>1, <2>2, <2>3, <4>1 DEF calm
      <4>3. FailedUpTo(n - 1)' = FailedUpTo(len)
        BY <2>1, <2>4, <4>1
      <4>. QED
        BY <2>1, <2>2, <2>3, <3>2, <4>2, <4>3 DEF Accounted
    <3>. QED
      BY <2>1, <2>3, <3>1, <3>2
  <2>7. sequence' = Len(wire') /\ unsent' = Cardinality(FailedUpTo(Len(wire))')
    BY <1>2, <2>1, <2>3, <2>5 DEF Upload!NextSequence, Upload!CountFrom
  <2>. QED
    BY <2>3, <2>6, <2>7 DEF UploadInv
<1>. QED
  BY <1>1, <1>2 DEF Upload!Post

(* What becomes of a request that is under way.                             *)
LEMMA FateStep ==
    ASSUME UploadInv, NEW n \in DOMAIN wire, wire[n].fate \in Upload!Pending,
           NEW fate \in Upload!Fates, wire' = [wire EXCEPT ![n].fate = fate],
           UNCHANGED sequence,
           unsent' = IF fate \in {"lost", "unanswered"} THEN unsent + 1 ELSE unsent
    PROVE  UploadInv'
<1>0. PICK len \in Nat : len = Len(wire)
  BY DEF UploadInv
<1>. DEFINE request == [wire[n] EXCEPT !.fate = fate]
<1>1. /\ wire \in Seq(Upload!Requests) /\ Len(wire) = len /\ DOMAIN wire = 1 .. len
      /\ sequence = len /\ unsent = Cardinality(FailedUpTo(len)) /\ unsent \in Nat
      /\ wire[n] \in Upload!Requests /\ n \in 1 .. len
  BY <1>0, FailedFinite DEF UploadInv
<1>2. /\ request \in Upload!Requests /\ request.fate = fate
      /\ request.seq = wire[n].seq /\ request.calm = wire[n].calm
      /\ request.unsent = wire[n].unsent
  BY <1>1 DEF Upload!Requests
<1>3. wire' = [wire EXCEPT ![n] = request]
  BY <1>1
<1>. HIDE DEF request
<1>4. /\ wire' \in Seq(Upload!Requests) /\ Len(wire') = len /\ DOMAIN wire' = 1 .. len
      /\ wire'[n] = request
      /\ \A m \in (1 .. len) \ {n} : wire'[m] = wire[m]
  BY <1>1, <1>2, <1>3
<1>5. \A k \in 0 .. n - 1 : FailedUpTo(k)' = FailedUpTo(k)
  BY <1>1, <1>4 DEF FailedUpTo
<1>6. n \notin FailedUpTo(len)
  BY DEF FailedUpTo, Upload!Pending
<1>7. unsent' = Cardinality(FailedUpTo(len)')
  <2>1. CASE fate \in {"lost", "unanswered"}
    <3>1. FailedUpTo(len)' = FailedUpTo(len) \cup {n}
      BY <1>1, <1>2, <1>4, <2>1 DEF FailedUpTo
    <3>2. IsFiniteSet(FailedUpTo(len))
      BY <1>1, FailedFinite
    <3>. QED
      BY <1>1, <1>6, <2>1, <3>1, <3>2, FS_AddElement
  <2>2. CASE fate \notin {"lost", "unanswered"}
    <3>1. FailedUpTo(len)' = FailedUpTo(len)
      BY <1>1, <1>2, <1>4, <1>6, <2>2 DEF FailedUpTo
    <3>. QED
      BY <1>1, <2>2, <3>1
  <2>. QED
    BY <2>1, <2>2
<1>8. ASSUME NEW k \in DOMAIN wire'
      PROVE  wire'[k].seq = k /\ (wire'[k].calm => Accounted(k)')
  <2>1. wire[k].seq = k /\ (wire[k].calm => Accounted(k)) /\ k \in 1 .. len
    BY <1>1, <1>4 DEF UploadInv
  <2>2. wire'[k].seq = wire[k].seq /\ wire'[k].calm = wire[k].calm
        /\ wire'[k].unsent = wire[k].unsent
    BY <1>2, <1>4, <2>1
  <2>3. wire[k].calm => k <= n
    <3>. SUFFICES ASSUME wire[k].calm, n < k PROVE FALSE
      BY <1>1, <2>1
    <3>1. n \in 1 .. k - 1
      BY <1>1, <2>1
    <3>. QED
      BY <2>1, <3>1 DEF Accounted
  <2>4. ASSUME wire[k].calm PROVE Accounted(k)'
    <3>1. k - 1 \in 0 .. n - 1 /\ \A m \in 1 .. k - 1 : wire'[m] = wire[m]
      BY <1>1, <1>4, <2>1, <2>3, <2>4
    <3>2. FailedUpTo(k - 1)' = FailedUpTo(k - 1)
      BY <1>5, <3>1
    <3>. QED
      BY <2>1, <2>2, <2>4, <3>1, <3>2 DEF Accounted
  <2>. QED
    BY <2>1, <2>2, <2>4
<1>. QED
  BY <1>1, <1>4, <1>7, <1>8 DEF UploadInv

LEMMA NextUploadInv == UploadInv /\ [Upload!Next]_Upload!vars => UploadInv'
<1>. SUFFICES ASSUME UploadInv, [Upload!Next]_Upload!vars PROVE UploadInv'
  OBVIOUS
<1>1. CASE \E i \in Upload!SDKs, name \in {"apiCall"} : Upload!Post(i, name)
  BY <1>1, PostStep
<1>2. ASSUME NEW n \in DOMAIN wire, Upload!Take(n) \/ Upload!Answered(n) \/ Upload!Failed(n)
      PROVE  UploadInv'
  <2>1. CASE Upload!Take(n)
    BY <2>1, FateStep DEF Upload!Take, Upload!Pending, Upload!Fates
  <2>2. CASE Upload!Answered(n)
    BY <2>2, FateStep DEF Upload!Answered, Upload!Pending, Upload!Fates
  <2>3. CASE Upload!Failed(n)
    <3>. DEFINE fate == IF wire[n].fate = "flying" THEN "lost" ELSE "unanswered"
    <3>1. wire' = [wire EXCEPT ![n].fate = fate]
      BY <2>3 DEF Upload!Failed
    <3>2. fate \in Upload!Fates /\ fate \in {"lost", "unanswered"}
      BY DEF Upload!Fates
    <3>. HIDE DEF fate
    <3>. QED
      BY <2>3, <3>1, <3>2, FateStep DEF Upload!Failed, Upload!CountUnsent
  <2>. QED
    BY <1>2, <2>1, <2>2, <2>3
<1>3. CASE UNCHANGED Upload!vars
  BY <1>3 DEF Upload!vars, UploadInv, Accounted, FailedUpTo
<1>. QED
  BY <1>1, <1>2, <1>3 DEF Upload!Next

(* gw-logger.ts:257-271, ids.ts:64-78: no two events have a number, and     *)
(* the first event of a page that knows the fate of all others tells at     *)
(* least as many failures as gw-logger misses numbers.                      *)
THEOREM GapsAccounted == Upload!Spec => []GapsExplained
<1>1. Upload!Init => UploadInv
  <2>. SUFFICES ASSUME Upload!Init PROVE UploadInv
    OBVIOUS
  <2>1. wire = <<>> /\ Len(wire) = 0 /\ DOMAIN wire = {}
    BY DEF Upload!Init
  <2>2. FailedUpTo(0) = {}
    BY DEF FailedUpTo
  <2>. QED
    BY <2>1, <2>2, FS_EmptySet DEF Upload!Init, UploadInv
<1>2. UploadInv => GapsExplained
  <2>. SUFFICES ASSUME UploadInv PROVE Upload!GapsExplained
    BY DEF GapsExplained
  <2>. SUFFICES ASSUME NEW n \in DOMAIN wire
                PROVE  /\ \A m \in DOMAIN wire : wire[m].seq = wire[n].seq => m = n
                       /\ wire[n].calm =>
                              Cardinality(Upload!Missing(n)) <= wire[n].unsent
    BY UploadCounts DEF Upload!GapsExplained
  <2>1. DOMAIN wire = 1 .. Len(wire) /\ Len(wire) \in Nat
        /\ \A m \in DOMAIN wire : wire[m] \in Upload!Requests /\ wire[m].seq = m
    BY DEF UploadInv
  <2>2. ASSUME wire[n].calm
        PROVE  Cardinality(Upload!Missing(n)) <= wire[n].unsent
    <3>1. Accounted(n)
      BY <2>2 DEF UploadInv
    <3>2. Upload!Missing(n) \subseteq FailedUpTo(n - 1)
      <4>. SUFFICES ASSUME NEW s \in Upload!Missing(n) PROVE s \in FailedUpTo(n - 1)
        OBVIOUS
      <4>1. s \in 1 .. n - 1 /\ s \in DOMAIN wire /\ wire[s].seq = s
        BY <2>1 DEF Upload!Missing
      <4>2. wire[s].fate \notin Upload!Arrived /\ wire[s].fate \in Upload!Fates
        BY <2>1, <4>1 DEF Upload!Missing, Upload!Requests
      <4>3. wire[s].fate \notin Upload!Pending
        BY <3>1, <4>1 DEF Accounted
      <4>. QED
        BY <4>1, <4>2, <4>3 DEF FailedUpTo, Upload!Arrived, Upload!Fates, Upload!Pending
    <3>3. n - 1 \in Nat
      BY <2>1
    <3>4. Cardinality(Upload!Missing(n)) <= Cardinality(FailedUpTo(n - 1))
      BY <3>2, <3>3, FailedFinite, FS_Subset
    <3>. QED
      BY <3>1, <3>4 DEF Accounted
  <2>. QED
    BY <2>1, <2>2
<1>. QED
  BY <1>1, <1>2, NextUploadInv, PTL DEF Upload!Spec

-----------------------------------------------------------------------------
(* CardFormReports.  What was told is what happened, and the listener of    *)
(* pagehide is on exactly while a visit has no summary yet.                 *)

Progressed ==
    /\ form.started = history.touched
    /\ form.becameValid = history.complete
    /\ form.shown \subseteq Errors
    /\ Form!FormTold

Visited ==
    /\ frame = "loading" => ~loaded
    /\ frame = "loaded" => loaded
    /\ frame = "removed" => (loaded => summed)
    /\ hide => ~summed
    /\ frame # "removed" => (formPage = "here" => hide) /\ (formPage = "cached" => restore)
    /\ Form!OneSummaryPerVisit

FormInv == Form!TypeOK /\ Progressed /\ Visited

LEMMA InitFormInv == Form!Init => FormInv
<1>. SUFFICES ASSUME Form!Init PROVE FormInv
  OBVIOUS
<1>1. form \in Form!Forms /\ history \in Form!Histories
  BY DEF Form!Init, Form!Forms, Form!Histories, Form!Progress, Form!Untouched, Form!States
<1>2. Form!TypeOK
  BY <1>1 DEF Form!Init, Form!TypeOK
<1>3. Progressed /\ Visited
  BY DEF Form!Init, Progressed, Visited, Form!FormTold, Form!OneSummaryPerVisit
<1>. QED
  BY <1>2, <1>3 DEF FormInv

(* The three fields a message may change; the visits stay as they are.      *)
FormUnchanged == UNCHANGED <<formPage, frame, loaded, hide, restore, summed>>

LEMMA ProgressStep ==
    ASSUME FormInv, NEW next \in Form!Progress, Form!ReceiveProgress(next)
    PROVE  FormInv'
<1>. DEFINE touched == history.touched \/ next # Form!Untouched
            started == IF Form!Starts(next) THEN history.started + 1 ELSE history.started
            f == [form EXCEPT !.progress = next, !.started = @ \/ next # Form!Untouched]
            h == [history EXCEPT !.touched = touched, !.started = started]
<1>1. form \in Form!Forms /\ history \in Form!Histories
  BY DEF FormInv, Form!TypeOK
<1>2. form' = f /\ history' = h /\ FormUnchanged /\ UNCHANGED <<valid, integrator>>
  BY DEF Form!ReceiveProgress, FormUnchanged, f, h, touched, started
<1>3. touched \in BOOLEAN /\ started \in Nat
  BY <1>1 DEF Form!Histories
<1>4. started = IF touched THEN 1 ELSE 0
  BY DEF Form!Starts, FormInv, Progressed, Form!FormTold
<1>. HIDE DEF touched, started
<1>5. f \in Form!Forms /\ f.started = (form.started \/ next # Form!Untouched)
      /\ f.shown = form.shown /\ f.becameValid = form.becameValid
  BY <1>1 DEF Form!Forms
<1>6. h \in Form!Histories /\ h.touched = touched /\ h.started = started
      /\ h.complete = history.complete /\ h.completed = history.completed
      /\ h.untold = history.untold /\ h.repeated = history.repeated
      /\ h.visits = history.visits /\ h.summaries = history.summaries
  BY <1>1, <1>3 DEF Form!Histories
<1>. HIDE DEF f, h
<1>7. f.started = touched
  BY <1>5 DEF touched, FormInv, Progressed
<1>8. Form!TypeOK'
  BY <1>2, <1>5, <1>6 DEF FormInv, Form!TypeOK, FormUnchanged
<1>9. Progressed' /\ Visited'
  BY <1>2, <1>4, <1>5, <1>6, <1>7
  DEF FormInv, FormUnchanged, Progressed, Visited, Form!FormTold, Form!OneSummaryPerVisit
<1>. QED
  BY <1>8, <1>9 DEF FormInv

LEMMA ValidityStep ==
    ASSUME FormInv, Form!ReceiveValidity
    PROVE  FormInv'
<1>. DEFINE complete == history.complete \/ ~valid
            completed == IF ~valid /\ ~form.becameValid THEN history.completed + 1
                         ELSE history.completed
            f == [form EXCEPT !.becameValid = @ \/ ~valid]
            h == [history EXCEPT !.complete = complete, !.completed = completed]
<1>1. form \in Form!Forms /\ history \in Form!Histories /\ valid \in BOOLEAN
      /\ integrator = [errors |-> form.shown \cap Errors, valid |-> valid]
  BY DEF FormInv, Form!TypeOK, Progressed, Form!FormTold
<1>2. /\ form' = f /\ history' = h /\ FormUnchanged
      /\ valid' = ~valid
      /\ integrator' = [integrator EXCEPT !.valid = ~valid]
  BY DEF Form!ReceiveValidity, FormUnchanged, f, h, complete, completed
<1>3. complete \in BOOLEAN /\ completed \in Nat
  BY <1>1 DEF Form!Histories
<1>4. completed = IF complete THEN 1 ELSE 0
  BY DEF FormInv, Progressed, Form!FormTold
<1>. HIDE DEF complete, completed
<1>5. f \in Form!Forms /\ f.becameValid = (form.becameValid \/ ~valid)
      /\ f.shown = form.shown /\ f.started = form.started
  BY <1>1 DEF Form!Forms
<1>6. h \in Form!Histories /\ h.complete = complete /\ h.completed = completed
      /\ h.touched = history.touched /\ h.started = history.started
      /\ h.untold = history.untold /\ h.repeated = history.repeated
      /\ h.visits = history.visits /\ h.summaries = history.summaries
  BY <1>1, <1>3 DEF Form!Histories
<1>. HIDE DEF f, h
<1>7. f.becameValid = complete
  BY <1>5 DEF complete, FormInv, Progressed
<1>8. integrator' = [errors |-> form.shown \cap Errors, valid |-> ~valid]
  BY <1>1, <1>2
<1>9. Form!TypeOK'
  BY <1>1, <1>2, <1>5, <1>6, <1>8 DEF FormInv, Form!TypeOK, FormUnchanged
<1>10. Progressed' /\ Visited'
  BY <1>2, <1>4, <1>5, <1>6, <1>7, <1>8
  DEF FormInv, FormUnchanged, Progressed, Visited, Form!FormTold, Form!OneSummaryPerVisit
<1>. QED
  BY <1>9, <1>10 DEF FormInv

(* What the integrator has is what the form shows, so that what is new to   *)
(* one is new to the other.                                                 *)
LEMMA ErrorsStep ==
    ASSUME FormInv, NEW entries \in SUBSET (Errors \cup Junk), NEW trigger \in Form!Triggers,
           Form!ReceiveErrors(entries, trigger)
    PROVE  FormInv'
<1>. DEFINE errors == entries \cap Errors
            raised == errors \ integrator.errors
            tells == trigger = "submit" \/ errors \ form.shown # {}
            untold == IF tells THEN {} ELSE (history.untold \cup raised) \cap errors
            repeated == history.repeated \/ (tells /\ trigger # "submit" /\ raised = {})
            f == [form EXCEPT !.shown = errors]
            h == [history EXCEPT !.untold = untold, !.repeated = repeated]
<1>1. form \in Form!Forms /\ history \in Form!Histories /\ valid \in BOOLEAN
      /\ integrator = [errors |-> form.shown \cap Errors, valid |-> valid]
      /\ history.untold = {} /\ ~history.repeated /\ form.shown \subseteq Errors
  BY DEF FormInv, Form!TypeOK, Progressed, Form!FormTold
<1>2. /\ form' = f /\ history' = h /\ FormUnchanged
      /\ valid' = valid
      /\ integrator' = [integrator EXCEPT !.errors = errors]
  BY DEF Form!ReceiveErrors, Form!Projected, Form!NowShown, Form!Tells, FormUnchanged
<1>3. untold = {} /\ repeated = FALSE
  <2>1. raised = errors \ form.shown
    BY <1>1
  <2>. QED
    BY <1>1, <2>1
<1>. HIDE DEF untold, repeated
<1>4. f \in Form!Forms /\ f.shown = errors
      /\ f.becameValid = form.becameValid /\ f.started = form.started
  BY <1>1 DEF Form!Forms
<1>5. h \in Form!Histories /\ h.untold = {} /\ h.repeated = FALSE
      /\ h.complete = history.complete /\ h.completed = history.completed
      /\ h.touched = history.touched /\ h.started = history.started
      /\ h.visits = history.visits /\ h.summaries = history.summaries
  BY <1>1, <1>3 DEF Form!Histories
<1>. HIDE DEF f, h
<1>6. integrator' = [errors |-> errors, valid |-> valid] /\ errors \cap Errors = errors
  BY <1>1, <1>2
<1>. HIDE DEF errors
<1>7. Form!TypeOK'
  BY <1>1, <1>2, <1>4, <1>5, <1>6 DEF FormInv, Form!TypeOK, FormUnchanged
<1>8. Progressed' /\ Visited'
  BY <1>2, <1>4, <1>5, <1>6
  DEF FormInv, FormUnchanged, Progressed, Visited, Form!FormTold, Form!OneSummaryPerVisit
<1>. QED
  BY <1>7, <1>8 DEF FormInv

(* A visit ends and has its summary: what sendHeightSummary() looks at says *)
(* that the visit has had none.                                             *)
LEMMA Summarised ==
    ASSUME FormInv, Form!Summarise(frame = "loaded"), Form!SendsSummary <=> frame = "loaded"
    PROVE  /\ history' \in Form!Histories
           /\ history'.summaries = history'.visits
           /\ history'.touched = history.touched /\ history'.complete = history.complete
           /\ history'.started = history.started /\ history'.completed = history.completed
           /\ history'.untold = history.untold /\ history'.repeated = history.repeated
           /\ summed' \in BOOLEAN /\ summed' = (summed \/ Form!SendsSummary)
<1>. DEFINE summaries == IF Form!SendsSummary THEN history.summaries + 1
                         ELSE history.summaries
            visits == IF frame = "loaded" THEN history.visits + 1 ELSE history.visits
<1>1. history \in Form!Histories /\ history.summaries = history.visits /\ summed \in BOOLEAN
  BY DEF FormInv, Form!TypeOK, Visited, Form!OneSummaryPerVisit
<1>2. history' = [history EXCEPT !.summaries = summaries, !.visits = visits]
  BY DEF Form!Summarise
<1>3. summaries \in Nat /\ visits = summaries
  BY <1>1 DEF Form!Histories
<1>4. summed' \in BOOLEAN /\ summed' = (summed \/ Form!SendsSummary)
  BY <1>1 DEF Form!Summarise, Form!SendsSummary
<1>. HIDE DEF summaries, visits
<1>. QED
  BY <1>1, <1>2, <1>3, <1>4 DEF Form!Histories

LEMMA VisitStep ==
    ASSUME FormInv,
           Form!FrameLoads \/ Form!PageShow \/ Form!Cleanup
               \/ \E persisted \in BOOLEAN : Form!PageHide(persisted)
    PROVE  FormInv'
<1>1. /\ UNCHANGED <<valid, form, integrator>>
      /\ formPage \in {"here", "cached", "gone"} /\ frame \in {"loading", "loaded", "removed"}
      /\ history \in Form!Histories
      /\ history.summaries = history.visits
      /\ loaded \in BOOLEAN /\ hide \in BOOLEAN /\ restore \in BOOLEAN /\ summed \in BOOLEAN
  BY DEF FormInv, Form!TypeOK, Visited, Form!OneSummaryPerVisit, Form!FrameLoads,
     Form!PageShow, Form!Cleanup, Form!PageHide
<1>2. CASE Form!FrameLoads \/ Form!PageShow
  <2>1. history' = history
    BY <1>2 DEF Form!FrameLoads, Form!PageShow
  <2>2. Form!TypeOK'
    BY <1>1, <1>2, <2>1
    DEF FormInv, Form!TypeOK, Form!FrameLoads, Form!PageShow, Form!SecondVisit
  <2>3. Progressed'
    BY <1>1, <2>1 DEF FormInv, Progressed, Form!FormTold
  <2>4. Visited'
    <3>1. CASE Form!FrameLoads
      BY <2>1, <3>1 DEF FormInv, Visited, Form!OneSummaryPerVisit, Form!FrameLoads
    <3>2. CASE Form!PageShow
      BY <2>1, <3>2
      DEF FormInv, Visited, Form!OneSummaryPerVisit, Form!PageShow, Form!SecondVisit
    <3>. QED
      BY <1>2, <3>1, <3>2
  <2>. QED
    BY <2>2, <2>3, <2>4 DEF FormInv
<1>3. ASSUME Form!Cleanup \/ \E persisted \in BOOLEAN : Form!PageHide(persisted) /\ hide
      PROVE  FormInv'
  <2>1. Form!Summarise(frame = "loaded") /\ formPage = "here"
    BY <1>3 DEF Form!Cleanup, Form!PageHide
  <2>2. Form!SendsSummary <=> frame = "loaded"
    BY <1>1, <1>3, <2>1
    DEF Form!SendsSummary, FormInv, Visited, Form!OneSummaryPerVisit
  <2>3. /\ history' \in Form!Histories
        /\ history'.summaries = history'.visits
        /\ history'.touched = history.touched /\ history'.complete = history.complete
        /\ history'.started = history.started /\ history'.completed = history.completed
        /\ history'.untold = history.untold /\ history'.repeated = history.repeated
        /\ summed' \in BOOLEAN /\ summed' = (summed \/ Form!SendsSummary)
    BY <2>1, <2>2, Summarised
  <2>4. Progressed'
    BY <1>1, <2>3 DEF FormInv, Progressed, Form!FormTold
  <2>5. CASE Form!Cleanup
    <3>1. Form!TypeOK'
      BY <1>1, <2>3, <2>5 DEF FormInv, Form!TypeOK, Form!Cleanup, Form!Disarm
    <3>2. Visited'
      BY <1>1, <2>3, <2>5
      DEF Form!SendsSummary, Visited, Form!OneSummaryPerVisit, Form!Cleanup, Form!Disarm
    <3>. QED
      BY <2>4, <3>1, <3>2 DEF FormInv
  <2>6. ASSUME NEW persisted \in BOOLEAN, Form!PageHide(persisted), hide PROVE FormInv'
    <3>1. Form!TypeOK'
      BY <1>1, <2>3, <2>6 DEF FormInv, Form!TypeOK, Form!PageHide
    <3>2. Visited'
      BY <1>1, <2>3, <2>6
      DEF FormInv, Form!SendsSummary, Visited, Form!OneSummaryPerVisit, Form!PageHide
    <3>. QED
      BY <2>4, <3>1, <3>2 DEF FormInv
  <2>. QED
    BY <1>3, <2>5, <2>6
<1>4. ASSUME NEW persisted \in BOOLEAN, Form!PageHide(persisted), ~hide PROVE FormInv'
  <2>1. UNCHANGED <<summed, history>> /\ frame = "removed"
    BY <1>1, <1>4 DEF Form!PageHide, FormInv, Visited
  <2>2. Form!TypeOK' /\ Progressed'
    BY <1>1, <1>4, <2>1 DEF FormInv, Form!TypeOK, Form!PageHide, Progressed, Form!FormTold
  <2>3. Visited'
    BY <1>4, <2>1 DEF FormInv, Visited, Form!OneSummaryPerVisit, Form!PageHide
  <2>. QED
    BY <2>2, <2>3 DEF FormInv
<1>. QED
  BY <1>2, <1>3, <1>4

LEMMA NextFormInv == FormInv /\ [Form!Next]_Form!vars => FormInv'
<1>. SUFFICES ASSUME FormInv, [Form!Next]_Form!vars PROVE FormInv'
  OBVIOUS
<1>1. CASE \E next \in Form!Progress : Form!ReceiveProgress(next)
  BY <1>1, ProgressStep
<1>2. CASE Form!ReceiveValidity
  BY <1>2, ValidityStep
<1>3. CASE \E entries \in SUBSET (Errors \cup Junk), trigger \in Form!Triggers :
              Form!ReceiveErrors(entries, trigger)
  BY <1>3, ErrorsStep
<1>4. CASE Form!FrameLoads \/ Form!PageShow \/ Form!Cleanup
               \/ \E persisted \in BOOLEAN : Form!PageHide(persisted)
  BY <1>4, VisitStep
<1>5. CASE UNCHANGED Form!vars
  BY <1>5 DEF Form!vars, FormInv, Form!TypeOK, Progressed, Visited, Form!FormTold,
     Form!OneSummaryPerVisit
<1>. QED
  BY <1>1, <1>2, <1>3, <1>4, <1>5 DEF Form!Next

(* form-progress.ts:158-224, cards.module.ts:478-537: of a card form the    *)
(* progress is told once, whatever the frame repeats, and each visit has    *)
(* had one summary, in whichever of the ways it ended.                      *)
THEOREM FormTelemetry == Form!Spec => []FormReported
<1>1. FormInv => FormReported
  BY DEF FormInv, Progressed, Visited, FormReported
<1>. QED
  BY <1>1, InitFormInv, NextFormInv, PTL DEF Form!Spec

-----------------------------------------------------------------------------
(* HeightTracker.  The direction is that of the last change, and the        *)
(* reversals kept are the turns the last one still sees.                    *)

Messages == [height : Heights, at : Nat]

At(k) == path[k].at

Reversed(k) == [message |-> k, at |-> At(k)]

Kept == {k \in Height!Turns : \A j \in Height!Turns : At(j) - At(k) < Window}

Oscillates ==
    \E i, j, k \in Height!Turns : i < j /\ j < k /\ At(k) - At(i) < Window

PathInv ==
    /\ now \in Nat
    /\ path \in Seq(Messages)
    /\ \A k \in DOMAIN path : At(k) <= now /\ \A j \in 1 .. k : At(j) <= At(k)
    /\ last = IF path = <<>> THEN Height!NoHeight ELSE path[Len(path)].height

DirectionInv ==
    IF Height!Changes = {} THEN direction = 0
    ELSE \E c \in Height!Changes :
            /\ \A i \in Height!Changes : i <= c
            /\ direction = Height!Towards(path[c - 1].height, path[c].height)

ReversalInv ==
    /\ IsFiniteSet(times)
    /\ times = {Reversed(k) : k \in Kept}
    /\ oscillated \in BOOLEAN /\ (oscillated <=> Oscillates)
    /\ heightTold = IF oscillated THEN 1 ELSE 0

HeightInv == PathInv /\ DirectionInv /\ ReversalInv

LEMMA HeightCounts == \A S : Height!Cardinality(S) = Cardinality(S)
BY DEF Height!Cardinality, Cardinality

LEMMA ThreeOf ==
    ASSUME NEW S, IsFiniteSet(S)
    PROVE  Cardinality(S) >= 3 <=> \E x, y, z \in S : x # y /\ y # z /\ x # z
<1>1. ASSUME Cardinality(S) >= 3
      PROVE  \E x, y, z \in S : x # y /\ y # z /\ x # z
  <2>1. PICK x : x \in S
    BY <1>1, FS_EmptySet
  <2>2. IsFiniteSet(S \ {x}) /\ Cardinality(S \ {x}) = Cardinality(S) - 1
    BY <2>1, FS_RemoveElement
  <2>3. Cardinality(S) \in Nat
    BY FS_CardinalityType
  <2>4. PICK y : y \in S \ {x}
    BY <1>1, <2>2, <2>3, FS_EmptySet
  <2>5. /\ IsFiniteSet((S \ {x}) \ {y})
        /\ Cardinality((S \ {x}) \ {y}) = Cardinality(S \ {x}) - 1
    BY <2>2, <2>4, FS_RemoveElement
  <2>6. PICK z : z \in (S \ {x}) \ {y}
    BY <1>1, <2>2, <2>3, <2>5, FS_EmptySet
  <2>. QED
    BY <2>1, <2>4, <2>6
<1>2. ASSUME NEW x \in S, NEW y \in S, NEW z \in S, x # y, y # z, x # z
      PROVE  Cardinality(S) >= 3
  <2>. DEFINE T == S \ {x}
              U == T \ {y}
              V == U \ {z}
  <2>1. IsFiniteSet(T) /\ Cardinality(T) = Cardinality(S) - 1
    BY FS_RemoveElement
  <2>2. IsFiniteSet(U) /\ Cardinality(U) = Cardinality(T) - 1
    BY <1>2, <2>1, FS_RemoveElement
  <2>3. IsFiniteSet(V) /\ Cardinality(V) = Cardinality(U) - 1
    BY <1>2, <2>2, FS_RemoveElement
  <2>4. Cardinality(S) \in Nat /\ Cardinality(V) \in Nat
    BY <2>3, FS_CardinalityType
  <2>. HIDE DEF T, U, V
  <2>. QED
    BY <2>1, <2>2, <2>3, <2>4
<1>. QED
  BY <1>1, <1>2

(* A message goes on the path, and changes nothing of what was there.       *)
LEMMA PathOn ==
    ASSUME HeightInv, NEW height \in Heights, Height!Record(height),
           NEW len \in Nat, len = Len(path)
    PROVE  /\ DOMAIN path = 1 .. len /\ DOMAIN path' = 1 .. len + 1 /\ Len(path') = len + 1
           /\ path' \in Seq(Messages)
           /\ \A k \in 1 .. len : path'[k] = path[k]
           /\ path'[len + 1] = [height |-> height, at |-> now]
           /\ path = <<>> <=> len = 0
           /\ len > 0 => last = path[len].height
           /\ now' = now /\ last' = height
<1>1. /\ path \in Seq(Messages) /\ now \in Nat
      /\ last = IF path = <<>> THEN Height!NoHeight ELSE path[len].height
  BY DEF HeightInv, PathInv
<1>2. [height |-> height, at |-> now] \in Messages
  BY <1>1 DEF Messages
<1>3. path' = Append(path, [height |-> height, at |-> now]) /\ last' = height /\ now' = now
  BY DEF Height!Record
<1>. QED
  BY <1>1, <1>2, <1>3

LEMMA LastHeight ==
    ASSUME HeightInv, NEW len \in Nat, len = Len(path)
    PROVE  /\ len = 0 => last = Height!NoHeight
           /\ len > 0 => last = path[len].height /\ last \in Heights
           /\ Height!NoHeight \notin Heights
<1>1. /\ path \in Seq(Messages)
      /\ last = IF path = <<>> THEN Height!NoHeight ELSE path[len].height
  BY DEF HeightInv, PathInv
<1>2. Height!NoHeight \notin Heights
  BY HeightsAssumption DEF Height!NoHeight
<1>3. CASE len = 0
  <2>1. path \in Seq(Messages) /\ Len(path) = 0
    BY <1>1, <1>3
  <2>2. path = <<>>
    BY <2>1
  <2>. QED
    BY <1>1, <1>2, <1>3, <2>2
<1>4. CASE len > 0
  <2>1. len \in 1 .. Len(path) /\ path # <<>>
    BY <1>4
  <2>2. path[len] \in Messages
    BY <1>1, <2>1
  <2>3. path[len].height \in Heights
    BY <2>2 DEF Messages
  <2>. QED
    BY <1>1, <1>2, <1>4, <2>1, <2>3
<1>. QED
  BY <1>3, <1>4

LEMMA PathStep ==
    ASSUME HeightInv, NEW height \in Heights, Height!Record(height)
    PROVE  PathInv'
<1>1. PICK len \in Nat : len = Len(path)
  BY DEF HeightInv, PathInv
<1>2. /\ DOMAIN path = 1 .. len /\ DOMAIN path' = 1 .. len + 1 /\ Len(path') = len + 1
      /\ path' \in Seq(Messages)
      /\ \A k \in 1 .. len : path'[k] = path[k]
      /\ path'[len + 1] = [height |-> height, at |-> now]
      /\ now' = now /\ last' = height
  BY <1>1, PathOn
<1>3. ASSUME NEW k \in DOMAIN path'
      PROVE  At(k)' <= now' /\ \A j \in 1 .. k : At(j)' <= At(k)'
  <2>1. CASE k \in 1 .. len
    BY <1>2, <2>1 DEF HeightInv, PathInv, At
  <2>2. CASE k = len + 1
    <3>1. At(k)' = now
      BY <1>2, <2>2 DEF At
    <3>2. ASSUME NEW j \in 1 .. k PROVE At(j)' <= now
      <4>1. CASE j \in 1 .. len
        BY <1>2, <4>1 DEF HeightInv, PathInv, At
      <4>2. CASE j = k
        BY <3>1, <4>2 DEF HeightInv, PathInv
      <4>. QED
        BY <2>2, <4>1, <4>2
    <3>. QED
      BY <1>2, <3>1, <3>2 DEF HeightInv, PathInv
  <2>. QED
    BY <1>2, <2>1, <2>2
<1>4. now' \in Nat /\ last' = path'[Len(path')].height /\ path' # <<>>
  BY <1>2 DEF HeightInv, PathInv
<1>. QED
  BY <1>2, <1>3, <1>4 DEF PathInv

(* It may be a change, and of the changes a turn.                           *)
LEMMA ChangesOn ==
    ASSUME HeightInv, NEW height \in Heights, Height!Record(height),
           NEW len \in Nat, len = Len(path)
    PROVE  /\ Height!Changes \subseteq 2 .. len
           /\ Height!Changes' =
                  IF len > 0 /\ height # last THEN Height!Changes \cup {len + 1}
                  ELSE Height!Changes
<1>1. /\ DOMAIN path = 1 .. len /\ DOMAIN path' = 1 .. len + 1 /\ Len(path') = len + 1
      /\ \A k \in 1 .. len : path'[k] = path[k]
      /\ path'[len + 1] = [height |-> height, at |-> now]
      /\ len > 0 => last = path[len].height
  BY PathOn
<1>2. \A k \in 2 .. len : k \in Height!Changes' <=> k \in Height!Changes
  <2>. SUFFICES ASSUME NEW k \in 2 .. len
                PROVE  k \in Height!Changes' <=> k \in Height!Changes
    OBVIOUS
  <2>1. path'[k] = path[k] /\ path'[k - 1] = path[k - 1]
    BY <1>1
  <2>. QED
    BY <1>1, <2>1 DEF Height!Changes
<1>3. len + 1 \in Height!Changes' <=> len > 0 /\ height # last
  <2>1. len > 0 => path'[len + 1 - 1] = path[len]
    BY <1>1
  <2>. QED
    BY <1>1, <2>1 DEF Height!Changes
<1>4. Height!Changes \subseteq 2 .. len /\ Height!Changes' \subseteq 2 .. len + 1
  BY <1>1 DEF Height!Changes
<1>5. CASE len > 0 /\ height # last
  <2>1. Height!Changes' \subseteq Height!Changes \cup {len + 1}
    BY <1>2, <1>4
  <2>2. Height!Changes \cup {len + 1} \subseteq Height!Changes'
    BY <1>2, <1>3, <1>4, <1>5
  <2>. QED
    BY <1>4, <1>5, <2>1, <2>2
<1>6. CASE ~(len > 0 /\ height # last)
  <2>1. Height!Changes' \subseteq Height!Changes
    BY <1>2, <1>3, <1>4, <1>6
  <2>2. Height!Changes \subseteq Height!Changes'
    BY <1>2, <1>4
  <2>. QED
    BY <1>4, <1>6, <2>1, <2>2
<1>. QED
  BY <1>5, <1>6

LEMMA TowardsOn ==
    ASSUME HeightInv, NEW height \in Heights, Height!Record(height),
           NEW len \in Nat, len = Len(path), NEW c \in 2 .. len
    PROVE  Height!Towards(path[c - 1].height, path[c].height)'
               = Height!Towards(path[c - 1].height, path[c].height)
<1>1. \A k \in 1 .. len : path'[k] = path[k]
  BY PathOn
<1>2. path'[c] = path[c] /\ path'[c - 1] = path[c - 1]
  BY <1>1
<1>. QED
  BY <1>2 DEF Height!Towards

LEMMA TurnsOn ==
    ASSUME HeightInv, NEW height \in Heights, Height!Record(height),
           NEW len \in Nat, len = Len(path)
    PROVE  /\ Height!Turns \subseteq 2 .. len
           /\ Height!Turns' =
                  IF last \notin {Height!NoHeight, height} /\ Height!Reverses(height)
                  THEN Height!Turns \cup {len + 1} ELSE Height!Turns
<1>. DEFINE news == len > 0 /\ height # last
            Turn(j, k) == Height!Towards(path[j - 1].height, path[j].height)
                              # Height!Towards(path[k - 1].height, path[k].height)
<1>1. /\ Height!Changes \subseteq 2 .. len
      /\ Height!Changes' =
             IF news THEN Height!Changes \cup {len + 1} ELSE Height!Changes
  BY ChangesOn
<1>2. news <=> last \notin {Height!NoHeight, height}
  BY LastHeight
<1>3. ASSUME NEW k \in Height!Changes
      PROVE  k \in Height!Turns' <=> k \in Height!Turns
  <2>1. k \in 2 .. len /\ k \in Height!Changes'
    BY <1>1, <1>3
  <2>2. \A j \in Height!Changes : Turn(j, k)' <=> Turn(j, k)
    BY <1>1, <2>1, TowardsOn
  <2>3. \A j \in Height!Changes :
            (\A i \in Height!Changes' : i <= j \/ k <= i)
                <=> \A i \in Height!Changes : i <= j \/ k <= i
    BY <1>1, <2>1
  <2>4. \A j \in Height!Changes' : j < k => j \in Height!Changes
    BY <1>1, <2>1
  <2>. QED
    BY <1>1, <1>3, <2>1, <2>2, <2>3, <2>4 DEF Height!Turns
<1>4. ASSUME news
      PROVE  len + 1 \in Height!Turns' <=> Height!Reverses(height)
  <2>1. len + 1 \in Height!Changes'
    BY <1>1, <1>4
  <2>2. CASE Height!Changes = {}
    <3>1. direction = 0
      BY <2>2 DEF HeightInv, DirectionInv
    <3>2. Height!Changes' = {len + 1}
      BY <1>1, <1>4, <2>2
    <3>. QED
      BY <3>1, <3>2 DEF Height!Turns, Height!Reverses
  <2>3. ASSUME NEW c \in Height!Changes, \A i \in Height!Changes : i <= c,
               direction = Height!Towards(path[c - 1].height, path[c].height)
        PROVE  len + 1 \in Height!Turns' <=> Height!Reverses(height)
    <3>1. c \in 2 .. len
      BY <1>1
    <3>2. /\ Height!Towards(path[c - 1].height, path[c].height)' = direction
          /\ direction # 0
      BY <2>3, <3>1, TowardsOn DEF Height!Towards
    <3>3. Height!Towards(path[len + 1 - 1].height, path[len + 1].height)'
              = Height!Towards(last, height)
      <4>1. path'[len + 1] = [height |-> height, at |-> now] /\ path'[len + 1 - 1] = path[len]
            /\ last = path[len].height
        BY <1>4, PathOn
      <4>. QED
        BY <4>1 DEF Height!Towards
    <3>4. Height!Reverses(height) <=> Turn(c, len + 1)'
      BY <3>2, <3>3 DEF Height!Reverses
    <3>. HIDE DEF Turn
    <3>5. ASSUME NEW j \in Height!Changes', j < len + 1,
                 \A i \in Height!Changes' : i <= j \/ len + 1 <= i
          PROVE  j = c
      BY <1>1, <2>3, <3>1, <3>5
    <3>6. /\ c \in Height!Changes' /\ c < len + 1
          /\ \A i \in Height!Changes' : i <= c \/ len + 1 <= i
      BY <1>1, <2>3, <3>1
    <3>7. len + 1 \in Height!Turns' <=>
              \E j \in Height!Changes' : /\ j < len + 1
                                         /\ \A i \in Height!Changes' : i <= j \/ len + 1 <= i
                                         /\ Turn(j, len + 1)'
      BY <2>1 DEF Height!Turns, Turn
    <3>. QED
      BY <3>4, <3>5, <3>6, <3>7
  <2>. QED
    BY <2>2, <2>3 DEF HeightInv, DirectionInv
<1>5. Height!Turns \subseteq Height!Changes /\ Height!Turns' \subseteq Height!Changes'
  BY DEF Height!Turns
<1>6. len + 1 \notin Height!Changes
  BY <1>1
<1>. HIDE DEF news
<1>7. CASE news /\ Height!Reverses(height)
  <2>1. Height!Turns' = Height!Turns \cup {len + 1}
    BY <1>1, <1>3, <1>4, <1>5, <1>7
  <2>. QED
    BY <1>1, <1>2, <1>5, <1>7, <2>1
<1>8. CASE ~(news /\ Height!Reverses(height))
  <2>1. Height!Turns' = Height!Turns
    BY <1>1, <1>3, <1>4, <1>5, <1>8
  <2>. QED
    BY <1>1, <1>2, <1>5, <1>8, <2>1
<1>. QED
  BY <1>7, <1>8

LEMMA DirectionStep ==
    ASSUME HeightInv, NEW height \in Heights, Height!Record(height)
    PROVE  DirectionInv'
<1>1. PICK len \in Nat : len = Len(path)
  BY DEF HeightInv, PathInv
<1>2. /\ Height!Changes \subseteq 2 .. len
      /\ Height!Changes' =
             IF len > 0 /\ height # last THEN Height!Changes \cup {len + 1}
             ELSE Height!Changes
  BY <1>1, ChangesOn
<1>3. (last = Height!NoHeight) <=> len = 0
  BY <1>1, LastHeight
<1>4. direction' = IF len = 0 THEN 0
                   ELSE IF last = height THEN direction
                   ELSE Height!Towards(last, height)
  BY <1>3 DEF Height!Record, Height!DirectionKept
<1>5. CASE len > 0 /\ height # last
  <2>1. Height!Towards(path[len + 1 - 1].height, path[len + 1].height)'
            = Height!Towards(last, height)
    <3>1. path'[len + 1] = [height |-> height, at |-> now] /\ path'[len + 1 - 1] = path[len]
          /\ last = path[len].height
      BY <1>1, <1>5, PathOn
    <3>. QED
      BY <3>1 DEF Height!Towards
  <2>2. len + 1 \in Height!Changes' /\ \A i \in Height!Changes' : i <= len + 1
    BY <1>2, <1>5
  <2>3. direction' = Height!Towards(path[len + 1 - 1].height, path[len + 1].height)'
    BY <1>4, <1>5, <2>1
  <2>. QED
    BY <2>2, <2>3 DEF DirectionInv
<1>6. CASE ~(len > 0 /\ height # last)
  <2>1. Height!Changes' = Height!Changes
    BY <1>2, <1>6
  <2>2. CASE len = 0
    BY <1>2, <1>4, <2>1, <2>2 DEF DirectionInv
  <2>3. CASE len > 0
    <3>1. direction' = direction
      BY <1>4, <1>6, <2>3
    <3>2. \A c \in Height!Changes :
              Height!Towards(path[c - 1].height, path[c].height)'
                  = Height!Towards(path[c - 1].height, path[c].height)
      BY <1>1, <1>2, TowardsOn
    <3>. QED
      BY <2>1, <3>1, <3>2 DEF HeightInv, DirectionInv
  <2>. QED
    BY <2>2, <2>3
<1>. QED
  BY <1>5, <1>6

(* The turns that there were, and their times, are as they were.            *)
LEMMA AtOn ==
    ASSUME HeightInv, NEW height \in Heights, Height!Record(height),
           NEW len \in Nat, len = Len(path)
    PROVE  /\ \A k \in Height!Turns : /\ k \in 2 .. len /\ At(k)' = At(k) /\ At(k) \in Nat
                                      /\ Reversed(k)' = Reversed(k) /\ At(k) <= now
                                      /\ \A j \in Height!Turns : j <= k => At(j) <= At(k)
           /\ At(len + 1)' = now
           /\ Reversed(len + 1)' = [message |-> len + 1, at |-> now]
<1>1. /\ Height!Turns \subseteq 2 .. len
      /\ \A k \in 1 .. len : path'[k] = path[k]
      /\ path'[len + 1] = [height |-> height, at |-> now]
      /\ DOMAIN path = 1 .. len
  BY TurnsOn, PathOn
<1>2. ASSUME NEW k \in Height!Turns
      PROVE  /\ k \in 2 .. len /\ At(k)' = At(k) /\ At(k) \in Nat
             /\ Reversed(k)' = Reversed(k) /\ At(k) <= now
             /\ \A j \in Height!Turns : j <= k => At(j) <= At(k)
  <2>1. k \in 2 .. len /\ k \in 1 .. len /\ k \in DOMAIN path
    BY <1>1
  <2>2. path[k] \in Messages
    BY <2>1 DEF HeightInv, PathInv
  <2>3. At(k)' = At(k) /\ At(k) \in Nat
    BY <1>1, <2>1, <2>2 DEF At, Messages
  <2>4. At(k) <= now /\ \A j \in 1 .. k : At(j) <= At(k)
    BY <2>1 DEF HeightInv, PathInv
  <2>5. ASSUME NEW j \in Height!Turns, j <= k PROVE At(j) <= At(k)
    <3>1. j \in 1 .. k
      BY <1>1, <2>1, <2>5
    <3>. QED
      BY <2>4, <3>1
  <2>6. Reversed(k)' = Reversed(k)
    BY <2>3 DEF Reversed
  <2>. QED
    BY <2>1, <2>3, <2>4, <2>5, <2>6
<1>3. At(len + 1)' = now
  BY <1>1 DEF At
<1>. QED
  BY <1>2, <1>3 DEF Reversed

(* A turn now: of the reversals kept, those it still sees stay with it; and *)
(* three of them are an oscillation that ends in it.                        *)
LEMMA TurnStep ==
    ASSUME HeightInv, NEW height \in Heights, Height!Record(height),
           last \notin {Height!NoHeight, height}, Height!Reverses(height)
    PROVE  ReversalInv'
<1>1. PICK len \in Nat : len = Len(path)
  BY DEF HeightInv, PathInv
<1>. DEFINE n == len + 1
            Sees(k) == now - At(k) < Window
            seen == {k \in Kept : Sees(k)}
            turn == [message |-> n, at |-> now]
            recent == {r \in times : Height!Recent(r.at)} \cup {turn}
<1>2. /\ Height!Turns \subseteq 2 .. len /\ n \notin Height!Turns
      /\ Height!Turns' = Height!Turns \cup {n}
  <2>1. Height!Turns \subseteq 2 .. len /\ Height!Turns' = Height!Turns \cup {len + 1}
    BY <1>1, TurnsOn
  <2>. QED
    BY <2>1
<1>3. /\ \A k \in Height!Turns : /\ At(k)' = At(k) /\ At(k) \in Nat
                                 /\ Reversed(k)' = Reversed(k) /\ At(k) <= now
                                 /\ \A j \in Height!Turns : j <= k => At(j) <= At(k)
      /\ At(n)' = now
      /\ Reversed(n)' = turn
  BY <1>1, AtOn
<1>4. /\ now \in Nat /\ Window \in Nat \ {0}
      /\ IsFiniteSet(times) /\ times = {Reversed(k) : k \in Kept}
      /\ oscillated \in BOOLEAN /\ (oscillated <=> Oscillates)
      /\ heightTold = IF oscillated THEN 1 ELSE 0
  BY HeightsAssumption DEF HeightInv, PathInv, ReversalInv
<1>5. \A k \in Height!Turns : Sees(k) => k \in Kept
  <2>. SUFFICES ASSUME NEW k \in Height!Turns, Sees(k), NEW j \in Height!Turns
                PROVE  At(j) - At(k) < Window
    BY DEF Kept
  <2>1. At(j) <= now /\ At(j) \in Nat /\ At(k) \in Nat
    BY <1>3
  <2>. QED
    BY <1>4, <2>1
<1>6. Kept' = seen \cup {n}
  <2>1. ASSUME NEW k \in Height!Turns
        PROVE  k \in Kept' <=> k \in seen
    <3>1. k \in Kept' <=> (\A j \in Height!Turns : At(j) - At(k) < Window) /\ Sees(k)
      BY <1>2, <1>3 DEF Kept
    <3>. QED
      BY <3>1 DEF Kept
  <2>2. n \in Kept'
    <3>. SUFFICES ASSUME NEW j \in Height!Turns' PROVE At(j)' - At(n)' < Window
      BY <1>2 DEF Kept
    <3>1. At(j)' <= now /\ At(j)' \in Nat
      BY <1>2, <1>3, <1>4
    <3>. QED
      BY <1>3, <1>4, <3>1
  <2>3. Kept' \subseteq Height!Turns' /\ seen \subseteq Height!Turns
    BY DEF Kept
  <2>. QED
    BY <1>2, <2>1, <2>2, <2>3
<1>7. recent = {Reversed(k) : k \in seen} \cup {turn}
  BY <1>4 DEF Height!Recent, Reversed
<1>8. times' = recent /\ IsFiniteSet(recent)
  <2>1. {r \in times : Height!Recent(r.at)} \subseteq times
    OBVIOUS
  <2>2. IsFiniteSet({r \in times : Height!Recent(r.at)})
    BY <1>4, <2>1, FS_Subset
  <2>3. times' = recent
    BY <1>1 DEF Height!Record, Height!Reversal
  <2>. QED
    BY <2>2, <2>3, FS_AddElement
<1>9. times' = {Reversed(k) : k \in Kept}'
  <2>1. \A k \in seen : Reversed(k)' = Reversed(k)
    BY <1>3 DEF Kept
  <2>. HIDE DEF seen, turn, recent, n
  <2>. QED
    BY <1>3, <1>6, <1>7, <1>8, <2>1
<1>10. Cardinality(recent) >= 3 <=> \E i, j \in Height!Turns : i < j /\ Sees(i)
  <2>1. ASSUME Cardinality(recent) >= 3
        PROVE  \E i, j \in Height!Turns : i < j /\ Sees(i)
    <3>1. PICK x, y, z \in recent : x # y /\ y # z /\ x # z
      BY <1>8, <2>1, ThreeOf
    <3>2. PICK i, j \in seen : i # j
      BY <1>7, <3>1
    <3>3. i \in Height!Turns /\ j \in Height!Turns /\ Sees(i) /\ Sees(j)
      BY <3>2 DEF Kept
    <3>4. i \in Nat /\ j \in Nat
      BY <1>2, <3>3
    <3>. QED
      BY <3>2, <3>3, <3>4
  <2>2. ASSUME NEW i \in Height!Turns, NEW j \in Height!Turns, i < j, Sees(i)
        PROVE  Cardinality(recent) >= 3
    <3>1. i \in Nat /\ j \in Nat
      BY <1>2
    <3>2. Sees(j)
      <4>1. At(i) <= At(j) /\ At(i) \in Nat /\ At(j) \in Nat
        BY <1>3, <2>2, <3>1
      <4>. QED
        BY <1>4, <2>2, <4>1
    <3>3. i \in seen /\ j \in seen
      BY <1>5, <2>2, <3>2
    <3>4. Reversed(i) \in recent /\ Reversed(j) \in recent /\ turn \in recent
      BY <1>7, <3>3
    <3>5. Reversed(i) # Reversed(j) /\ Reversed(i) # turn /\ Reversed(j) # turn
      BY <1>2, <2>2, <3>1 DEF Reversed
    <3>. HIDE DEF recent, turn
    <3>. QED
      BY <1>8, <3>4, <3>5, ThreeOf
  <2>. QED
    BY <2>1, <2>2
<1>11. Oscillates' <=> Oscillates \/ \E i, j \in Height!Turns : i < j /\ Sees(i)
  <2>1. ASSUME Oscillates PROVE Oscillates'
    BY <1>2, <1>3, <2>1 DEF Oscillates
  <2>2. ASSUME NEW i \in Height!Turns, NEW j \in Height!Turns, i < j, Sees(i)
        PROVE  Oscillates'
    <3>1. j < n
      BY <1>2
    <3>2. At(n)' - At(i)' < Window
      BY <1>3, <2>2
    <3>. QED
      BY <1>2, <2>2, <3>1, <3>2 DEF Oscillates
  <2>3. ASSUME NEW i \in Height!Turns', NEW j \in Height!Turns', NEW k \in Height!Turns',
               i < j, j < k, At(k)' - At(i)' < Window
        PROVE  Oscillates \/ \E l, m \in Height!Turns : l < m /\ Sees(l)
    <3>1. \A l \in Height!Turns' : l \in Nat /\ (l = n \/ (l < n /\ l \in Height!Turns))
      BY <1>2
    <3>2. i \in Height!Turns /\ j \in Height!Turns
      BY <2>3, <3>1
    <3>3. CASE k = n
      BY <1>3, <2>3, <3>2, <3>3
    <3>4. CASE k \in Height!Turns
      BY <1>3, <2>3, <3>2, <3>4 DEF Oscillates
    <3>. QED
      BY <3>1, <3>3, <3>4
  <2>. QED
    BY <2>1, <2>2, <2>3 DEF Oscillates
<1>12. /\ oscillated' = (oscillated \/ Cardinality(recent) >= 3)
       /\ heightTold' = IF ~oscillated /\ Cardinality(recent) >= 3 THEN heightTold + 1
                        ELSE heightTold
  BY <1>1, HeightCounts DEF Height!Record, Height!Reversal, Height!OscillationReversals
<1>13. Oscillates' <=> Oscillates \/ Cardinality(recent) >= 3
  BY <1>10, <1>11
<1>. HIDE DEF recent
<1>14. oscillated' \in BOOLEAN /\ (oscillated' <=> Oscillates')
  BY <1>4, <1>12, <1>13
<1>15. heightTold' = IF oscillated' THEN 1 ELSE 0
  <2>. DEFINE crosses == Cardinality(recent) >= 3
  <2>1. oscillated' = (oscillated \/ crosses)
        /\ heightTold' = IF ~oscillated /\ crosses THEN heightTold + 1 ELSE heightTold
    BY <1>12
  <2>. HIDE DEF crosses
  <2>2. CASE oscillated
    BY <1>4, <2>1, <2>2
  <2>3. CASE ~oscillated /\ crosses
    <3>1. heightTold = 0
      BY <1>4, <2>3
    <3>2. heightTold' = heightTold + 1
      BY <2>1, <2>3
    <3>3. oscillated'
      BY <2>1, <2>3
    <3>. QED
      BY <3>1, <3>2, <3>3
  <2>4. CASE ~oscillated /\ ~crosses
    BY <1>4, <2>1, <2>4
  <2>. QED
    BY <2>2, <2>3, <2>4
<1>. QED
  BY <1>8, <1>9, <1>14, <1>15 DEF ReversalInv

LEMMA ReversalStep ==
    ASSUME HeightInv, NEW height \in Heights, Height!Record(height)
    PROVE  ReversalInv'
<1>1. CASE last \notin {Height!NoHeight, height} /\ Height!Reverses(height)
  BY <1>1, TurnStep
<1>2. CASE ~(last \notin {Height!NoHeight, height} /\ Height!Reverses(height))
  <2>1. PICK len \in Nat : len = Len(path)
    BY DEF HeightInv, PathInv
  <2>2. Height!Turns' = Height!Turns
    BY <1>2, <2>1, TurnsOn
  <2>3. \A k \in Height!Turns : At(k)' = At(k) /\ Reversed(k)' = Reversed(k)
    BY <2>1, AtOn
  <2>4. UNCHANGED <<times, oscillated, heightTold>>
    BY <1>2 DEF Height!Record
  <2>5. Kept' = Kept /\ (Oscillates' <=> Oscillates)
    BY <2>2, <2>3 DEF Kept, Oscillates
  <2>6. {Reversed(k) : k \in Kept}' = {Reversed(k) : k \in Kept}
    BY <2>3, <2>5 DEF Kept
  <2>. QED
    BY <2>4, <2>5, <2>6 DEF HeightInv, ReversalInv
<1>. QED
  BY <1>1, <1>2

LEMMA NextHeightInv == HeightInv /\ [Height!Next]_Height!vars => HeightInv'
<1>. SUFFICES ASSUME HeightInv, [Height!Next]_Height!vars PROVE HeightInv'
  OBVIOUS
<1>1. CASE \E height \in Heights : Height!Record(height)
  BY <1>1, PathStep, DirectionStep, ReversalStep DEF HeightInv
<1>2. CASE Height!Tick \/ UNCHANGED Height!vars
  <2>1. now' \in Nat /\ now <= now' /\ now \in Nat
        /\ UNCHANGED <<last, direction, times, oscillated, heightTold, path>>
    BY <1>2 DEF Height!Tick, Height!vars, HeightInv, PathInv
  <2>2. \A k \in DOMAIN path : At(k) \in Nat
    <3>. SUFFICES ASSUME NEW k \in DOMAIN path PROVE At(k) \in Nat
      OBVIOUS
    <3>1. path[k] \in Messages
      BY DEF HeightInv, PathInv
    <3>. QED
      BY <3>1 DEF Messages, At
  <2>3. PathInv'
    BY <2>1, <2>2 DEF HeightInv, PathInv, At
  <2>4. Height!Changes' = Height!Changes /\ Height!Turns' = Height!Turns
    BY <2>1 DEF Height!Changes, Height!Turns, Height!Towards
  <2>5. DirectionInv' /\ ReversalInv'
    BY <2>1, <2>4
    DEF HeightInv, DirectionInv, ReversalInv, Kept, Oscillates, Reversed, At, Height!Towards
  <2>. QED
    BY <2>3, <2>5 DEF HeightInv
<1>. QED
  BY <1>1, <1>2 DEF Height!Next

(* height-tracker.ts:16-21: the oscillation is told once, by the message    *)
(* that makes it three turns within the window.                             *)
THEOREM OscillationsTold == Height!Spec => []OscillationTold
<1>1. Height!Init => HeightInv
  <2>. SUFFICES ASSUME Height!Init PROVE HeightInv
    OBVIOUS
  <2>1. path = <<>> /\ Len(path) = 0 /\ DOMAIN path = {}
    BY DEF Height!Init
  <2>2. Height!Changes = {}
    BY <2>1 DEF Height!Changes
  <2>3. Height!Turns = {} /\ Kept = {}
    BY <2>2 DEF Height!Turns, Kept
  <2>4. PathInv
    BY <2>1 DEF Height!Init, PathInv, Messages
  <2>5. DirectionInv /\ ReversalInv
    BY <2>2, <2>3, FS_EmptySet DEF Height!Init, DirectionInv, ReversalInv, Oscillates
  <2>. QED
    BY <2>4, <2>5 DEF HeightInv
<1>2. HeightInv => OscillationTold
  BY DEF HeightInv, ReversalInv, Oscillates, At, OscillationTold, Height!OscillationTold
<1>. QED
  BY <1>1, <1>2, NextHeightInv, PTL DEF Height!Spec

-----------------------------------------------------------------------------
(* Sanitize.  Counting, and functions that are defined step by step.        *)

(* A set of naturals that has 0 and, with every number below k, the next    *)
(* one, has k: otherwise adding one would map what it has below k one to    *)
(* one into itself, and yet not onto 0.                                     *)
LEMMA CountingReaches ==
    ASSUME NEW k \in Nat, NEW T, T \subseteq Nat, 0 \in T,
           \A n \in T : n < k => n + 1 \in T
    PROVE  k \in T
<1> SUFFICES ASSUME k \notin T PROVE FALSE
  OBVIOUS
<1> DEFINE B == {n \in T : n < k}
<1>1. 0 \in B /\ B \in SUBSET Nat /\ \A n \in B : n <= k
  <2>1. 0 \in B
    OBVIOUS
  <2>2. B \subseteq Nat
    OBVIOUS
  <2>3. \A n \in B : n <= k
    OBVIOUS
  <2> HIDE DEF B
  <2> QED BY <2>1, <2>2, <2>3
<1>2. IsFiniteSet(B)
  <2> HIDE DEF B
  <2> QED BY <1>1, FS_BoundedSetOfNaturals
<1>3. \A n \in B : n + 1 \in B
  OBVIOUS
<1> HIDE DEF B
<1> DEFINE next == [n \in B |-> n + 1]
<1>4. next \in Injection(B, B)
  BY <1>1, <1>3 DEF Injection, IsInjective
<1>5. next \in Surjection(B, B)
  BY <1>2, <1>4, FS_Injection
<1>6. PICK n \in B : next[n] = 0
  BY <1>1, <1>5 DEF Surjection
<1> QED BY <1>1, <1>6

(* So a set of naturals has a least, and one that is bounded a greatest.    *)
LEMMA LeastExists ==
    ASSUME NEW S, S \subseteq Nat, S # {}
    PROVE  \E m \in S : \A n \in S : m <= n
<1> SUFFICES ASSUME \A m \in S : \E n \in S : n < m PROVE FALSE
  OBVIOUS
<1> DEFINE T == {n \in Nat : \A s \in S : n < s}
<1>1. PICK k \in S : TRUE
  OBVIOUS
<1>2. 0 \in T
  OBVIOUS
<1>3. ASSUME NEW n \in T PROVE n + 1 \in T
  <2>1. n + 1 \notin S
    OBVIOUS
  <2> QED BY <1>3, <2>1
<1>4. k \in T
  <2> HIDE DEF T
  <2>1. T \subseteq Nat
    BY DEF T
  <2> QED BY <1>1, <1>2, <1>3, <2>1, CountingReaches
<1> QED BY <1>1, <1>4

(* A bounded set of naturals has a greatest.                                *)
LEMMA GreatestExists ==
    ASSUME NEW S, S \subseteq Nat, S # {}, NEW k \in Nat, \A s \in S : s <= k
    PROVE  \E m \in S : \A n \in S : n <= m
<1> DEFINE T == {n \in Nat : \A s \in S : s <= n}
<1>1. PICK m \in T : \A n \in T : m <= n
  <2>1. T \subseteq Nat /\ k \in T
    OBVIOUS
  <2> HIDE DEF T
  <2> QED BY <2>1, LeastExists
<1>2. m \in S
  <2> SUFFICES ASSUME m \notin S PROVE FALSE
    OBVIOUS
  <2>0. PICK x \in S : TRUE
    OBVIOUS
  <2>1. m - 1 \in Nat /\ \A s \in S : s <= m - 1
    BY <2>0
  <2>2. m - 1 \in T
    BY <2>1
  <2> QED BY <1>1, <2>0, <2>1, <2>2
<1> QED BY <1>2

(* A function that is defined by what it is at 0 and by a step from each    *)
(* number to the next one: there is one, and any two agree.                 *)
Follows(g, n, b, F) == g[0] = b /\ \A i \in 1 .. n : g[i] = F[<<i, g[i - 1]>>]

(* By induction there is such a function.                                   *)
LEMMA StepsExist ==
    ASSUME NEW n \in Nat, NEW X, NEW b \in X, NEW F \in [(1 .. n) \X X -> X]
    PROVE  \E g \in [0 .. n -> X] : Follows(g, n, b, F)
<1> DEFINE Steps(k, g) == Follows(g, k, b, F)
           T == {k \in 0 .. n : \E g \in [0 .. k -> X] : Steps(k, g)}
<1>1. 0 \in T
  <2>1. [i \in 0 .. 0 |-> b] \in [0 .. 0 -> X] /\ Steps(0, [i \in 0 .. 0 |-> b])
    BY DEF Follows
  <2> HIDE DEF Steps
  <2>2. \E g \in [0 .. 0 -> X] : Steps(0, g)
    BY <2>1
  <2> QED BY <2>2
<1>2. ASSUME NEW k \in T, k < n PROVE k + 1 \in T
  <2>1. PICK g \in [0 .. k -> X] : Steps(k, g)
    BY <1>2
  <2> DEFINE h == [i \in 0 .. k + 1 |-> IF i = k + 1 THEN F[<<k + 1, g[k]>>] ELSE g[i]]
  <2>2. k \in Nat /\ k + 1 \in 0 .. n /\ g[k] \in X
    BY <1>2
  <2>3. F[<<k + 1, g[k]>>] \in X
    BY <1>2, <2>2
  <2>4. h \in [0 .. k + 1 -> X]
    BY <2>2, <2>3
  <2>5. Steps(k + 1, h)
    <3>1. h[k + 1] = F[<<k + 1, g[k]>>] /\ \A i \in 0 .. k : h[i] = g[i]
      BY <2>2
    <3> HIDE DEF h
    <3>2. h[0] = b
      BY <2>1, <2>2, <3>1 DEF Follows
    <3>3. ASSUME NEW i \in 1 .. k + 1 PROVE h[i] = F[<<i, h[i - 1]>>]
      <4>1. CASE i = k + 1
        <5>1. i - 1 = k /\ h[k] = g[k]
          BY <2>2, <3>1, <4>1
        <5> QED BY <3>1, <4>1, <5>1
      <4>2. CASE i # k + 1
        BY <2>1, <2>2, <3>1, <4>2 DEF Follows
      <4> QED BY <4>1, <4>2
    <3> QED BY <3>2, <3>3 DEF Follows
  <2> HIDE DEF Steps, h
  <2> QED BY <2>2, <2>4, <2>5
<1>3. n \in T
  <2>1. T \subseteq Nat
    BY DEF Follows
  <2> HIDE DEF T
  <2> QED BY <1>1, <1>2, <2>1, CountingReaches
<1> QED BY <1>3

(* The Cardinality that Sanitize sees is that of FiniteSets.                *)
LEMMA TextCounts == \A S : Text!Cardinality(S) = Cardinality(S)
BY DEF Text!Cardinality, Cardinality

-----------------------------------------------------------------------------
(* Sanitize.  Pieces laid end to end.                                       *)

(* The first n of the pieces s, one after the other, make out: its p-th     *)
(* element is the w[p]-th of the piece o[p], and none is left out.          *)
Laid(s, n, out, o, w) ==
    /\ \A p \in DOMAIN out :
          o[p] \in 1 .. n /\ w[p] \in 1 .. Len(s[o[p]]) /\ out[p] = s[o[p]][w[p]]
    /\ \A p, q \in DOMAIN out : p < q => o[p] < o[q] \/ (o[p] = o[q] /\ w[p] < w[q])
    /\ \A m \in 1 .. n : \A k \in 1 .. Len(s[m]) :
          \E p \in DOMAIN out : o[p] = m /\ w[p] = k

(* Of no pieces nothing is laid.                                            *)
LEMMA LaidNone ==
    ASSUME NEW s PROVE Laid(s, 0, <<>>, <<>>, <<>>)
BY DEF Laid

(* One more piece is laid behind the others.                                *)
LEMMA LaidOneMore ==
    ASSUME NEW C, NEW s \in Seq(Seq(C)), NEW n \in Nat, n + 1 <= Len(s),
           NEW out \in Seq(C), NEW o, NEW w, Laid(s, n, out, o, w)
    PROVE  /\ out \o s[n + 1] \in Seq(C)
           /\ \E o2, w2 : Laid(s, n + 1, out \o s[n + 1], o2, w2)
<1> DEFINE l == Len(out)
           t == out \o s[n + 1]
           o2 == [p \in 1 .. Len(t) |-> IF p <= l THEN o[p] ELSE n + 1]
           w2 == [p \in 1 .. Len(t) |-> IF p <= l THEN w[p] ELSE p - l]
<1>1. s[n + 1] \in Seq(C) /\ Len(s[n + 1]) \in Nat /\ l \in Nat /\ DOMAIN out = 1 .. l
  BY LenProperties
<1>2. /\ t \in Seq(C) /\ Len(t) = l + Len(s[n + 1]) /\ DOMAIN t = 1 .. Len(t)
      /\ \A p \in 1 .. l : t[p] = out[p]
      /\ \A p \in l + 1 .. Len(t) : t[p] = s[n + 1][p - l]
  <2>1. /\ t \in Seq(C) /\ Len(t) = l + Len(s[n + 1])
        /\ \A p \in 1 .. Len(t) : t[p] = IF p <= l THEN out[p] ELSE s[n + 1][p - l]
    BY <1>1, ConcatProperties
  <2> QED BY <1>1, <2>1, LenProperties
<1>3. \A p \in 1 .. Len(t) :
         /\ p <= l => o2[p] = o[p] /\ w2[p] = w[p]
         /\ p > l => o2[p] = n + 1 /\ w2[p] = p - l
  BY <1>1, <1>2
<1> HIDE DEF t, l, o2, w2
<1>4. ASSUME NEW p \in DOMAIN t
      PROVE  o2[p] \in 1 .. n + 1 /\ w2[p] \in 1 .. Len(s[o2[p]]) /\ t[p] = s[o2[p]][w2[p]]
  <2>1. CASE p <= l
    <3>1. p \in DOMAIN out
      BY <1>1, <1>2, <2>1
    <3>2. o[p] \in 1 .. n /\ w[p] \in 1 .. Len(s[o[p]]) /\ out[p] = s[o[p]][w[p]]
      BY <3>1 DEF Laid
    <3>3. o2[p] = o[p] /\ w2[p] = w[p] /\ t[p] = out[p]
      BY <1>1, <1>2, <1>3, <2>1
    <3> QED BY <3>2, <3>3
  <2>2. CASE p > l
    <3>1. p - l \in 1 .. Len(s[n + 1]) /\ p \in l + 1 .. Len(t)
      BY <1>1, <1>2, <2>2
    <3>2. o2[p] = n + 1 /\ w2[p] = p - l /\ t[p] = s[n + 1][p - l]
      BY <1>2, <1>3, <2>2, <3>1
    <3> QED BY <3>1, <3>2
  <2> QED BY <1>1, <1>2, <2>1, <2>2
<1>5. ASSUME NEW p \in DOMAIN t, NEW q \in DOMAIN t, p < q
      PROVE  o2[p] < o2[q] \/ (o2[p] = o2[q] /\ w2[p] < w2[q])
  <2>1. CASE q <= l
    <3>1. p \in DOMAIN out /\ q \in DOMAIN out
      BY <1>1, <1>2, <1>5, <2>1
    <3>2. o[p] < o[q] \/ (o[p] = o[q] /\ w[p] < w[q])
      BY <1>5, <3>1 DEF Laid
    <3>3. p \in 1 .. Len(t) /\ q \in 1 .. Len(t) /\ p <= l
      BY <1>1, <1>2, <1>5, <2>1
    <3>4. o2[p] = o[p] /\ w2[p] = w[p] /\ o2[q] = o[q] /\ w2[q] = w[q]
      BY <1>3, <2>1, <3>3
    <3> QED BY <3>2, <3>4
  <2>2. CASE p <= l /\ q > l
    <3>1. p \in DOMAIN out
      BY <1>1, <1>2, <2>2
    <3>2. o2[p] \in 1 .. n
      BY <1>2, <1>3, <2>2, <3>1 DEF Laid
    <3> QED BY <1>2, <1>3, <2>2, <3>2
  <2>3. CASE p > l
    BY <1>1, <1>2, <1>3, <1>5, <2>3
  <2> QED BY <1>1, <1>2, <2>1, <2>2, <2>3
<1>6. ASSUME NEW m \in 1 .. n + 1, NEW k \in 1 .. Len(s[m])
      PROVE  \E p \in DOMAIN t : o2[p] = m /\ w2[p] = k
  <2>1. CASE m = n + 1
    <3>1. l + k \in DOMAIN t /\ l + k > l /\ (l + k) - l = k
      BY <1>1, <1>2, <2>1
    <3>2. o2[l + k] = m /\ w2[l + k] = k
      BY <1>2, <1>3, <2>1, <3>1
    <3> QED BY <3>1, <3>2
  <2>2. CASE m # n + 1
    <3>1. m \in 1 .. n
      BY <2>2
    <3>2. PICK p \in DOMAIN out : o[p] = m /\ w[p] = k
      BY <3>1 DEF Laid
    <3>3. p \in DOMAIN t /\ p <= l
      BY <1>1, <1>2
    <3> QED BY <1>2, <1>3, <3>2, <3>3
  <2> QED BY <2>1, <2>2
<1>7. Laid(s, n + 1, t, o2, w2)
  BY <1>4, <1>5, <1>6 DEF Laid
<1>8. \E x, y : Laid(s, n + 1, t, x, y)
  BY <1>7
<1> QED BY <1>2, <1>8 DEF t

(* f holds what the first pieces come to, the way FlattenSeq of             *)
(* SequencesExt adds them up.                                               *)
Flattens(s, f) ==
    f = [i \in 1 .. Len(s) |-> IF i = 1 THEN s[i] ELSE f[i - 1] \o s[i]]

(* Of some pieces there is such an f.                                       *)
LEMMA FlattensSome ==
    ASSUME NEW C, NEW s \in Seq(Seq(C)), s # <<>>
    PROVE  \E f : Flattens(s, f)
<1> DEFINE n == Len(s)
           F == [e \in (1 .. n) \X Seq(C) |-> e[2] \o s[e[1]]]
<1>1. n \in Nat \ {0} /\ \A i \in 1 .. n : s[i] \in Seq(C)
  BY LenProperties, EmptySeq
<1>2. F \in [(1 .. n) \X Seq(C) -> Seq(C)]
  <2>1. ASSUME NEW e \in (1 .. n) \X Seq(C) PROVE e[2] \o s[e[1]] \in Seq(C)
    <3>1. e[2] \in Seq(C) /\ s[e[1]] \in Seq(C)
      BY <1>1
    <3> QED BY <3>1, ConcatProperties
  <2> QED BY <2>1
<1>3. <<>> \in Seq(C)
  BY EmptySeq
<1>4. \A i \in 1 .. n, x \in Seq(C) : F[<<i, x>>] = x \o s[i]
  OBVIOUS
<1> HIDE DEF F, n
<1>5. PICK g \in [0 .. n -> Seq(C)] : Follows(g, n, <<>>, F)
  BY <1>1, <1>2, <1>3, StepsExist
<1>6. g[0] = <<>> /\ \A i \in 1 .. n : g[i] = g[i - 1] \o s[i]
  <2>1. ASSUME NEW i \in 1 .. n PROVE g[i - 1] \in Seq(C)
    BY <1>1
  <2> QED BY <1>4, <1>5, <2>1 DEF Follows
<1> DEFINE f == [i \in 1 .. n |-> g[i]]
<1>7. ASSUME NEW i \in 1 .. n
      PROVE  g[i] = IF i = 1 THEN s[i] ELSE f[i - 1] \o s[i]
  <2>1. CASE i = 1
    <3>0. i - 1 = 0
      BY <2>1
    <3>1. g[i] = <<>> \o s[i] /\ s[i] \in Seq(C)
      BY <1>1, <1>6, <3>0
    <3>2. <<>> \o s[i] = s[i]
      BY <3>1, ConcatEmptySeq
    <3> QED BY <2>1, <3>1, <3>2
  <2>2. CASE i # 1
    <3>1. i - 1 \in 1 .. n
      BY <1>1, <2>2
    <3> QED BY <1>6, <2>2, <3>1
  <2> QED BY <2>1, <2>2
<1>8. f = [i \in 1 .. n |-> IF i = 1 THEN s[i] ELSE f[i - 1] \o s[i]]
  BY <1>7
<1> HIDE DEF f
<1>9. Flattens(s, f)
  BY <1>8 DEF Flattens, n
<1> QED BY <1>9

(* FlattenSeq() puts the pieces one after the other.                        *)
LEMMA FlattenLays ==
    ASSUME NEW C, NEW s \in Seq(Seq(C))
    PROVE  /\ Text!FlattenSeq(s) \in Seq(C)
           /\ \E o, w : Laid(s, Len(s), Text!FlattenSeq(s), o, w)
<1>1. CASE s = <<>>
  <2>1. Len(s) = 0 /\ Text!FlattenSeq(s) = <<>>
    BY <1>1 DEF Text!FlattenSeq
  <2>2. Laid(s, 0, <<>>, <<>>, <<>>)
    BY LaidNone
  <2>3. \E o, w : Laid(s, 0, <<>>, o, w)
    BY <2>2
  <2> QED BY <2>1, <2>3, EmptySeq
<1>2. CASE s # <<>>
  <2> DEFINE f == CHOOSE f : Flattens(s, f)
             n == Len(s)
  <2>1. n \in Nat \ {0} /\ \A i \in 1 .. n : s[i] \in Seq(C)
    BY <1>2, LenProperties, EmptySeq
  <2>2. Flattens(s, f)
    BY <1>2, FlattensSome
  <2>3. Text!FlattenSeq(s) = f[n]
    BY <2>1 DEF Text!FlattenSeq, Flattens
  <2> HIDE DEF f
  <2>4. \A i \in 1 .. n : f[i] = IF i = 1 THEN s[i] ELSE f[i - 1] \o s[i]
    BY <2>2 DEF Flattens
  <2> HIDE DEF n
  <2> DEFINE g == [i \in 0 .. n |-> IF i = 0 THEN <<>> ELSE f[i]]
             Done(k) == g[k] \in Seq(C) /\ \E o, w : Laid(s, k, g[k], o, w)
             T == {k \in 0 .. n : Done(k)}
  <2>5. g[0] = <<>> /\ \A k \in 1 .. n : g[k] = f[k]
    BY <2>1
  <2> HIDE DEF g
  <2>6. 0 \in T
    <3>1. Laid(s, 0, g[0], <<>>, <<>>)
      BY <2>5, LaidNone
    <3>2. \E o, w : Laid(s, 0, g[0], o, w)
      BY <3>1
    <3>3. Done(0)
      BY <2>5, <3>2, EmptySeq
    <3> HIDE DEF Done
    <3> QED BY <2>1, <3>3
  <2>7. ASSUME NEW k \in T, k < n PROVE k + 1 \in T
    <3>1. k \in Nat /\ k + 1 \in 1 .. n /\ k + 1 <= Len(s) /\ g[k] \in Seq(C)
      BY <2>1, <2>7 DEF n
    <3>2. PICK o, w : Laid(s, k, g[k], o, w)
      BY <2>7
    <3>3. g[k + 1] = g[k] \o s[k + 1]
      <4>1. CASE k = 0
        <5>1. g[1] = s[1] /\ s[1] \in Seq(C)
          BY <2>1, <2>4, <2>5
        <5>2. <<>> \o s[1] = s[1]
          BY <5>1, ConcatEmptySeq
        <5>3. g[k] = <<>> /\ k + 1 = 1
          BY <2>5, <4>1
        <5>4. g[k] \o s[k + 1] = s[1] /\ g[k + 1] = s[1]
          BY <5>1, <5>2, <5>3
        <5> QED BY <5>4
      <4>2. CASE k # 0
        <5>1. k \in 1 .. n /\ (k + 1) - 1 = k /\ k + 1 # 1
          BY <3>1, <4>2
        <5> QED BY <2>4, <2>5, <3>1, <5>1
      <4> QED BY <4>1, <4>2
    <3>4. /\ g[k] \o s[k + 1] \in Seq(C)
          /\ \E o2, w2 : Laid(s, k + 1, g[k] \o s[k + 1], o2, w2)
      BY <3>1, <3>2, LaidOneMore
    <3>5. Done(k + 1)
      BY <3>3, <3>4
    <3> HIDE DEF Done
    <3> QED BY <3>1, <3>5
  <2>8. n \in T
    <3>1. T \subseteq Nat
      OBVIOUS
    <3> HIDE DEF T
    <3> QED BY <2>1, <2>6, <2>7, <3>1, CountingReaches
  <2>9. n \in 1 .. n
    BY <2>1
  <2> QED BY <2>3, <2>5, <2>8, <2>9 DEF n
<1> QED BY <1>1, <1>2

-----------------------------------------------------------------------------
(* Sanitize.  What the patterns leave of a text.                            *)

(* The characters of a message, and what is put in their place.             *)
Printable == Characters \cup {Text!Redacted}

(* All messages, and all that becomes of them.                              *)
Texts == Seq(Printable)

(* A text out in which every stretch without [redacted] is one of t, from   *)
(* o[p] on where it starts at p.                                            *)
Excerpts(out, t, o) ==
    /\ \A p \in DOMAIN out :
          out[p] # Text!Redacted => o[p] \in DOMAIN t /\ out[p] = t[o[p]]
    /\ \A p, q \in DOMAIN out :
          q = p + 1 /\ out[p] # Text!Redacted /\ out[q] # Text!Redacted => o[q] = o[p] + 1

(* A stretch without [redacted] has its places in t side by side.           *)
LEMMA ExcerptRuns ==
    ASSUME NEW out \in Texts, NEW t \in Texts, NEW o, Excerpts(out, t, o),
           NEW i \in DOMAIN out, NEW j \in DOMAIN out,
           \A n \in i .. j : out[n] # Text!Redacted
    PROVE  \A n \in i .. j : o[n] = o[i] + (n - i)
<1> SUFFICES ASSUME NEW n \in i .. j PROVE o[n] = o[i] + (n - i)
  OBVIOUS
<1>1. i \in Nat /\ j \in Nat /\ DOMAIN out = 1 .. Len(out) /\ Len(out) \in Nat
  BY LenProperties DEF Texts
<1>2. o[i] \in Nat
  <2>1. i \in i .. j
    BY <1>1
  <2>2. o[i] \in DOMAIN t
    BY <2>1 DEF Excerpts
  <2> QED BY <2>2, LenProperties DEF Texts
<1> DEFINE T == {d \in 0 .. n - i : o[i + d] = o[i] + d}
<1>3. 0 \in T
  BY <1>1, <1>2
<1>4. ASSUME NEW d \in T, d < n - i PROVE d + 1 \in T
  <2>1. d + 1 \in 0 .. n - i /\ i + d \in i .. j /\ i + (d + 1) \in i .. j /\ i + (d + 1) = (i + d) + 1
    BY <1>1, <1>4
  <2>2. i + d \in DOMAIN out /\ i + (d + 1) \in DOMAIN out
    BY <1>1, <2>1
  <2>3. o[i + (d + 1)] = o[i + d] + 1
    BY <2>1, <2>2 DEF Excerpts
  <2>4. o[i + (d + 1)] = o[i] + (d + 1)
    BY <1>2, <1>4, <2>3
  <2> QED BY <2>1, <2>4
<1>5. n - i \in T
  <2>1. n - i \in Nat /\ T \subseteq Nat
    BY <1>1
  <2> HIDE DEF T
  <2> QED BY <1>3, <1>4, <2>1, CountingReaches
<1>6. i + (n - i) = n
  BY <1>1
<1> QED BY <1>5, <1>6

(* What a pattern makes of a text: of each place it, nothing, [redacted] or *)
(* a ? and [redacted], and nothing only behind [redacted].                  *)
Cuts(s, t) ==
    /\ s = [n \in DOMAIN t |-> s[n]]
    /\ \A n \in DOMAIN t :
          /\ s[n] \in {<<>>, <<t[n]>>, <<Text!Redacted>>, <<"?", Text!Redacted>>}
          /\ s[n] = <<"?", Text!Redacted>> => t[n] = "?"
          /\ s[n] = <<>> => n > 1 /\ s[n - 1] \in {<<>>, <<Text!Redacted>>, <<"?", Text!Redacted>>}

(* Such a piece is short, and nothing in it is new but [redacted].          *)
LEMMA CutPieces ==
    ASSUME NEW t \in Texts, NEW s, Cuts(s, t), NEW n \in DOMAIN t
    PROVE  /\ Len(s[n]) \in 0 .. 2
           /\ Len(s[n]) = 0 => s[n] = <<>>
           /\ Len(s[n]) = 2 => s[n] = <<"?", Text!Redacted>>
           /\ Len(s[n]) >= 1 => s[n][1] \in {t[n], Text!Redacted}
           /\ Len(s[n]) = 2 => s[n][2] = Text!Redacted
           /\ s[n] \in Texts
<1>1. t[n] \in Printable /\ Text!Redacted \in Printable /\ "?" \in Printable
  BY DEF Texts, Printable, Characters
<1>2. s[n] \in {<<>>, <<t[n]>>, <<Text!Redacted>>, <<"?", Text!Redacted>>}
  BY DEF Cuts
<1>3. s[n] = <<"?", Text!Redacted>> => t[n] = "?"
  BY DEF Cuts
<1>4. CASE s[n] = <<>>
  BY <1>4 DEF Texts
<1>5. CASE s[n] = <<t[n]>>
  BY <1>1, <1>5 DEF Texts
<1>6. CASE s[n] = <<Text!Redacted>>
  BY <1>1, <1>6 DEF Texts
<1>7. CASE s[n] = <<"?", Text!Redacted>>
  BY <1>1, <1>3, <1>7 DEF Texts
<1> QED BY <1>2, <1>4, <1>5, <1>6, <1>7

(* The pieces laid end to end are a text.                                   *)
LEMMA CutLays ==
    ASSUME NEW t \in Texts, NEW s, Cuts(s, t)
    PROVE  /\ Text!FlattenSeq(s) \in Texts
           /\ \E o, w : Laid(s, Len(t), Text!FlattenSeq(s), o, w)
<1>1. DOMAIN s = 1 .. Len(t) /\ Len(t) \in Nat
  BY LenProperties DEF Cuts, Texts
<1>2. \A n \in 1 .. Len(t) : s[n] \in Texts
  BY <1>1, CutPieces DEF Cuts
<1>3. s \in Seq(Texts) /\ Len(s) = Len(t)
  <2>1. s = [n \in 1 .. Len(t) |-> s[n]]
    BY LenProperties DEF Cuts, Texts
  <2> QED BY <1>1, <1>2, <2>1
<1> QED BY <1>3, FlattenLays DEF Texts

(* Between two places of out next to each other there is nothing.           *)
LEMMA LaidNext ==
    ASSUME NEW s, NEW k \in Nat, NEW out \in Texts, NEW o, NEW w, Laid(s, k, out, o, w),
           NEW p \in DOMAIN out, p + 1 \in DOMAIN out, o[p] # o[p + 1]
    PROVE  /\ o[p] < o[p + 1]
           /\ w[p] = Len(s[o[p]]) /\ w[p + 1] = 1
           /\ \A m \in o[p] + 1 .. o[p + 1] - 1 : Len(s[m]) \notin Nat \ {0}
<1>1. p \in Nat /\ DOMAIN out = 1 .. Len(out) /\ Len(out) \in Nat
  BY LenProperties DEF Texts
<1>2. /\ o[p] \in 1 .. k /\ o[p + 1] \in 1 .. k
      /\ w[p] \in 1 .. Len(s[o[p]]) /\ w[p + 1] \in 1 .. Len(s[o[p + 1]])
  BY DEF Laid
<1>3. o[p] < o[p + 1]
  BY <1>1 DEF Laid
<1>4. ASSUME NEW q \in DOMAIN out
      PROVE  \/ o[q] < o[p] \/ (o[q] = o[p] /\ w[q] <= w[p])
             \/ o[q] > o[p + 1] \/ (o[q] = o[p + 1] /\ w[q] >= w[p + 1])
  <2>0. o[q] \in 1 .. k /\ w[q] \in 1 .. Len(s[o[q]]) /\ q \in Nat
    BY <1>1 DEF Laid
  <2>1. CASE q < p
    BY <2>0, <2>1, <1>2 DEF Laid
  <2>2. CASE q = p
    BY <2>0, <2>2, <1>2
  <2>3. CASE q = p + 1
    BY <2>0, <2>3, <1>2
  <2>4. CASE q > p + 1
    <3>1. p + 1 < q
      BY <1>1, <2>0, <2>4
    <3>2. o[p + 1] < o[q] \/ (o[p + 1] = o[q] /\ w[p + 1] < w[q])
      BY <3>1 DEF Laid
    <3> QED BY <2>0, <3>2, <1>2
  <2> QED BY <1>1, <2>0, <2>1, <2>2, <2>3, <2>4
<1>5. w[p] = Len(s[o[p]])
  <2>1. PICK q \in DOMAIN out : o[q] = o[p] /\ w[q] = Len(s[o[p]])
    <3>1. Len(s[o[p]]) \in 1 .. Len(s[o[p]])
      BY <1>2
    <3> QED BY <1>2, <3>1 DEF Laid
  <2> QED BY <1>2, <1>3, <1>4, <2>1
<1>6. w[p + 1] = 1
  <2>1. PICK q \in DOMAIN out : o[q] = o[p + 1] /\ w[q] = 1
    <3>1. 1 \in 1 .. Len(s[o[p + 1]])
      BY <1>2
    <3> QED BY <1>2, <3>1 DEF Laid
  <2> QED BY <1>2, <1>3, <1>4, <2>1
<1>7. ASSUME NEW m \in o[p] + 1 .. o[p + 1] - 1, Len(s[m]) \in Nat \ {0} PROVE FALSE
  <2>1. m \in 1 .. k /\ 1 \in 1 .. Len(s[m])
    BY <1>2, <1>7
  <2>2. PICK q \in DOMAIN out : o[q] = m /\ w[q] = 1
    BY <2>1 DEF Laid
  <2> QED BY <1>2, <1>4, <1>7, <2>2
<1> QED BY <1>3, <1>5, <1>6, <1>7

(* Laid end to end they are excerpts of t: between two characters that are  *)
(* left side by side nothing has gone, or else there is [redacted].         *)
LEMMA CutExcerpts ==
    ASSUME NEW t \in Texts, NEW s, Cuts(s, t), NEW out \in Texts, NEW o, NEW w,
           Laid(s, Len(t), out, o, w)
    PROVE  Excerpts(out, t, o)
<1>0. DOMAIN out = 1 .. Len(out) /\ Len(out) \in Nat /\ DOMAIN t = 1 .. Len(t) /\ Len(t) \in Nat
  BY LenProperties DEF Texts
<1>1. ASSUME NEW p \in DOMAIN out, out[p] # Text!Redacted
      PROVE  o[p] \in DOMAIN t /\ out[p] = t[o[p]] /\ w[p] = 1
  <2>1. o[p] \in DOMAIN t /\ w[p] \in 1 .. Len(s[o[p]]) /\ out[p] = s[o[p]][w[p]]
    BY <1>0 DEF Laid
  <2>2. w[p] \in {1, 2} /\ (w[p] = 2 => Len(s[o[p]]) = 2)
    BY <2>1, CutPieces
  <2> QED BY <1>1, <2>1, <2>2, CutPieces
<1>2. ASSUME NEW p \in DOMAIN out, p + 1 \in DOMAIN out,
             out[p] # Text!Redacted, out[p + 1] # Text!Redacted
      PROVE  o[p + 1] = o[p] + 1
  <2>1. /\ o[p] \in 1 .. Len(t) /\ o[p + 1] \in 1 .. Len(t)
        /\ w[p] = 1 /\ w[p + 1] = 1
    BY <1>0, <1>1, <1>2
  <2>2. o[p] # o[p + 1]
    <3>1. p < p + 1
      BY <1>0
    <3> QED BY <1>2, <2>1, <3>1 DEF Laid
  <2>3. /\ o[p] < o[p + 1]
        /\ w[p] = Len(s[o[p]])
        /\ \A m \in o[p] + 1 .. o[p + 1] - 1 : Len(s[m]) \notin Nat \ {0}
    BY ONLY Len(t) \in Nat, out \in Texts, Laid(s, Len(t), out, o, w), p \in DOMAIN out,
            p + 1 \in DOMAIN out, <2>2, LaidNext
  <2>4. SUFFICES ASSUME o[p] + 1 < o[p + 1] PROVE FALSE
    BY <2>1, <2>3
  <2> DEFINE m == o[p] + 1
  <2>5. m \in o[p] + 1 .. o[p + 1] - 1 /\ m \in DOMAIN t /\ m - 1 = o[p]
    BY <1>0, <2>1, <2>4
  <2>6. Len(s[m]) = 0
    BY <2>3, <2>5, CutPieces
  <2>7. s[m] = <<>>
    BY <2>5, <2>6, CutPieces
  <2>8. s[m - 1] \in {<<>>, <<Text!Redacted>>, <<"?", Text!Redacted>>}
    BY <2>5, <2>7 DEF Cuts
  <2>9. Len(s[o[p]]) = 1
    BY <2>1, <2>3
  <2>10. s[o[p]] = <<Text!Redacted>>
    <3>1. s[o[p]] \in {<<>>, <<Text!Redacted>>, <<"?", Text!Redacted>>}
      BY <2>5, <2>8
    <3>3. s[o[p]] # <<>>
      BY <2>9
    <3>4. s[o[p]] # <<"?", Text!Redacted>>
      <4>1. Len(<<"?", Text!Redacted>>) = 2
        OBVIOUS
      <4>2. Len(s[o[p]]) # 2
        BY <2>9
      <4> HIDE DEF Text!Redacted
      <4> QED BY <4>1, <4>2, Zenon
    <3> QED BY <3>1, <3>3, <3>4
  <2>11. out[p] = s[o[p]][1]
    BY <1>2, <2>1 DEF Laid
  <2> QED BY <1>2, <2>10, <2>11
<1> QED BY <1>1, <1>2 DEF Excerpts

(* Excerpts of excerpts are excerpts.                                       *)
LEMMA ExcerptsCompose ==
    ASSUME NEW out, NEW t, NEW r, NEW o, NEW u,
           DOMAIN out \subseteq Nat,
           Excerpts(out, t, o), Excerpts(t, r, u)
    PROVE  Excerpts(out, r, [p \in DOMAIN out |-> u[o[p]]])
<1>1. ASSUME NEW p \in DOMAIN out, out[p] # Text!Redacted
      PROVE  /\ o[p] \in DOMAIN t /\ out[p] = t[o[p]]
             /\ u[o[p]] \in DOMAIN r /\ out[p] = r[u[o[p]]]
  <2>1. o[p] \in DOMAIN t /\ out[p] = t[o[p]]
    BY <1>1 DEF Excerpts
  <2> QED BY <1>1, <2>1 DEF Excerpts
<1>2. ASSUME NEW p \in DOMAIN out, NEW q \in DOMAIN out, q = p + 1,
             out[p] # Text!Redacted, out[q] # Text!Redacted
      PROVE  u[o[q]] = u[o[p]] + 1
  <2>1. o[q] = o[p] + 1
    BY <1>2 DEF Excerpts
  <2>2. o[p] \in DOMAIN t /\ out[p] = t[o[p]] /\ o[q] \in DOMAIN t /\ out[q] = t[o[q]]
    BY <1>1, <1>2
  <2> QED BY <1>2, <2>1, <2>2 DEF Excerpts
<1> QED BY <1>1, <1>2 DEF Excerpts

(* Of the places of t some are gone, the others are left, in their order.   *)
Condensed(out, t, o, gone) ==
    /\ \A p \in DOMAIN out : o[p] \in DOMAIN t
    /\ \A p, q \in DOMAIN out : p < q => o[p] < o[q]
    /\ \A p \in DOMAIN out : out[p] # Text!Redacted => o[p] \notin gone
    /\ \A n \in DOMAIN t \ gone : \E p \in DOMAIN out : o[p] = n /\ out[p] = t[n]
    /\ Excerpts(out, t, o)

(* Pieces that keep a place or take it away, each for itself, condense the  *)
(* text.                                                                    *)
LEMMA CutCondensed ==
    ASSUME NEW t \in Texts, NEW s, Cuts(s, t), NEW gone,
           \A n \in DOMAIN t :
              /\ n \notin gone => s[n] = <<t[n]>>
              /\ n \in gone => s[n] \in {<<>>, <<Text!Redacted>>}
    PROVE  /\ Text!FlattenSeq(s) \in Texts
           /\ \E o : Condensed(Text!FlattenSeq(s), t, o, gone)
<1> DEFINE out == Text!FlattenSeq(s)
<1>1. out \in Texts
  BY CutLays
<1>2. PICK o, w : Laid(s, Len(t), out, o, w)
  BY CutLays
<1> HIDE DEF out
<1>3. Excerpts(out, t, o)
  BY <1>1, <1>2, CutExcerpts
<1>4. DOMAIN t = 1 .. Len(t) /\ Len(t) \in Nat /\ DOMAIN out = 1 .. Len(out) /\ Len(out) \in Nat
  BY <1>1, LenProperties DEF Texts
<1>5. ASSUME NEW p \in DOMAIN out PROVE o[p] \in DOMAIN t /\ w[p] = 1 /\ out[p] = s[o[p]][1]
  <2>1. o[p] \in DOMAIN t /\ w[p] \in 1 .. Len(s[o[p]]) /\ out[p] = s[o[p]][w[p]]
    BY <1>2, <1>4 DEF Laid
  <2>2. Len(s[o[p]]) \in 0 .. 1
    <3>1. s[o[p]] = <<t[o[p]]>> \/ s[o[p]] = <<>> \/ s[o[p]] = <<Text!Redacted>>
      BY <2>1
    <3>2. CASE s[o[p]] = <<t[o[p]]>>
      BY <3>2
    <3>3. CASE s[o[p]] = <<>>
      BY <3>3
    <3>4. CASE s[o[p]] = <<Text!Redacted>>
      BY <3>4
    <3> QED BY <3>1, <3>2, <3>3, <3>4
  <2> QED BY <2>1, <2>2
<1>6. ASSUME NEW p \in DOMAIN out, NEW q \in DOMAIN out, p < q PROVE o[p] < o[q]
  BY <1>2, <1>5, <1>6 DEF Laid
<1>7. ASSUME NEW p \in DOMAIN out, out[p] # Text!Redacted PROVE o[p] \notin gone
  <2> SUFFICES ASSUME o[p] \in gone PROVE FALSE
    OBVIOUS
  <2>1. /\ o[p] \in DOMAIN t /\ out[p] = s[o[p]][1] /\ s[o[p]] \in {<<>>, <<Text!Redacted>>}
        /\ w[p] = 1 /\ w[p] \in 1 .. Len(s[o[p]])
    BY <1>2, <1>5 DEF Laid
  <2>2. s[o[p]] # <<>>
    BY <2>1
  <2> QED BY <1>7, <2>1, <2>2
<1>8. ASSUME NEW n \in DOMAIN t \ gone PROVE \E p \in DOMAIN out : o[p] = n /\ out[p] = t[n]
  <2>1. s[n] = <<t[n]>>
    OBVIOUS
  <2>2. n \in 1 .. Len(t) /\ 1 \in 1 .. Len(s[n]) /\ s[n][1] = t[n]
    BY <1>4, <2>1
  <2>3. PICK p \in DOMAIN out : o[p] = n /\ w[p] = 1
    BY <1>2, <2>2 DEF Laid
  <2> QED BY <1>5, <2>2, <2>3
<1>9. Condensed(out, t, o, gone)
  BY <1>3, <1>5, <1>6, <1>7, <1>8 DEF Condensed
<1>10. \E u : Condensed(out, t, u, gone)
  BY <1>9
<1> QED BY <1>1, <1>10 DEF out

(* Nothing is between what is left and what was next to it.                 *)
LEMMA CondensedNext ==
    ASSUME NEW out \in Texts, NEW t \in Texts, NEW o, NEW gone, Condensed(out, t, o, gone),
           NEW p \in DOMAIN out
    PROVE  /\ o[p] - 1 \in DOMAIN t \ gone =>
                 p - 1 \in DOMAIN out /\ out[p - 1] = t[o[p] - 1]
           /\ o[p] + 1 \in DOMAIN t \ gone =>
                 p + 1 \in DOMAIN out /\ out[p + 1] = t[o[p] + 1]
<1>1. DOMAIN t = 1 .. Len(t) /\ Len(t) \in Nat /\ DOMAIN out = 1 .. Len(out) /\ Len(out) \in Nat
  BY LenProperties DEF Texts
<1>2. \A q \in DOMAIN out : o[q] \in Nat
  BY <1>1 DEF Condensed
<1>3. \A q, r \in DOMAIN out : q < r => o[q] < o[r]
  BY DEF Condensed
<1>4. \A q, r \in DOMAIN out : o[q] < o[r] => q < r
  BY <1>1, <1>2, <1>3
<1>5. ASSUME o[p] - 1 \in DOMAIN t \ gone
      PROVE  p - 1 \in DOMAIN out /\ out[p - 1] = t[o[p] - 1]
  <2>1. PICK q \in DOMAIN out : o[q] = o[p] - 1 /\ out[q] = t[o[p] - 1]
    BY <1>5 DEF Condensed
  <2>2. q < p
    BY <1>2, <1>4, <2>1
  <2>3. q = p - 1
    <3> SUFFICES ASSUME q < p - 1 PROVE FALSE
      BY <1>1, <2>2
    <3>1. p - 1 \in DOMAIN out /\ q < p - 1 /\ p - 1 < p
      BY <1>1, <2>2
    <3>2. o[q] < o[p - 1] /\ o[p - 1] < o[p] /\ o[p - 1] \in Nat /\ o[p] \in Nat
      BY <1>2, <1>3, <3>1
    <3> QED BY <2>1, <3>2
  <2> QED BY <2>1, <2>3
<1>6. ASSUME o[p] + 1 \in DOMAIN t \ gone
      PROVE  p + 1 \in DOMAIN out /\ out[p + 1] = t[o[p] + 1]
  <2>1. PICK q \in DOMAIN out : o[q] = o[p] + 1 /\ out[q] = t[o[p] + 1]
    BY <1>6 DEF Condensed
  <2>2. p < q
    BY <1>2, <1>4, <2>1
  <2>3. q = p + 1
    <3> SUFFICES ASSUME p + 1 < q PROVE FALSE
      BY <1>1, <2>2
    <3>1. p + 1 \in DOMAIN out /\ p < p + 1 /\ p + 1 < q
      BY <1>1, <2>2
    <3>2. o[p] < o[p + 1] /\ o[p + 1] < o[q] /\ o[p + 1] \in Nat /\ o[p] \in Nat
      BY <1>2, <1>3, <3>1
    <3> QED BY <2>1, <3>2
  <2> QED BY <2>1, <2>3
<1> QED BY <1>5, <1>6

(* As many blanks are left as there were, if none of them is gone.          *)
LEMMA BlanksLeft ==
    ASSUME NEW out \in Texts, NEW t \in Texts, NEW o, NEW gone, Condensed(out, t, o, gone),
           \A n \in DOMAIN t : t[n] = "blank" => n \notin gone
    PROVE  Cardinality(Text!Blanks(out)) = Cardinality(Text!Blanks(t))
<1> DEFINE A == Text!Blanks(out)
           B == Text!Blanks(t)
           f == [p \in A |-> o[p]]
<1>1. DOMAIN out = 1 .. Len(out) /\ Len(out) \in Nat
  BY LenProperties DEF Texts
<1>2. IsFiniteSet(A)
  <2>1. IsFiniteSet(1 .. Len(out))
    BY <1>1, FS_Interval
  <2> QED BY <1>1, <2>1, FS_Subset DEF Text!Blanks
<1>3. A = {p \in DOMAIN out : out[p] = "blank"} /\ B = {n \in DOMAIN t : t[n] = "blank"}
  BY DEF Text!Blanks
<1> HIDE DEF A, B
<1>4. "blank" # Text!Redacted
  BY DEF Text!Redacted
<1>5. ASSUME NEW p \in A PROVE o[p] \in B
  BY <1>3, <1>4 DEF Condensed, Excerpts
<1>6. ASSUME NEW p \in A, NEW q \in A, o[p] = o[q] PROVE p = q
  <2>1. p \in DOMAIN out /\ q \in DOMAIN out /\ p \in Nat /\ q \in Nat
    BY <1>1, <1>3
  <2>2. o[p] \in Nat
    BY <2>1, LenProperties DEF Condensed, Texts
  <2>3. ~(p < q) /\ ~(q < p)
    BY <1>6, <2>1, <2>2 DEF Condensed
  <2> QED BY <2>1, <2>3
<1>7. ASSUME NEW n \in B PROVE \E p \in A : o[p] = n
  <2>1. n \in DOMAIN t \ gone /\ t[n] = "blank"
    BY <1>3
  <2>2. PICK p \in DOMAIN out : o[p] = n /\ out[p] = t[n]
    BY <2>1 DEF Condensed
  <2> QED BY <1>3, <2>1, <2>2
<1>8. f \in Bijection(A, B)
  <2>1. f \in [A -> B] /\ \A p \in A : f[p] = o[p]
    BY <1>5
  <2> HIDE DEF f
  <2>2. IsInjective(f)
    BY <1>6, <2>1 DEF IsInjective
  <2>3. \A n \in B : \E p \in A : f[p] = n
    BY <1>7, <2>1
  <2> QED BY <2>1, <2>2, <2>3 DEF Bijection, Injection, Surjection
<1>9. Cardinality(A) = Cardinality(B)
  BY <1>2, <1>8, FS_Bijection DEF ExistsBijection
<1> QED BY <1>9 DEF A, B

(* The pieces of Replaced.                                                  *)
ReplacedBy(t, cuts) ==
    [n \in DOMAIN t |->
        IF \E k \in cuts : n = k[1] THEN <<Text!Redacted>>
        ELSE IF \E k \in cuts : n \in k[1] .. k[2] THEN <<>>
        ELSE <<t[n]>>]

(* All places between two ends.                                             *)
PlacesOf(cuts) == UNION {k[1] .. k[2] : k \in cuts}

(* Replaced leaves what lies in no stretch.                                 *)
LEMMA ReplacedCondenses ==
    ASSUME NEW t \in Texts, NEW cuts, cuts \subseteq (Nat \ {0}) \X Nat,
           \A k \in cuts : k[1] <= k[2]
    PROVE  /\ Text!Replaced(t, cuts) \in Texts
           /\ \E o : Condensed(Text!Replaced(t, cuts), t, o, PlacesOf(cuts))
<1> DEFINE s == ReplacedBy(t, cuts)
           gone == PlacesOf(cuts)
<1>1. Text!Replaced(t, cuts) = Text!FlattenSeq(s)
  BY DEF Text!Replaced, ReplacedBy
<1>2. /\ s = [n \in DOMAIN t |-> s[n]]
      /\ \A n \in DOMAIN t : s[n] = IF \E k \in cuts : n = k[1] THEN <<Text!Redacted>>
                                    ELSE IF \E k \in cuts : n \in k[1] .. k[2] THEN <<>>
                                    ELSE <<t[n]>>
  BY DEF ReplacedBy
<1>3. DOMAIN t = 1 .. Len(t) /\ Len(t) \in Nat
  BY LenProperties DEF Texts
<1> HIDE DEF s
<1>4. ASSUME NEW n \in DOMAIN t
      PROVE  /\ n \notin gone => s[n] = <<t[n]>>
             /\ n \in gone => s[n] \in {<<>>, <<Text!Redacted>>}
  <2>1. n \in gone <=> \E k \in cuts : n \in k[1] .. k[2]
    BY DEF PlacesOf
  <2>2. (\E k \in cuts : n = k[1]) => n \in gone
    <3> SUFFICES ASSUME NEW k \in cuts, n = k[1] PROVE n \in k[1] .. k[2]
      BY <2>1
    <3>1. k[1] \in Nat /\ k[2] \in Nat /\ k[1] <= k[2]
      OBVIOUS
    <3> QED BY <3>1
  <2> HIDE DEF gone
  <2> QED BY <1>2, <2>1, <2>2
<1>5. ASSUME NEW n \in DOMAIN t, s[n] = <<>>
      PROVE  n > 1 /\ s[n - 1] \in {<<>>, <<Text!Redacted>>}
  <2>0. <<Text!Redacted>> # <<>>
    OBVIOUS
  <2>1. ~\E k \in cuts : n = k[1]
    BY <1>2, <1>5, <2>0
  <2>2. PICK k \in cuts : n \in k[1] .. k[2]
    BY <1>2, <1>5, <2>1
  <2>3. k[1] \in Nat \ {0} /\ k[2] \in Nat /\ n # k[1]
    BY <2>1
  <2>4. n > 1 /\ n - 1 \in k[1] .. k[2] /\ n - 1 \in DOMAIN t
    BY <1>3, <2>2, <2>3
  <2>5. n - 1 \in gone
    BY <2>4 DEF PlacesOf
  <2> QED BY <1>4, <2>4, <2>5
<1>6. Cuts(s, t)
  <2>1. ASSUME NEW n \in DOMAIN t
        PROVE  /\ s[n] \in {<<>>, <<t[n]>>, <<Text!Redacted>>, <<"?", Text!Redacted>>}
               /\ s[n] = <<"?", Text!Redacted>> => t[n] = "?"
               /\ s[n] = <<>> => n > 1 /\ s[n - 1] \in {<<>>, <<Text!Redacted>>, <<"?", Text!Redacted>>}
    <3>1. s[n] \in {<<>>, <<t[n]>>, <<Text!Redacted>>}
      BY <1>4
    <3>2. s[n] # <<"?", Text!Redacted>>
      <4>1. Len(s[n]) \in 0 .. 1
        BY <3>1
      <4>2. Len(<<"?", Text!Redacted>>) = 2 /\ Len(s[n]) # 2
        BY <4>1
      <4> QED BY <4>2, Zenon
    <3>3. s[n] = <<>> => n > 1 /\ s[n - 1] \in {<<>>, <<Text!Redacted>>, <<"?", Text!Redacted>>}
      BY <1>5
    <3> QED BY <3>1, <3>2, <3>3
  <2> QED BY <1>2, <2>1 DEF Cuts
<1> HIDE DEF gone
<1>7. /\ Text!FlattenSeq(s) \in Texts
      /\ \E o : Condensed(Text!FlattenSeq(s), t, o, gone)
  BY <1>4, <1>6, CutCondensed
<1> QED BY <1>1, <1>7 DEF gone

(* A stretch of out without [redacted], as it is in t.                      *)
LEMMA ExcerptPlaces ==
    ASSUME NEW out \in Texts, NEW t \in Texts, NEW o, Excerpts(out, t, o),
           NEW i \in DOMAIN out, NEW j \in DOMAIN out, i <= j,
           \A n \in i .. j : out[n] # Text!Redacted
    PROVE  o[i] \in DOMAIN t /\ o[j] \in DOMAIN t /\ o[j] = o[i] + (j - i)
<1>1. i \in i .. j /\ j \in i .. j
  BY LenProperties DEF Texts
<1>2. o[i] \in DOMAIN t /\ o[j] \in DOMAIN t
  BY <1>1 DEF Excerpts
<1> QED BY <1>1, <1>2, ExcerptRuns

(* So it is the same text.                                                  *)
LEMMA ExcerptPart ==
    ASSUME NEW out \in Texts, NEW t \in Texts, NEW o, Excerpts(out, t, o),
           NEW i \in DOMAIN out, NEW j \in DOMAIN out, i <= j,
           \A n \in i .. j : out[n] # Text!Redacted
    PROVE  SubSeq(out, i, j) = SubSeq(t, o[i], o[j])
<1>1. /\ DOMAIN out = 1 .. Len(out) /\ Len(out) \in Nat
      /\ DOMAIN t = 1 .. Len(t) /\ Len(t) \in Nat
  BY LenProperties DEF Texts
<1>2. \A n \in i .. j : n \in DOMAIN out /\ o[n] \in DOMAIN t /\ out[n] = t[o[n]]
  BY <1>1 DEF Excerpts
<1>3. \A n \in i .. j : o[n] = o[i] + (n - i)
  BY ExcerptRuns
<1>5. o[i] \in DOMAIN t /\ o[j] \in DOMAIN t /\ o[j] = o[i] + (j - i)
  BY ExcerptPlaces
<1>6. /\ SubSeq(out, i, j) \in Seq(Printable) /\ Len(SubSeq(out, i, j)) = j - i + 1
      /\ \A n \in 1 .. j - i + 1 : SubSeq(out, i, j)[n] = out[i + n - 1]
  <2>1. i \in Int /\ j \in Int /\ \A n \in i .. j : out[n] \in Printable
    BY <1>1, <1>2 DEF Texts
  <2> QED BY <2>1, SubSeqProperties
<1>7. /\ SubSeq(t, o[i], o[j]) \in Seq(Printable) /\ Len(SubSeq(t, o[i], o[j])) = o[j] - o[i] + 1
      /\ \A n \in 1 .. o[j] - o[i] + 1 : SubSeq(t, o[i], o[j])[n] = t[o[i] + n - 1]
  <2>1. o[i] \in Int /\ o[j] \in Int /\ o[i] <= o[j] /\ \A n \in o[i] .. o[j] : t[n] \in Printable
    BY <1>1, <1>5 DEF Texts
  <2> QED BY <2>1, SubSeqProperties
<1> DEFINE a == SubSeq(out, i, j)
           b == SubSeq(t, o[i], o[j])
<1>8. o[j] - o[i] + 1 = j - i + 1
  BY <1>1, <1>5
<1>9. Len(a) = Len(b)
  BY <1>6, <1>7, <1>8
<1>10. ASSUME NEW n \in 1 .. Len(a) PROVE a[n] = b[n]
  <2>1. n \in 1 .. j - i + 1 /\ i + n - 1 \in i .. j /\ (i + n - 1) - i = n - 1
    BY <1>1, <1>6
  <2>2. out[i + n - 1] = t[o[i] + (n - 1)]
    BY <1>2, <1>3, <2>1
  <2>3. o[i] + (n - 1) = o[i] + n - 1
    BY <1>1, <1>5, <2>1
  <2> QED BY <1>6, <1>7, <1>8, <2>1, <2>2, <2>3
<1>11. a \in Seq(Printable) /\ b \in Seq(Printable)
  BY <1>6, <1>7
<1> HIDE DEF a, b
<1>12. a = b
  BY <1>9, <1>10, <1>11, SeqEqual
<1> QED BY <1>12 DEF a, b

(* A domain is of letters and full stops.                                   *)
LEMMA DomainLetters ==
    ASSUME NEW t \in Texts, NEW at \in DOMAIN t, NEW e \in Text!Domains(t, at)
    PROVE  /\ e \in DOMAIN t /\ at < e
           /\ \A n \in at + 1 .. e : n \in DOMAIN t /\ t[n] \in Text!Local
<1>1. DOMAIN t = 1 .. Len(t) /\ Len(t) \in Nat
  BY LenProperties DEF Texts
<1>2. e \in at + 1 .. Len(t) /\ Text!IsDomain(SubSeq(t, at + 1, e))
  BY DEF Text!Domains
<1>3. e \in DOMAIN t /\ at < e /\ \A n \in at + 1 .. e : n \in DOMAIN t
  BY <1>1, <1>2
<1> DEFINE d == SubSeq(t, at + 1, e)
<1>4. /\ d \in Seq(Printable) /\ Len(d) = e - (at + 1) + 1
      /\ \A n \in 1 .. e - (at + 1) + 1 : d[n] = t[at + 1 + n - 1]
  <2>1. at + 1 \in Int /\ e \in Int /\ at + 1 <= e /\ \A n \in at + 1 .. e : t[n] \in Printable
    BY <1>1, <1>2, <1>3 DEF Texts
  <2> QED BY <2>1, SubSeqProperties
<1>5. \A n \in DOMAIN d : d[n] \in Text!Local
  BY <1>2 DEF Text!IsDomain, Text!Local, Text!Letter
<1> HIDE DEF d
<1>6. ASSUME NEW n \in at + 1 .. e PROVE t[n] \in Text!Local
  <2>1. n - at \in 1 .. e - (at + 1) + 1 /\ at + 1 + (n - at) - 1 = n
    BY <1>1, <1>3
  <2>2. d[n - at] = t[n]
    BY <1>4, <2>1
  <2>3. n - at \in DOMAIN d
    BY <1>4, <2>1, LenProperties
  <2> QED BY <1>5, <2>2, <2>3
<1> QED BY <1>3, <1>6

(* [redacted] is no character of a message.                                 *)
LEMMA LocalPrinted == Text!Redacted \notin Text!Local /\ "@" # Text!Redacted /\ "?" # Text!Redacted
BY DEF Text!Redacted, Text!Local, Text!Letter

(* A domain in an excerpt of t is one, or part of one, in t.                *)
LEMMA ExcerptDomain ==
    ASSUME NEW out \in Texts, NEW t \in Texts, NEW o, Excerpts(out, t, o),
           NEW at \in DOMAIN out, out[at] = "@", Text!Domains(out, at) # {}
    PROVE  o[at] \in DOMAIN t /\ t[o[at]] = "@" /\ Text!Domains(t, o[at]) # {}
<1>1. /\ DOMAIN out = 1 .. Len(out) /\ Len(out) \in Nat
      /\ DOMAIN t = 1 .. Len(t) /\ Len(t) \in Nat
  BY LenProperties DEF Texts
<1>2. o[at] \in DOMAIN t /\ t[o[at]] = "@"
  BY LocalPrinted DEF Excerpts
<1>3. PICK e \in Text!Domains(out, at) : TRUE
  OBVIOUS
<1>4. e \in DOMAIN out /\ at < e /\ \A n \in at + 1 .. e : out[n] # Text!Redacted
  BY <1>3, DomainLetters, LocalPrinted
<1>5. at + 1 \in DOMAIN out /\ at + 1 <= e /\ at \in Nat /\ at + 1 \in at + 1 .. e
  BY <1>1, <1>4
<1>6. /\ o[at + 1] \in DOMAIN t /\ o[e] \in DOMAIN t /\ o[e] = o[at + 1] + (e - (at + 1))
      /\ SubSeq(out, at + 1, e) = SubSeq(t, o[at + 1], o[e])
  <2>1. \A n \in at + 1 .. e : out[n] # Text!Redacted
    BY <1>4
  <2>2. at + 1 \in DOMAIN out /\ e \in DOMAIN out /\ at + 1 <= e
    BY <1>4, <1>5
  <2>3. o[at + 1] \in DOMAIN t /\ o[e] \in DOMAIN t /\ o[e] = o[at + 1] + (e - (at + 1))
    BY <2>1, <2>2, ExcerptPlaces
  <2>4. SubSeq(out, at + 1, e) = SubSeq(t, o[at + 1], o[e])
    BY <2>1, <2>2, ExcerptPart
  <2> QED BY <2>3, <2>4
<1>7. o[at + 1] = o[at] + 1
  BY <1>4, <1>5, LocalPrinted DEF Excerpts
<1>8. Text!IsDomain(SubSeq(t, o[at] + 1, o[e]))
  BY <1>3, <1>6, <1>7 DEF Text!Domains
<1>9. o[e] \in o[at] + 1 .. Len(t)
  BY <1>1, <1>2, <1>5, <1>6, <1>7, <1>4
<1>10. o[e] \in Text!Domains(t, o[at])
  BY <1>8, <1>9 DEF Text!Domains
<1> QED BY <1>2, <1>10

(* The property's words about an address.                                   *)
NoAddress(t) ==
    \A at \in 2 .. Len(t) :
        t[at] = "@" /\ Text!Domains(t, at) # {} => t[at - 1] \notin Text!Local

(* No pattern makes an address of two halves.                               *)
LEMMA ExcerptNoAddress ==
    ASSUME NEW out \in Texts, NEW t \in Texts, NEW o, Excerpts(out, t, o), NoAddress(t)
    PROVE  NoAddress(out)
<1> SUFFICES ASSUME NEW at \in 2 .. Len(out), out[at] = "@", Text!Domains(out, at) # {},
                    out[at - 1] \in Text!Local
             PROVE  FALSE
  BY DEF NoAddress
<1>1. /\ DOMAIN out = 1 .. Len(out) /\ Len(out) \in Nat
      /\ DOMAIN t = 1 .. Len(t) /\ Len(t) \in Nat
  BY LenProperties DEF Texts
<1>2. at \in DOMAIN out /\ at - 1 \in DOMAIN out /\ at = (at - 1) + 1
  BY <1>1
<1>3. o[at] \in DOMAIN t /\ t[o[at]] = "@" /\ Text!Domains(t, o[at]) # {}
  BY <1>2, ExcerptDomain
<1>4. o[at] = o[at - 1] + 1 /\ o[at - 1] \in DOMAIN t /\ out[at - 1] = t[o[at - 1]]
  <2>1. out[at - 1] # Text!Redacted /\ out[at] # Text!Redacted
    BY LocalPrinted
  <2> QED BY <1>2, <2>1 DEF Excerpts
<1>5. o[at] \in 2 .. Len(t) /\ o[at] - 1 = o[at - 1]
  BY <1>1, <1>3, <1>4
<1> QED BY <1>3, <1>4, <1>5 DEF NoAddress

(* The character at n belongs to a query or fragment.                       *)
InQuery(t, n) == \E m \in 1 .. n - 1 : t[m] = "?" /\ \A k \in m .. n : t[k] # "blank"

(* The pieces of RedactQueries.                                             *)
QueryPieces(t) ==
    [n \in DOMAIN t |->
        IF ~InQuery(t, n) THEN IF t[n] = "?" THEN <<"?", Text!Redacted>> ELSE <<t[n]>>
        ELSE <<>>]

(* They are cut from the text.                                              *)
LEMMA QueriesCut ==
    ASSUME NEW t \in Texts
    PROVE  /\ Text!RedactQueries(t) = Text!FlattenSeq(QueryPieces(t))
           /\ Cuts(QueryPieces(t), t)
<1> DEFINE s == QueryPieces(t)
<1>1. /\ s = [n \in DOMAIN t |-> s[n]]
      /\ \A n \in DOMAIN t : 
            s[n] = IF ~InQuery(t, n) THEN IF t[n] = "?" THEN <<"?", Text!Redacted>> ELSE <<t[n]>>
                   ELSE <<>>
  BY DEF QueryPieces
<1>2. Text!RedactQueries(t) = Text!FlattenSeq(s)
  BY DEF Text!RedactQueries, QueryPieces, InQuery
<1>3. DOMAIN t = 1 .. Len(t) /\ Len(t) \in Nat
  BY LenProperties DEF Texts
<1> HIDE DEF s
<1>4. ASSUME NEW n \in DOMAIN t, InQuery(t, n)
      PROVE  n > 1 /\ s[n - 1] \in {<<>>, <<Text!Redacted>>, <<"?", Text!Redacted>>}
  <2>1. PICK m \in 1 .. n - 1 : t[m] = "?" /\ \A k \in m .. n : t[k] # "blank"
    BY <1>4 DEF InQuery
  <2>2. n > 1 /\ n - 1 \in DOMAIN t
    BY <1>3, <2>1
  <2>3. CASE m = n - 1
    BY <1>1, <2>1, <2>2, <2>3
  <2>4. CASE m # n - 1
    <3>1. m \in 1 .. (n - 1) - 1 /\ \A k \in m .. n - 1 : k \in m .. n
      BY <1>3, <2>1, <2>2, <2>4
    <3>2. InQuery(t, n - 1)
      BY <2>1, <3>1 DEF InQuery
    <3> QED BY <1>1, <2>2, <3>2
  <2> QED BY <2>2, <2>3, <2>4
<1>5. ASSUME NEW n \in DOMAIN t
      PROVE  /\ s[n] \in {<<>>, <<t[n]>>, <<Text!Redacted>>, <<"?", Text!Redacted>>}
             /\ s[n] = <<"?", Text!Redacted>> => t[n] = "?"
             /\ s[n] = <<>> => n > 1 /\ s[n - 1] \in {<<>>, <<Text!Redacted>>, <<"?", Text!Redacted>>}
  <2>1. CASE InQuery(t, n)
    <3>1. s[n] = <<>>
      BY <1>1, <2>1
    <3>2. <<>> # <<"?", Text!Redacted>>
      OBVIOUS
    <3> QED BY <1>4, <2>1, <3>1, <3>2
  <2>2. CASE ~InQuery(t, n) /\ t[n] = "?"
    <3>1. s[n] = <<"?", Text!Redacted>>
      BY <1>1, <2>2
    <3>2. <<>> # <<"?", Text!Redacted>>
      OBVIOUS
    <3> QED BY <2>2, <3>1, <3>2
  <2>3. CASE ~InQuery(t, n) /\ t[n] # "?"
    <3>1. s[n] = <<t[n]>>
      BY <1>1, <2>3
    <3>2. <<>> # <<t[n]>>
      OBVIOUS
    <3>3. <<t[n]>> # <<"?", Text!Redacted>>
      OBVIOUS
    <3> QED BY <3>1, <3>2, <3>3
  <2> QED BY <2>1, <2>2, <2>3
<1>6. Cuts(s, t)
  BY <1>1, <1>5 DEF Cuts
<1> QED BY <1>2, <1>6 DEF s

(* After a ? there is [redacted], and a text without one stays whole.       *)
LEMMA QueriesGone ==
    ASSUME NEW t \in Texts
    PROVE  LET q == Text!RedactQueries(t)
           IN  /\ q \in Texts
               /\ \E o : Excerpts(q, t, o)
               /\ \A p \in DOMAIN q : q[p] = "?" => p + 1 \in DOMAIN q /\ q[p + 1] = Text!Redacted
               /\ (\A n \in DOMAIN t : t[n] # "?") => \E o : Condensed(q, t, o, {})
<1> DEFINE q == Text!RedactQueries(t)
           s == QueryPieces(t)
<1>1. q = Text!FlattenSeq(s) /\ Cuts(s, t)
  BY QueriesCut
<1>2. \A n \in DOMAIN t : 
            s[n] = IF ~InQuery(t, n) THEN IF t[n] = "?" THEN <<"?", Text!Redacted>> ELSE <<t[n]>>
                   ELSE <<>>
  BY DEF QueryPieces
<1>3. DOMAIN t = 1 .. Len(t) /\ Len(t) \in Nat
  BY LenProperties DEF Texts
<1> HIDE DEF s, q
<1>4. q \in Texts
  BY <1>1, CutLays
<1>5. PICK o, w : Laid(s, Len(t), q, o, w)
  BY <1>1, CutLays
<1>6. Excerpts(q, t, o)
  BY <1>1, <1>4, <1>5, CutExcerpts
<1>7. \E u : Excerpts(q, t, u)
  BY <1>6
<1>8. ASSUME NEW p \in DOMAIN q, q[p] = "?"
      PROVE  p + 1 \in DOMAIN q /\ q[p + 1] = Text!Redacted
  <2>1. o[p] \in DOMAIN t /\ t[o[p]] = "?"
    BY <1>6, <1>8, LocalPrinted DEF Excerpts
  <2>2. w[p] \in 1 .. Len(s[o[p]]) /\ q[p] = s[o[p]][w[p]]
    BY <1>5 DEF Laid
  <2>3. s[o[p]] # <<>>
    BY <2>2
  <2>4. s[o[p]] = <<"?", Text!Redacted>>
    BY <1>2, <2>1, <2>3
  <2>5. Len(s[o[p]]) = 2 /\ s[o[p]][2] = Text!Redacted
    <3>1. Len(<<"?", Text!Redacted>>) = 2 /\ <<"?", Text!Redacted>>[2] = Text!Redacted
      OBVIOUS
    <3> QED BY <2>4, <3>1, Zenon
  <2>6. w[p] = 1
    BY <1>8, <2>2, <2>5, LocalPrinted
  <2>7. PICK r \in DOMAIN q : o[r] = o[p] /\ w[r] = 2
    BY <1>3, <1>5, <2>1, <2>5 DEF Laid
  <2>8. DOMAIN q = 1 .. Len(q) /\ Len(q) \in Nat
    BY <1>4, LenProperties DEF Texts
  <2>9. p < r
    <3>1. ~(r < p)
      BY <1>5, <2>1, <1>3, <2>6, <2>7 DEF Laid
    <3> QED BY <2>6, <2>7, <2>8, <3>1
  <2>10. r = p + 1
    <3> SUFFICES ASSUME p + 1 < r PROVE FALSE
      BY <2>8, <2>9
    <3>1. p + 1 \in DOMAIN q /\ p < p + 1
      BY <2>8
    <3>2. /\ o[p] < o[p + 1] \/ (o[p] = o[p + 1] /\ w[p] < w[p + 1])
          /\ o[p + 1] < o[r] \/ (o[p + 1] = o[r] /\ w[p + 1] < w[r])
      BY <1>5, <3>1 DEF Laid
    <3>3. o[p + 1] \in 1 .. Len(t) /\ w[p + 1] \in 1 .. Len(s[o[p + 1]])
      BY <1>5, <3>1 DEF Laid
    <3>4. o[p + 1] = o[p] /\ o[p] \in Nat
      BY <1>3, <2>1, <2>7, <3>2, <3>3
    <3>5. w[p + 1] \in 1 .. 2
      BY <2>5, <3>3, <3>4
    <3> QED BY <2>6, <2>7, <3>2, <3>4, <3>5
  <2>11. q[r] = s[o[r]][w[r]]
    BY <1>5 DEF Laid
  <2> QED BY <2>5, <2>7, <2>10, <2>11
<1>9. ASSUME \A n \in DOMAIN t : t[n] # "?"
      PROVE  \E u : Condensed(q, t, u, {})
  <2>1. ASSUME NEW n \in DOMAIN t PROVE s[n] = <<t[n]>>
    <3>1. \A m \in 1 .. n - 1 : m \in DOMAIN t
      BY <1>3
    <3>2. ~InQuery(t, n)
      BY <1>9, <3>1 DEF InQuery
    <3> QED BY <1>2, <1>9, <3>2
  <2> QED BY <1>1, <2>1, CutCondensed
<1> QED BY <1>4, <1>7, <1>8, <1>9 DEF q

-----------------------------------------------------------------------------
(* Sanitize.  redactEmails().                                               *)

(* The longest domain is one.                                               *)
LEMMA LongestDomain ==
    ASSUME NEW t \in Texts, NEW n \in DOMAIN t, Text!Domains(t, n) # {}
    PROVE  Text!Max(Text!Domains(t, n)) \in Text!Domains(t, n)
<1>1. DOMAIN t = 1 .. Len(t) /\ Len(t) \in Nat
  BY LenProperties DEF Texts
<1>2. Text!Domains(t, n) \subseteq Nat /\ \A e \in Text!Domains(t, n) : e <= Len(t)
  BY <1>1 DEF Text!Domains
<1> DEFINE D == Text!Domains(t, n)
<1> HIDE DEF D
<1>3. \E x \in D : \A y \in D : x >= y
  <2>1. \E x \in D : \A y \in D : y <= x
    BY <1>1, <1>2, GreatestExists DEF D
  <2> QED BY <2>1, <1>2 DEF D
<1>4. Text!Max(D) \in D
  BY <1>3 DEF Text!Max
<1> QED BY <1>4 DEF D

(* LocalStart is the first place from which all is letters and full stops.  *)
LEMMA StartIsLeast ==
    ASSUME NEW t, NEW n \in Nat, NEW x \in Nat, x < n
    PROVE  LET s == Text!LocalStart(t, n, x)
               S == {i \in x + 1 .. n : \A m \in i .. n - 1 : t[m] \in Text!Local}
           IN  s \in S /\ \A y \in S : s =< y
<1> DEFINE S == {s \in x + 1 .. n : \A m \in s .. n - 1 : t[m] \in Text!Local}
<1>1. S \subseteq Nat /\ n \in S
  OBVIOUS
<1>2. Text!LocalStart(t, n, x) = Text!Min(S)
  BY DEF Text!LocalStart
<1> HIDE DEF S
<1>3. \E s \in S : \A y \in S : s =< y
  BY <1>1, LeastExists
<1>4. Text!Min(S) \in S /\ \A y \in S : Text!Min(S) =< y
  BY <1>3 DEF Text!Min
<1> QED BY <1>2, <1>4 DEF S

(* From there on it is.                                                     *)
LEMMA StartOfLocal ==
    ASSUME NEW t, NEW n \in Nat, NEW x \in Nat, x < n
    PROVE  /\ Text!LocalStart(t, n, x) \in x + 1 .. n
           /\ \A m \in Text!LocalStart(t, n, x) .. n - 1 : t[m] \in Text!Local
<1> DEFINE s == Text!LocalStart(t, n, x)
<1>1. s \in {i \in x + 1 .. n : \A m \in i .. n - 1 : t[m] \in Text!Local}
  BY StartIsLeast
<1> HIDE DEF s
<1>2. s \in x + 1 .. n /\ \A m \in s .. n - 1 : t[m] \in Text!Local
  BY <1>1
<1> QED BY <1>2 DEF s

(* With a letter in front of the @ it lies before the @.                    *)
LEMMA StartBefore ==
    ASSUME NEW t, NEW n \in Nat, NEW x \in Nat, x < n - 1, t[n - 1] \in Text!Local
    PROVE  Text!LocalStart(t, n, x) < n
<1> DEFINE s == Text!LocalStart(t, n, x)
           S == {i \in x + 1 .. n : \A m \in i .. n - 1 : t[m] \in Text!Local}
<1>1. x < n
  OBVIOUS
<1>2. s \in S /\ \A y \in S : s =< y
  BY <1>1, StartIsLeast
<1>3. n - 1 \in S
  <2>1. \A m \in n - 1 .. n - 1 : m = n - 1
    OBVIOUS
  <2> QED BY <2>1
<1>4. s \in Nat
  BY <1>2
<1> HIDE DEF S, s
<1>5. s =< n - 1
  BY <1>2, <1>3
<1>6. s < n
  BY <1>4, <1>5
<1> QED BY <1>6 DEF s

(* redactEmails(): the end of the address before, at each place.            *)
EndAt(t, x, n) ==
    IF t[n] = "@" /\ Text!Domains(t, n) # {} /\ Text!LocalStart(t, n, x) < n
    THEN Text!Max(Text!Domains(t, n))
    ELSE x

(* f is the function of Addresses.                                          *)
Ends(t, f) == f = [n \in 0 .. Len(t) |-> IF n = 0 THEN 0 ELSE EndAt(t, f[n - 1], n)]

(* There is such a function.                                                *)
LEMMA EndsExist ==
    ASSUME NEW t \in Texts
    PROVE  \E f : Ends(t, f)
<1> DEFINE l == Len(t)
           F == [e \in (1 .. l) \X Nat |-> EndAt(t, e[2], e[1])]
<1>1. l \in Nat /\ DOMAIN t = 1 .. l
  BY LenProperties DEF Texts
<1>2. ASSUME NEW n \in 1 .. l, NEW x \in Nat PROVE EndAt(t, x, n) \in Nat
  <2>1. CASE Text!Domains(t, n) # {}
    <3>1. Text!Max(Text!Domains(t, n)) \in Text!Domains(t, n)
      BY <1>1, <2>1, LongestDomain
    <3>2. Text!Max(Text!Domains(t, n)) \in Nat
      BY <1>1, <3>1 DEF Text!Domains
    <3> QED BY <3>2 DEF EndAt
  <2>2. CASE Text!Domains(t, n) = {}
    BY <2>2 DEF EndAt
  <2> QED BY <2>1, <2>2
<1>3. F \in [(1 .. l) \X Nat -> Nat]
  BY <1>2
<1>4. \A n \in 1 .. l, x \in Nat : F[<<n, x>>] = EndAt(t, x, n)
  OBVIOUS
<1> HIDE DEF F, l
<1>5. PICK g \in [0 .. l -> Nat] : Follows(g, l, 0, F)
  BY <1>1, <1>3, StepsExist
<1>6. ASSUME NEW n \in 0 .. l PROVE g[n] = IF n = 0 THEN 0 ELSE EndAt(t, g[n - 1], n)
  <2>1. CASE n = 0
    BY <1>5, <2>1 DEF Follows
  <2>2. CASE n # 0
    <3>1. n \in 1 .. l /\ g[n - 1] \in Nat
      BY <1>1, <2>2
    <3> QED BY <1>4, <1>5, <2>2, <3>1 DEF Follows
  <2> QED BY <2>1, <2>2
<1>7. g = [n \in 0 .. l |-> IF n = 0 THEN 0 ELSE EndAt(t, g[n - 1], n)]
  BY <1>6
<1>8. Ends(t, g)
  BY <1>7 DEF Ends, l
<1> QED BY <1>8

(* The @ at n ends an address.                                              *)
Redacts(t, f, n) ==
    /\ t[n] = "@" /\ Text!Domains(t, n) # {} /\ Text!LocalStart(t, n, f[n - 1]) < n
    /\ f[n] = Text!Max(Text!Domains(t, n))

(* The last end is that of an address further to the left.                  *)
LEMMA EndsOfAddresses ==
    ASSUME NEW t \in Texts, NEW f, Ends(t, f), NEW n \in 0 .. Len(t)
    PROVE  f[n] = 0 \/ \E k \in 1 .. n : Redacts(t, f, k) /\ f[n] = f[k]
<1> DEFINE Good(k) == f[k] = 0 \/ \E m \in 1 .. k : Redacts(t, f, m) /\ f[k] = f[m]
           T == {k \in 0 .. n : Good(k)}
<1>1. Len(t) \in Nat /\ n \in Nat
  BY LenProperties DEF Texts
<1>2. \A k \in 0 .. Len(t) : f[k] = IF k = 0 THEN 0 ELSE EndAt(t, f[k - 1], k)
  BY DEF Ends
<1>3. 0 \in T
  BY <1>1, <1>2
<1>4. ASSUME NEW k \in T, k < n PROVE k + 1 \in T
  <2>1. k + 1 \in 0 .. n /\ k + 1 \in 0 .. Len(t) /\ k + 1 # 0 /\ (k + 1) - 1 = k /\ k \in Nat
    BY <1>1, <1>4
  <2>2. f[k + 1] = EndAt(t, f[k], k + 1)
    BY <1>2, <2>1
  <2>3. Good(k)
    BY <1>4
  <2>4. CASE t[k + 1] = "@" /\ Text!Domains(t, k + 1) # {} /\ Text!LocalStart(t, k + 1, f[k]) < k + 1
    <3>1. Redacts(t, f, k + 1)
      BY <2>1, <2>2, <2>4 DEF Redacts, EndAt
    <3>2. k + 1 \in 1 .. k + 1
      BY <2>1
    <3>3. Good(k + 1)
      BY <3>1, <3>2
    <3> HIDE DEF Good
    <3> QED BY <2>1, <3>3
  <2>5. CASE ~(t[k + 1] = "@" /\ Text!Domains(t, k + 1) # {} /\ Text!LocalStart(t, k + 1, f[k]) < k + 1)
    <3>1. f[k + 1] = f[k]
      BY <2>2, <2>5 DEF EndAt
    <3>2. \A m \in 1 .. k : m \in 1 .. k + 1
      BY <2>1
    <3>3. Good(k + 1)
      BY <2>3, <3>1, <3>2
    <3> HIDE DEF Good
    <3> QED BY <2>1, <3>3
  <2> QED BY <2>4, <2>5
<1>5. n \in T
  <2>1. T \subseteq Nat
    OBVIOUS
  <2> HIDE DEF T
  <2> QED BY <1>1, <1>3, <1>4, <2>1, CountingReaches
<1> QED BY <1>5

(* No address ends behind an @ that is still to come.                       *)
LEMMA EndBefore ==
    ASSUME NEW t \in Texts, NEW f, Ends(t, f), NEW at \in DOMAIN t
    PROVE  /\ f[at - 1] \in Nat /\ f[at] \in Nat
           /\ t[at] = "@" => f[at - 1] < at
<1>1. Len(t) \in Nat /\ DOMAIN t = 1 .. Len(t)
  BY LenProperties DEF Texts
<1>2. ASSUME NEW n \in 0 .. Len(t), f[n] # 0
      PROVE  \E k \in 1 .. n : k \in DOMAIN t /\ f[n] \in Text!Domains(t, k)
  <2>1. PICK k \in 1 .. n : Redacts(t, f, k) /\ f[n] = f[k]
    BY <1>2, EndsOfAddresses
  <2>2. k \in DOMAIN t
    BY <1>1
  <2> QED BY <2>1, <2>2, LongestDomain DEF Redacts
<1>3. ASSUME NEW n \in 0 .. Len(t) PROVE f[n] \in Nat
  <2>1. CASE f[n] = 0
    BY <2>1
  <2>2. CASE f[n] # 0
    <3>1. PICK k \in 1 .. n : k \in DOMAIN t /\ f[n] \in Text!Domains(t, k)
      BY <1>2, <2>2
    <3>2. f[n] \in DOMAIN t
      BY <3>1, DomainLetters
    <3> QED BY <1>1, <3>2
  <2> QED BY <2>1, <2>2
<1>4. at - 1 \in 0 .. Len(t) /\ at \in 0 .. Len(t)
  BY <1>1
<1>5. ASSUME t[at] = "@", ~(f[at - 1] < at) PROVE FALSE
  <2>1. f[at - 1] \in Nat /\ f[at - 1] >= at /\ f[at - 1] # 0
    BY <1>1, <1>3, <1>4, <1>5
  <2>2. PICK k \in 1 .. at - 1 : k \in DOMAIN t /\ f[at - 1] \in Text!Domains(t, k)
    BY <1>2, <1>4, <2>1
  <2>3. \A m \in k + 1 .. f[at - 1] : t[m] \in Text!Local
    BY <2>2, DomainLetters
  <2>4. at \in k + 1 .. f[at - 1]
    BY <1>1, <2>1, <2>2
  <2> QED BY <1>5, <2>3, <2>4 DEF Text!Local, Text!Letter
<1> QED BY <1>3, <1>4, <1>5

(* Addresses in terms of such a function.                                   *)
LEMMA Addressed ==
    ASSUME NEW t \in Texts
    PROVE  \E f : /\ Ends(t, f)
                  /\ Text!Addresses(t) = {<<Text!LocalStart(t, n, f[n - 1]), f[n]>> :
                                              n \in {m \in DOMAIN t : f[m] # f[m - 1]}}
<1> DEFINE f == CHOOSE f : Ends(t, f)
<1>1. Ends(t, f)
  BY EndsExist
<1>2. Text!Addresses(t) = {<<Text!LocalStart(t, n, f[n - 1]), f[n]>> :
                              n \in {m \in DOMAIN t : f[m] # f[m - 1]}}
  BY DEF Text!Addresses, Ends, EndAt
<1> HIDE DEF f
<1> QED BY <1>1, <1>2

(* An @ that is left has no domain or nothing left in front of it, and      *)
(* nothing goes but letters, full stops and the @ between them.             *)
LEMMA AddressesGone ==
    ASSUME NEW t \in Texts
    PROVE  LET cuts == Text!Addresses(t)  gone == PlacesOf(cuts)
           IN  /\ cuts \subseteq (Nat \ {0}) \X Nat /\ \A k \in cuts : k[1] <= k[2]
               /\ \A n \in gone : t[n] \in Text!Local \cup {"@"}
               /\ \A at \in DOMAIN t \ gone :
                     t[at] = "@" /\ Text!Domains(t, at) # {} /\ at - 1 \in DOMAIN t \ gone
                         => t[at - 1] \notin Text!Local
<1> DEFINE cuts == Text!Addresses(t)
           gone == PlacesOf(cuts)
<1>1. Len(t) \in Nat /\ DOMAIN t = 1 .. Len(t)
  BY LenProperties DEF Texts
<1>2. PICK f : /\ Ends(t, f)
               /\ cuts = {<<Text!LocalStart(t, n, f[n - 1]), f[n]>> :
                              n \in {m \in DOMAIN t : f[m] # f[m - 1]}}
  BY Addressed
<1> DEFINE start(n) == Text!LocalStart(t, n, f[n - 1])
<1>3. \A n \in DOMAIN t : f[n] # f[n - 1] => <<start(n), f[n]>> \in cuts
  BY <1>2
<1>4. ASSUME NEW k \in cuts
      PROVE  \E n \in DOMAIN t : f[n] # f[n - 1] /\ k = <<start(n), f[n]>>
  BY <1>2
<1> HIDE DEF cuts
<1>5. ASSUME NEW n \in DOMAIN t
      PROVE  f[n] = EndAt(t, f[n - 1], n)
  <2>1. n \in 0 .. Len(t) /\ n # 0
    BY <1>1
  <2> QED BY <1>2, <2>1 DEF Ends
<1>6. ASSUME NEW n \in DOMAIN t, f[n] # f[n - 1]
      PROVE  /\ start(n) \in 1 .. n - 1 /\ f[n] \in n + 1 .. Len(t) /\ n \in Nat /\ t[n] = "@"
             /\ \A m \in start(n) .. n - 1 : t[m] \in Text!Local
             /\ \A m \in n + 1 .. f[n] : t[m] \in Text!Local
  <2>1. /\ t[n] = "@" /\ Text!Domains(t, n) # {} /\ start(n) < n
        /\ f[n] = Text!Max(Text!Domains(t, n))
    BY <1>5, <1>6 DEF EndAt
  <2>2. f[n - 1] \in Nat /\ f[n - 1] < n
    BY <1>2, <2>1, EndBefore
  <2>3. start(n) \in f[n - 1] + 1 .. n /\ \A m \in start(n) .. n - 1 : t[m] \in Text!Local
    <3> DEFINE x == f[n - 1]
    <3>1. x \in Nat /\ x < n /\ n \in Nat
      BY <1>1, <2>2
    <3> HIDE DEF x
    <3>2. /\ Text!LocalStart(t, n, x) \in x + 1 .. n
          /\ \A m \in Text!LocalStart(t, n, x) .. n - 1 : t[m] \in Text!Local
      BY <3>1, StartOfLocal
    <3> QED BY <3>2 DEF x
  <2>4. f[n] \in Text!Domains(t, n)
    BY <2>1, LongestDomain
  <2>5. f[n] \in DOMAIN t /\ n < f[n] /\ \A m \in n + 1 .. f[n] : t[m] \in Text!Local
    BY <2>4, DomainLetters
  <2> HIDE DEF start
  <2> QED BY <1>1, <2>1, <2>2, <2>3, <2>5
<1>7. ASSUME NEW k \in cuts
      PROVE  /\ k \in (Nat \ {0}) \X Nat /\ k[1] <= k[2]
             /\ \A m \in k[1] .. k[2] : t[m] \in Text!Local \cup {"@"}
  <2>1. PICK n \in DOMAIN t : f[n] # f[n - 1] /\ k = <<start(n), f[n]>>
    BY <1>4
  <2>2. /\ start(n) \in 1 .. n - 1 /\ f[n] \in n + 1 .. Len(t) /\ n \in Nat /\ t[n] = "@"
        /\ \A m \in start(n) .. n - 1 : t[m] \in Text!Local
        /\ \A m \in n + 1 .. f[n] : t[m] \in Text!Local
    BY <1>6, <2>1
  <2> HIDE DEF start
  <2>3. k[1] = start(n) /\ k[2] = f[n]
    BY <2>1
  <2>4. ASSUME NEW m \in k[1] .. k[2] PROVE t[m] \in Text!Local \cup {"@"}
    <3>1. m \in start(n) .. n - 1 \/ m = n \/ m \in n + 1 .. f[n]
      BY <1>1, <2>2, <2>3
    <3> QED BY <2>2, <3>1
  <2> QED BY <1>1, <2>1, <2>2, <2>3, <2>4
<1>8. \A n \in gone : t[n] \in Text!Local \cup {"@"}
  BY <1>7 DEF PlacesOf
<1>9. ASSUME NEW at \in DOMAIN t \ gone, t[at] = "@", Text!Domains(t, at) # {},
             at - 1 \in DOMAIN t \ gone, t[at - 1] \in Text!Local
      PROVE  FALSE
  <2>1. f[at - 1] \in Nat /\ f[at - 1] < at
    BY <1>2, <1>9, EndBefore
  <2>2. f[at - 1] # at - 1
    <3> SUFFICES ASSUME f[at - 1] = at - 1 PROVE FALSE
      OBVIOUS
    <3>1. at - 1 \in 0 .. Len(t) /\ f[at - 1] # 0
      BY <1>1, <1>9
    <3>2. PICK k \in 1 .. at - 1 : Redacts(t, f, k) /\ f[at - 1] = f[k]
      BY <1>2, <3>1, EndsOfAddresses
    <3>3. k \in DOMAIN t
      BY <1>1
    <3>4. f[k - 1] \in Nat /\ f[k - 1] < k
      BY <1>2, <3>2, <3>3, EndBefore DEF Redacts
    <3>5. f[k] \in DOMAIN t /\ k < f[k]
      BY <3>2, <3>3, LongestDomain, DomainLetters DEF Redacts
    <3>6. f[k] # f[k - 1]
      BY <1>1, <3>3, <3>4, <3>5
    <3>7. <<start(k), f[k]>> \in cuts /\ start(k) \in 1 .. k - 1 /\ k \in Nat
      BY <1>3, <1>6, <3>3, <3>6
    <3> HIDE DEF start
    <3>8. f[k] \in start(k) .. f[k]
      BY <1>1, <3>5, <3>7
    <3>9. f[k] \in gone
      BY <3>7, <3>8 DEF PlacesOf
    <3> QED BY <1>9, <3>2, <3>9
  <2>3. f[at - 1] < at - 1
    BY <1>1, <2>1, <2>2
  <2>4. start(at) < at
    <3> DEFINE x == f[at - 1]
    <3>1. x \in Nat /\ x < at - 1 /\ at \in Nat
      BY <1>1, <2>1, <2>3
    <3> HIDE DEF x
    <3>2. Text!LocalStart(t, at, x) < at
      BY <1>9, <3>1, StartBefore
    <3> QED BY <3>2 DEF x
  <2>5. f[at] = Text!Max(Text!Domains(t, at))
    BY <1>5, <1>9, <2>4 DEF EndAt
  <2>6. f[at] \in DOMAIN t /\ at < f[at]
    BY <1>9, <2>5, LongestDomain, DomainLetters
  <2>7. f[at] # f[at - 1]
    BY <1>1, <2>1, <2>6
  <2>8. <<start(at), f[at]>> \in cuts /\ start(at) \in 1 .. at - 1
    BY <1>3, <1>6, <2>7
  <2> HIDE DEF start
  <2>9. at \in start(at) .. f[at]
    BY <1>1, <2>6, <2>8
  <2>10. at \in gone
    BY <2>8, <2>9 DEF PlacesOf
  <2> QED BY <2>10
<1> HIDE DEF gone
<1>10. cuts \subseteq (Nat \ {0}) \X Nat /\ \A k \in cuts : k[1] <= k[2]
  BY <1>7
<1> QED BY <1>8, <1>9, <1>10 DEF gone, cuts

(* redactEmails() leaves no address, and every blank.                       *)
LEMMA EmailsGone ==
    ASSUME NEW t \in Texts
    PROVE  LET e == Text!RedactEmails(t)
           IN  /\ e \in Texts /\ NoAddress(e)
               /\ \E o : Excerpts(e, t, o)
               /\ Cardinality(Text!Blanks(e)) = Cardinality(Text!Blanks(t))
<1> DEFINE e == Text!RedactEmails(t)
           cuts == Text!Addresses(t)
           gone == PlacesOf(cuts)
<1>1. /\ cuts \subseteq (Nat \ {0}) \X Nat /\ \A k \in cuts : k[1] <= k[2]
      /\ \A n \in gone : t[n] \in Text!Local \cup {"@"}
      /\ \A at \in DOMAIN t \ gone :
            t[at] = "@" /\ Text!Domains(t, at) # {} /\ at - 1 \in DOMAIN t \ gone
                => t[at - 1] \notin Text!Local
  BY AddressesGone
<1>2. e = Text!Replaced(t, cuts)
  BY DEF Text!RedactEmails
<1> HIDE DEF cuts, e
<1>3. e \in Texts /\ \E o : Condensed(e, t, o, gone)
  BY <1>1, <1>2, ReplacedCondenses
<1> HIDE DEF gone
<1>4. PICK o : Condensed(e, t, o, gone)
  BY <1>3
<1>5. Excerpts(e, t, o)
  BY <1>4 DEF Condensed
<1>6. NoAddress(e)
  <2> SUFFICES ASSUME NEW at \in 2 .. Len(e), e[at] = "@", Text!Domains(e, at) # {},
                      e[at - 1] \in Text!Local
               PROVE  FALSE
    BY DEF NoAddress
  <2>1. DOMAIN e = 1 .. Len(e) /\ Len(e) \in Nat /\ DOMAIN t = 1 .. Len(t) /\ Len(t) \in Nat
    BY <1>3, LenProperties DEF Texts
  <2>2. at \in DOMAIN e /\ at - 1 \in DOMAIN e /\ at = (at - 1) + 1
    BY <2>1
  <2>3. o[at] \in DOMAIN t /\ t[o[at]] = "@" /\ Text!Domains(t, o[at]) # {}
    BY <1>3, <1>5, <2>2, ExcerptDomain
  <2>4. e[at - 1] # Text!Redacted /\ e[at] # Text!Redacted
    BY LocalPrinted
  <2>5. o[at] = o[at - 1] + 1 /\ o[at - 1] \in DOMAIN t /\ e[at - 1] = t[o[at - 1]]
    BY <1>5, <2>2, <2>4 DEF Excerpts
  <2>6. o[at] \notin gone /\ o[at - 1] \notin gone /\ o[at] - 1 = o[at - 1]
    BY <1>4, <2>1, <2>2, <2>4, <2>5 DEF Condensed
  <2> QED BY <1>1, <2>3, <2>5, <2>6
<1>7. \E u : Excerpts(e, t, u)
  BY <1>5
<1>8. Cardinality(Text!Blanks(e)) = Cardinality(Text!Blanks(t))
  <2>1. \A n \in DOMAIN t : t[n] = "blank" => n \notin gone
    BY <1>1 DEF Text!Local, Text!Letter
  <2> QED BY <1>3, <1>4, <2>1, BlanksLeft
<1> QED BY <1>3, <1>6, <1>7, <1>8 DEF e

-----------------------------------------------------------------------------
(* Sanitize.  The tokens.                                                   *)

(* Between two ends of segments there is a whole segment.                   *)
SegmentEnds(run) == {0, Len(run) + 1} \cup {n \in DOMAIN run : run[n] = "."}

(* No segment of a token is short.                                          *)
LEMMA SegmentsLong ==
    ASSUME NEW run \in Texts, Text!IsCompactJose(run),
           NEW a \in SegmentEnds(run), NEW b \in SegmentEnds(run), a < b
    PROVE  b - a >= MinSegment + 1
<1> DEFINE ends == SegmentEnds(run)
           S == {n \in ends : a < n}
<1>1. DOMAIN run = 1 .. Len(run) /\ Len(run) \in Nat
  BY LenProperties DEF Texts
<1>2. ends \subseteq Nat /\ MinSegment \in Nat
  BY <1>1, LimitsAssumption DEF SegmentEnds
<1>3. \A x, y \in ends : (x < y /\ \A n \in ends : n <= x \/ y <= n) => y - x - 1 >= MinSegment
  BY DEF Text!IsCompactJose, SegmentEnds
<1> HIDE DEF ends
<1>4. S \subseteq Nat /\ b \in S
  BY <1>2 DEF ends
<1>5. PICK m \in S : \A n \in S : m <= n
  BY <1>4, LeastExists
<1>6. m \in ends /\ a \in ends /\ a < m /\ m <= b
  BY <1>4, <1>5 DEF ends
<1>7. \A n \in ends : n <= a \/ m <= n
  BY <1>2, <1>5, <1>6
<1>8. m - a - 1 >= MinSegment
  BY <1>3, <1>6, <1>7
<1>9. a \in Nat /\ b \in Nat /\ m \in Nat
  BY <1>2, <1>6 DEF ends
<1> QED BY <1>2, <1>6, <1>8, <1>9

(* A token has two full stops at least.                                     *)
LEMMA TwoDots ==
    ASSUME NEW run \in Texts, Text!IsCompactJose(run)
    PROVE  \E c, d \in DOMAIN run : run[c] = "." /\ run[d] = "." /\ c < d
<1> DEFINE dots == {n \in DOMAIN run : run[n] = "."}
<1>1. DOMAIN run = 1 .. Len(run) /\ Len(run) \in Nat
  BY LenProperties DEF Texts
<1>2. Cardinality(dots) \in 2 .. 4
  BY TextCounts DEF Text!IsCompactJose
<1>3. \A n \in dots : n \in Nat /\ n \in DOMAIN run /\ run[n] = "."
  BY <1>1
<1> HIDE DEF dots
<1>4. dots # {}
  BY <1>2, FS_EmptySet
<1>5. PICK c \in dots : TRUE
  BY <1>4
<1>6. dots # {c}
  BY <1>2, FS_Singleton
<1>7. PICK d \in dots : d # c
  BY <1>4, <1>5, <1>6
<1>8. c < d \/ d < c
  BY <1>3, <1>7
<1> QED BY <1>3, <1>8

(* So it is no shorter than the runs that are looked at.                    *)
LEMMA TokenLong ==
    ASSUME NEW run \in Texts, Text!IsCompactJose(run)
    PROVE  Len(run) >= 3 * MinSegment + 2
<1> DEFINE l == Len(run)  k == MinSegment
<1>1. DOMAIN run = 1 .. l /\ l \in Nat /\ k \in Nat
  BY LenProperties, LimitsAssumption DEF Texts
<1>2. PICK c, d \in DOMAIN run : run[c] = "." /\ run[d] = "." /\ c < d
  BY TwoDots
<1>3. {0, c, d, l + 1} \subseteq SegmentEnds(run)
  BY <1>2 DEF SegmentEnds
<1>4. 0 < c /\ d < l + 1 /\ c \in Nat /\ d \in Nat
  BY <1>1
<1>5. c - 0 >= k + 1 /\ d - c >= k + 1 /\ (l + 1) - d >= k + 1
  BY <1>2, <1>3, <1>4, SegmentsLong
<1> HIDE DEF l, k
<1>6. l >= 3 * k + 2
  BY <1>1, <1>4, <1>5
<1> QED BY <1>6 DEF l, k

(* It does not begin or end with a full stop.                               *)
LEMMA TokenEnds ==
    ASSUME NEW run \in Texts, Text!IsCompactJose(run)
    PROVE  Len(run) >= 1 /\ run[1] # "." /\ run[Len(run)] # "."
<1> DEFINE l == Len(run)  k == MinSegment
<1>1. DOMAIN run = 1 .. l /\ l \in Nat /\ k \in Nat /\ k >= 1
  BY LenProperties, LimitsAssumption DEF Texts
<1>2. l >= 3 * k + 2
  BY TokenLong
<1>3. 1 \in DOMAIN run /\ l \in DOMAIN run /\ l >= 1
  BY <1>1, <1>2
<1>4. 0 \in SegmentEnds(run) /\ l + 1 \in SegmentEnds(run)
  BY DEF SegmentEnds
<1>7. \A a, b \in SegmentEnds(run) : a < b => b - a >= k + 1
  BY SegmentsLong
<1>5. ASSUME run[1] = "." PROVE FALSE
  <2>1. 1 \in SegmentEnds(run)
    BY <1>3, <1>5 DEF SegmentEnds
  <2>2. 1 - 0 >= k + 1
    BY <1>4, <1>7, <2>1
  <2> QED BY <1>1, <2>2
<1>6. ASSUME run[l] = "." PROVE FALSE
  <2>1. l \in SegmentEnds(run)
    BY <1>3, <1>6 DEF SegmentEnds
  <2>2. \A b \in SegmentEnds(run) : l < b => b - l >= k + 1
    BY <1>7, <2>1
  <2> HIDE DEF l, k
  <2> QED BY <1>1, <1>4, <2>1, <2>2
<1> QED BY <1>3, <1>5, <1>6

(* k tells of what is left of i .. j without the full stops around it.      *)
Trims(t, i, j, k) ==
    /\ k \in Nat \X Nat /\ i <= k[1] /\ k[1] <= k[2] /\ k[2] <= j
    /\ \A n \in i .. j : t[n] # "." => t[k[1]] # "." /\ t[k[2]] # "." /\ k[1] <= n /\ n <= k[2]

(* Trimmed does so.                                                         *)
LEMMA TrimmedTrims ==
    ASSUME NEW t, NEW i \in Nat, NEW j \in Nat, i <= j
    PROVE  Trims(t, i, j, Text!Trimmed(t, i, j))
<1> DEFINE letters == {n \in i .. j : t[n] # "."}
<1>1. /\ letters \subseteq Nat /\ \A n \in letters : n <= j /\ i <= n
      /\ \A n \in i .. j : t[n] # "." => n \in letters
      /\ \A n \in letters : t[n] # "."
  OBVIOUS
<1>2. Text!Trimmed(t, i, j) = IF letters = {} THEN <<i, j>>
                              ELSE <<Text!Min(letters), Text!Max(letters)>>
  BY DEF Text!Trimmed
<1> HIDE DEF letters
<1>3. CASE letters = {}
  <2> DEFINE k == <<i, j>>
  <2>1. k \in Nat \X Nat /\ k[1] = i /\ k[2] = j
    OBVIOUS
  <2>2. Text!Trimmed(t, i, j) = k
    BY <1>2, <1>3
  <2> HIDE DEF k
  <2>3. Trims(t, i, j, k)
    BY <1>1, <1>3, <2>1 DEF Trims
  <2> QED BY <2>2, <2>3
<1>4. CASE letters # {}
  <2> DEFINE a == Text!Min(letters)  b == Text!Max(letters)  k == <<a, b>>
  <2>1. a \in letters /\ \A n \in letters : a <= n
    <3>1. \E x \in letters : \A y \in letters : x =< y
      BY <1>1, <1>4, LeastExists
    <3> QED BY <3>1 DEF Text!Min
  <2>2. b \in letters /\ \A n \in letters : n <= b
    <3>1. \E x \in letters : \A y \in letters : y <= x
      BY <1>1, <1>4, GreatestExists
    <3>2. \E x \in letters : \A y \in letters : x >= y
      BY <1>1, <3>1
    <3>3. b \in letters /\ \A y \in letters : b >= y
      BY <3>2 DEF Text!Max
    <3> HIDE DEF b
    <3> QED BY <1>1, <3>3
  <2>3. Text!Trimmed(t, i, j) = k
    BY <1>2, <1>4
  <2> HIDE DEF a, b
  <2>4. a \in Nat /\ b \in Nat /\ k[1] = a /\ k[2] = b /\ k \in Nat \X Nat
    BY <1>1, <2>1, <2>2
  <2> HIDE DEF k
  <2>5. i <= a /\ a <= b /\ b <= j
    BY <1>1, <2>1, <2>2
  <2>6. Trims(t, i, j, k)
    BY <1>1, <2>1, <2>2, <2>4, <2>5 DEF Trims
  <2> QED BY <2>3, <2>6
<1> QED BY <1>3, <1>4

(* A stretch holds all that joins it.                                       *)
LEMMA StretchHolds ==
    ASSUME NEW t \in Texts, NEW r \in Text!Stretches(t, Text!Local),
           NEW a \in DOMAIN t, NEW b \in DOMAIN t, a <= b,
           \A n \in a .. b : t[n] \in Text!Local,
           NEW m \in r[1] .. r[2], a - 1 <= m, m <= b + 1
    PROVE  r[1] <= a /\ b <= r[2]
<1>1. DOMAIN t = 1 .. Len(t) /\ Len(t) \in Nat
  BY LenProperties DEF Texts
<1>2. /\ r[1] \in DOMAIN t /\ r[2] \in DOMAIN t
      /\ r[1] > 1 => t[r[1] - 1] \notin Text!Local
      /\ r[2] < Len(t) => t[r[2] + 1] \notin Text!Local
  BY DEF Text!Stretches
<1>3. ASSUME a < r[1] PROVE FALSE
  <2>1. r[1] > 1 /\ r[1] - 1 \in a .. b
    BY <1>1, <1>2, <1>3
  <2> QED BY <1>2, <2>1
<1>4. ASSUME r[2] < b PROVE FALSE
  <2>1. r[2] < Len(t) /\ r[2] + 1 \in a .. b
    BY <1>1, <1>2, <1>4
  <2> QED BY <1>2, <2>1
<1> QED BY <1>1, <1>2, <1>3, <1>4

(* A token lies in a stretch that is trimmed to it.                         *)
LEMMA TokenPlaces ==
    ASSUME NEW t \in Texts, NEW k \in Text!Tokens(t)
    PROVE  \E r \in Text!Stretches(t, Text!Local) :
              r[1] \in Nat \ {0} /\ r[2] \in Nat /\ Trims(t, r[1], r[2], k)
<1>1. DOMAIN t = 1 .. Len(t) /\ Len(t) \in Nat
  BY LenProperties DEF Texts
<1>2. PICK r \in Text!Stretches(t, Text!Local) : k = Text!Trimmed(t, r[1], r[2])
  BY DEF Text!Tokens
<1>3. r[1] \in Nat \ {0} /\ r[2] \in Nat /\ r[1] <= r[2]
  BY <1>1 DEF Text!Stretches
<1>4. Trims(t, r[1], r[2], Text!Trimmed(t, r[1], r[2]))
  BY <1>3, TrimmedTrims
<1> QED BY <1>2, <1>3, <1>4

(* What is left next to a token of its stretch are full stops.              *)
LEMMA NextToToken ==
    ASSUME NEW t \in Texts, NEW k \in Text!Tokens(t),
           NEW a \in DOMAIN t, NEW b \in DOMAIN t, a <= b,
           \A n \in a .. b : t[n] \in Text!Local /\ n \notin k[1] .. k[2],
           NEW m \in k[1] .. k[2], m = a - 1 \/ m = b + 1
    PROVE  \A n \in a .. b : t[n] = "."
<1>1. DOMAIN t = 1 .. Len(t) /\ Len(t) \in Nat
  BY LenProperties DEF Texts
<1>2. PICK r \in Text!Stretches(t, Text!Local) :
           r[1] \in Nat \ {0} /\ r[2] \in Nat /\ Trims(t, r[1], r[2], k)
  BY TokenPlaces
<1>3. k[1] \in Nat /\ k[2] \in Nat /\ r[1] <= k[1] /\ k[1] <= k[2] /\ k[2] <= r[2]
  BY <1>2 DEF Trims
<1>4. m \in r[1] .. r[2] /\ a - 1 <= m /\ m <= b + 1
  BY <1>1, <1>2, <1>3
<1>5. r[1] <= a /\ b <= r[2]
  BY <1>4, StretchHolds
<1>6. ASSUME NEW n \in a .. b, t[n] # "." PROVE FALSE
  <2>1. n \in r[1] .. r[2]
    BY <1>1, <1>2, <1>5
  <2>2. k[1] <= n /\ n <= k[2]
    BY <1>2, <1>6, <2>1 DEF Trims
  <2>3. n \in k[1] .. k[2]
    BY <1>1, <1>3, <2>2
  <2> QED BY <2>3
<1> QED BY <1>6

(* A token in what is printed, with full stops around it at most.           *)
NoToken(t) ==
    \A s \in Text!Stretches(t, Text!Local) :
        \A i, j \in s[1] .. s[2] :
            /\ i <= j
            /\ \A n \in s[1] .. s[2] : n \notin i .. j => t[n] = "."
            => ~Text!IsCompactJose(SubSeq(t, i, j))

(* What Stretches says, at the places that exist.                           *)
LEMMA StretchBounds ==
    ASSUME NEW t \in Texts, NEW r \in Text!Stretches(t, Text!Local)
    PROVE  /\ r[1] \in DOMAIN t /\ r[2] \in DOMAIN t /\ r[1] <= r[2]
           /\ r[1] \in Nat \ {0} /\ r[2] \in Nat
           /\ \A n \in r[1] .. r[2] : n \in DOMAIN t /\ t[n] \in Text!Local
           /\ r[1] - 1 \in DOMAIN t => t[r[1] - 1] \notin Text!Local
           /\ r[2] + 1 \in DOMAIN t => t[r[2] + 1] \notin Text!Local
<1>1. DOMAIN t = 1 .. Len(t) /\ Len(t) \in Nat
  BY LenProperties DEF Texts
<1>2. /\ r[1] \in DOMAIN t /\ r[2] \in DOMAIN t /\ r[1] <= r[2]
      /\ \A n \in r[1] .. r[2] : t[n] \in Text!Local
      /\ r[1] > 1 => t[r[1] - 1] \notin Text!Local
      /\ r[2] < Len(t) => t[r[2] + 1] \notin Text!Local
  BY DEF Text!Stretches
<1> QED BY <1>1, <1>2

(* Length and ends of a part of a text.                                     *)
LEMMA SubSeqLong ==
    ASSUME NEW t \in Texts, NEW i \in DOMAIN t, NEW j \in DOMAIN t, i <= j
    PROVE  /\ SubSeq(t, i, j) \in Texts /\ Len(SubSeq(t, i, j)) = j - i + 1
           /\ SubSeq(t, i, j)[1] = t[i] /\ SubSeq(t, i, j)[j - i + 1] = t[j]
<1>1. DOMAIN t = 1 .. Len(t) /\ Len(t) \in Nat
  BY LenProperties DEF Texts
<1>2. i \in Int /\ j \in Int /\ \A n \in i .. j : t[n] \in Printable
  BY <1>1 DEF Texts
<1>3. /\ SubSeq(t, i, j) \in Seq(Printable) /\ Len(SubSeq(t, i, j)) = j - i + 1
      /\ \A n \in 1 .. j - i + 1 : SubSeq(t, i, j)[n] = t[i + n - 1]
  BY <1>2, SubSeqProperties
<1>4. /\ 1 \in 1 .. j - i + 1 /\ i + 1 - 1 = i
      /\ j - i + 1 \in 1 .. j - i + 1 /\ i + (j - i + 1) - 1 = j
  BY <1>2
<1> QED BY <1>3, <1>4 DEF Texts

(* A token that fills a stretch but for full stops is found.                *)
LEMMA TokenFound ==
    ASSUME NEW t \in Texts, NEW a \in DOMAIN t, NEW b \in DOMAIN t,
           <<a, b>> \in Text!Stretches(t, Text!Local),
           NEW x \in a .. b, NEW y \in a .. b, x <= y,
           \A n \in a .. b : n \notin x .. y => t[n] = ".",
           Text!IsCompactJose(SubSeq(t, x, y))
    PROVE  <<x, y>> \in Text!Tokens(t)
<1>1. DOMAIN t = 1 .. Len(t) /\ Len(t) \in Nat /\ MinSegment \in Nat
  BY LenProperties, LimitsAssumption DEF Texts
<1>2. x \in DOMAIN t /\ y \in DOMAIN t /\ a <= b
  BY <1>1
<1> DEFINE run == SubSeq(t, x, y)  k == Text!Trimmed(t, a, b)  r == <<a, b>>
<1>3. /\ run \in Texts /\ Len(run) = y - x + 1 /\ run[1] = t[x] /\ run[y - x + 1] = t[y]
  BY <1>2, SubSeqLong
<1>4. Text!IsCompactJose(run)
  OBVIOUS
<1> HIDE DEF run
<1>5. y - x + 1 >= 3 * MinSegment + 2
  BY <1>3, <1>4, TokenLong
<1>6. t[x] # "." /\ t[y] # "."
  BY <1>3, <1>4, TokenEnds
<1>7. Trims(t, a, b, k)
  BY <1>1, <1>2, TrimmedTrims
<1> HIDE DEF k
<1>8. k = <<x, y>>
  <2>1. k = <<k[1], k[2]>> /\ k[1] \in Nat /\ k[2] \in Nat
    BY <1>7 DEF Trims
  <2>2. k[1] <= x /\ y <= k[2] /\ t[k[1]] # "." /\ t[k[2]] # "." /\ a <= k[1] /\ k[2] <= b
    BY <1>6, <1>7 DEF Trims
  <2>3. k[1] \in a .. b /\ k[2] \in a .. b
    BY <1>1, <2>1, <2>2
  <2>4. k[1] \in x .. y /\ k[2] \in x .. y
    BY <2>2, <2>3
  <2>5. k[1] = x /\ k[2] = y
    BY <1>1, <1>2, <2>2, <2>4
  <2> QED BY <2>1, <2>5
<1>9. r \in Text!Stretches(t, Text!Local) /\ r[1] = a /\ r[2] = b
  OBVIOUS
<1>10. r[2] - r[1] + 1 >= 3 * MinSegment + 2
  <2>1. b - a + 1 >= 3 * MinSegment + 2
    <3> DEFINE m == 3 * MinSegment + 2
    <3>1. y - x + 1 >= m /\ m \in Nat
      BY <1>1, <1>5
    <3> HIDE DEF m
    <3>2. b - a + 1 >= m
      BY <1>1, <1>2, <3>1
    <3> QED BY <3>2 DEF m
  <2> QED BY <1>9, <2>1
<1>11. k = Text!Trimmed(t, r[1], r[2])
  BY <1>9 DEF k
<1>12. k[1] = x /\ k[2] = y /\ Text!IsCompactJose(SubSeq(t, k[1], k[2]))
  BY <1>8
<1> HIDE DEF r
<1>13. k \in Text!Tokens(t)
  BY <1>9, <1>10, <1>11, <1>12 DEF Text!Tokens
<1> QED BY <1>8, <1>13

(* Tokens are stretches of letters and full stops.                          *)
LEMMA TokenCuts ==
    ASSUME NEW t \in Texts
    PROVE  /\ Text!Tokens(t) \subseteq (Nat \ {0}) \X Nat
           /\ \A k \in Text!Tokens(t) : k[1] <= k[2]
           /\ \A n \in PlacesOf(Text!Tokens(t)) : t[n] \in Text!Local
<1>1. ASSUME NEW k \in Text!Tokens(t)
      PROVE  /\ k \in (Nat \ {0}) \X Nat /\ k[1] <= k[2]
             /\ \A n \in k[1] .. k[2] : t[n] \in Text!Local
  <2>1. PICK r \in Text!Stretches(t, Text!Local) :
           r[1] \in Nat \ {0} /\ r[2] \in Nat /\ Trims(t, r[1], r[2], k)
    BY TokenPlaces
  <2>2. k \in Nat \X Nat /\ r[1] <= k[1] /\ k[1] <= k[2] /\ k[2] <= r[2]
    BY <2>1 DEF Trims
  <2>3. k[1] \in Nat \ {0}
    BY <2>1, <2>2
  <2>4. \A n \in k[1] .. k[2] : n \in r[1] .. r[2]
    BY <2>1, <2>2
  <2>5. \A n \in r[1] .. r[2] : t[n] \in Text!Local
    BY <2>1, StretchBounds
  <2> QED BY <2>2, <2>3, <2>4, <2>5
<1>2. \A n \in PlacesOf(Text!Tokens(t)) : t[n] \in Text!Local
  BY <1>1 DEF PlacesOf
<1> QED BY <1>1, <1>2

(* redactTokens() leaves no token: a stretch of what is printed was one of  *)
(* the text, and the token in it would have been found, or it lies next to  *)
(* a token that was, and then it is all full stops.                         *)
LEMMA TokensGone ==
    ASSUME NEW t \in Texts, NEW out \in Texts, NEW o,
           Condensed(out, t, o, PlacesOf(Text!Tokens(t)))
    PROVE  NoToken(out)
<1> DEFINE gone == PlacesOf(Text!Tokens(t))
<1> SUFFICES ASSUME NEW s \in Text!Stretches(out, Text!Local),
                    NEW i \in s[1] .. s[2], NEW j \in s[1] .. s[2], i <= j,
                    \A n \in s[1] .. s[2] : n \notin i .. j => out[n] = ".",
                    Text!IsCompactJose(SubSeq(out, i, j))
             PROVE  FALSE
  BY DEF NoToken
<1> DEFINE p == s[1]  q == s[2]
<1>1. /\ DOMAIN t = 1 .. Len(t) /\ Len(t) \in Nat
      /\ DOMAIN out = 1 .. Len(out) /\ Len(out) \in Nat
  BY LenProperties DEF Texts
<1>2. /\ p \in DOMAIN out /\ q \in DOMAIN out /\ p <= q /\ p \in Nat \ {0} /\ q \in Nat
      /\ \A n \in p .. q : n \in DOMAIN out /\ out[n] \in Text!Local
      /\ p - 1 \in DOMAIN out => out[p - 1] \notin Text!Local
      /\ q + 1 \in DOMAIN out => out[q + 1] \notin Text!Local
  BY StretchBounds
<1>3. i \in p .. q /\ j \in p .. q /\ \A n \in p .. q : n \notin i .. j => out[n] = "."
  OBVIOUS
<1> HIDE DEF p, q
<1>4. \A n \in p .. q : out[n] # Text!Redacted
  BY <1>2, LocalPrinted
<1>5. Excerpts(out, t, o)
  BY DEF Condensed
<1>6. \A n \in p .. q : o[n] = o[p] + (n - p)
  BY <1>2, <1>4, <1>5, ExcerptRuns
<1>7. \A n \in p .. q : o[n] \in DOMAIN t /\ out[n] = t[o[n]] /\ o[n] \notin gone
  BY <1>2, <1>4, <1>5 DEF Condensed, Excerpts
<1> DEFINE a == o[p]  b == o[q]  x == o[i]  y == o[j]
<1>8. /\ a \in DOMAIN t /\ b \in DOMAIN t /\ x \in DOMAIN t /\ y \in DOMAIN t
      /\ b = a + (q - p) /\ x = a + (i - p) /\ y = a + (j - p)
  <2>1. p \in p .. q /\ q \in p .. q
    BY <1>2
  <2> QED BY <1>3, <1>6, <1>7, <2>1
<1>9. SubSeq(out, i, j) = SubSeq(t, x, y)
  <2>1. i \in DOMAIN out /\ j \in DOMAIN out /\ \A n \in i .. j : out[n] # Text!Redacted
    BY <1>2, <1>3, <1>4
  <2> QED BY <1>5, <2>1, ExcerptPart
<1> HIDE DEF a, b, x, y
<1>10. Text!IsCompactJose(SubSeq(t, x, y))
  BY <1>9
<1>11. a <= b /\ x <= y /\ x \in a .. b /\ y \in a .. b
  BY <1>1, <1>2, <1>3, <1>8
<1>12. \A n \in a .. b : p + (n - a) \in p .. q /\ o[p + (n - a)] = n
  <2> SUFFICES ASSUME NEW n \in a .. b PROVE p + (n - a) \in p .. q /\ o[p + (n - a)] = n
    OBVIOUS
  <2> DEFINE m == p + (n - a)
  <2>3. n \in Int /\ a \in Int /\ p \in Int /\ q \in Int /\ a <= n /\ n <= a + (q - p)
    BY <1>1, <1>2, <1>8
  <2>1. m \in p .. q /\ a + (m - p) = n
    BY <2>3
  <2> HIDE DEF m
  <2>2. o[m] = n
    BY <1>6, <2>1 DEF a
  <2> QED BY <2>1, <2>2 DEF m
<1>13. \A n \in a .. b : n \in DOMAIN t /\ t[n] \in Text!Local /\ n \notin gone
  BY <1>2, <1>7, <1>12
<1>14. \A n \in a .. b : n \notin x .. y => t[n] = "."
  <2> SUFFICES ASSUME NEW n \in a .. b, n \notin x .. y PROVE t[n] = "."
    OBVIOUS
  <2> DEFINE m == p + (n - a)
  <2>1. m \in p .. q /\ o[m] = n
    BY <1>12
  <2>2. m \notin i .. j
    <3>1. /\ n \in Int /\ x = a + (i - p) /\ y = a + (j - p) /\ (n < x \/ y < n)
          /\ a \in Int /\ p \in Int /\ i \in Int /\ j \in Int
      BY <1>1, <1>2, <1>3, <1>8
    <3> QED BY <3>1
  <2> HIDE DEF m
  <2> QED BY <1>3, <1>7, <2>1, <2>2
<1>15. t[x] # "." /\ x \notin gone
  <2>1. t[x] # "."
    <3>1. /\ SubSeq(t, x, y) \in Texts /\ SubSeq(t, x, y)[1] = t[x]
      BY <1>8, <1>11, SubSeqLong
    <3> QED BY <1>10, <3>1, TokenEnds
  <2> QED BY <1>11, <1>13, <2>1
<1>16. \A k \in Text!Tokens(t) : \A n \in k[1] .. k[2] : n \in gone
  BY DEF PlacesOf
<1>17. ASSUME a - 1 \in gone \/ b + 1 \in gone
       PROVE  FALSE
  <2>1. PICK k \in Text!Tokens(t) : \E m \in k[1] .. k[2] : m = a - 1 \/ m = b + 1
    BY <1>17 DEF PlacesOf
  <2>2. \A n \in a .. b : t[n] \in Text!Local /\ n \notin k[1] .. k[2]
    BY <1>13, <1>16
  <2> HIDE DEF gone
  <2>3. \A n \in a .. b : t[n] = "."
    BY <1>8, <1>11, <2>1, <2>2, NextToToken
  <2> QED BY <1>11, <1>15, <2>3
<1> HIDE DEF gone
<1>18. ASSUME a - 1 \in DOMAIN t PROVE t[a - 1] \notin Text!Local
  <2>1. a - 1 \in DOMAIN t \ gone
    BY <1>17, <1>18
  <2>2. p - 1 \in DOMAIN out /\ out[p - 1] = t[a - 1]
    BY <1>2, <2>1, CondensedNext DEF a, gone
  <2> QED BY <1>2, <2>2
<1>19. ASSUME b + 1 \in DOMAIN t PROVE t[b + 1] \notin Text!Local
  <2>1. b + 1 \in DOMAIN t \ gone
    BY <1>17, <1>19
  <2>2. q + 1 \in DOMAIN out /\ out[q + 1] = t[b + 1]
    BY <1>2, <2>1, CondensedNext DEF b, gone
  <2> QED BY <1>2, <2>2
<1>20. <<a, b>> \in Text!Stretches(t, Text!Local)
  <2>1. a > 1 => a - 1 \in DOMAIN t
    BY <1>1, <1>8
  <2>2. b < Len(t) => b + 1 \in DOMAIN t
    BY <1>1, <1>8
  <2> DEFINE r == <<a, b>>
  <2>3. r[1] = a /\ r[2] = b /\ r \in (DOMAIN t) \X (DOMAIN t)
    BY <1>8
  <2> HIDE DEF r
  <2>4. r \in Text!Stretches(t, Text!Local)
    BY <1>11, <1>13, <1>18, <1>19, <2>1, <2>2, <2>3 DEF Text!Stretches
  <2> QED BY <2>4 DEF r
<1>21. <<x, y>> \in Text!Tokens(t)
  BY <1>8, <1>10, <1>11, <1>14, <1>20, TokenFound
<1>22. x \in gone
  <2> DEFINE k == <<x, y>>
  <2>1. k \in Text!Tokens(t) /\ k[1] = x /\ k[2] = y
    BY <1>21
  <2> HIDE DEF k
  <2>2. x \in k[1] .. k[2]
    BY <1>1, <1>8, <1>11, <2>1
  <2> QED BY <1>16, <2>1, <2>2
<1> QED BY <1>15, <1>22

-----------------------------------------------------------------------------
(* Sanitize.  sanitizeLogData().                                            *)

(* sanitizeLogData() on what is left of a way, from its n-th step on.       *)
KeptFrom(value, f, n, depth) ==
    IF depth = MaxDepth THEN Text!Redacted
    ELSE IF n > Len(value.path) THEN Text!Scrubbed(value.leaf)
    ELSE CASE value.path[n] = "secret" -> Text!Redacted
           [] value.path[n] = "text" -> f[n + 1][Text!DepthInText(depth)]
           [] OTHER -> f[n + 1][depth + 1]

(* Where a walk may be: the step of the way, and how deep.                  *)
Nodes == (1 .. MaxPath + 1) \X (0 .. MaxDepth)

(* f is the function of SanitizeLogData.                                    *)
Keeps(value, f) ==
    f = [n \in 1 .. MaxPath + 1 |-> [depth \in 0 .. MaxDepth |-> KeptFrom(value, f, n, depth)]]

(* The steps that lead deeper, from the n-th on.                            *)
Deeper(value, n) == {m \in n .. Len(value.path) : value.path[m] # "text"}

(* The same in one step: what the property says of a way from its n-th step *)
(* on.                                                                      *)
KeptAs(value, n, depth) ==
    IF (\E m \in n .. Len(value.path) : value.path[m] = "secret")
         \/ depth + Cardinality(Deeper(value, n)) >= MaxDepth
    THEN Text!Redacted
    ELSE Text!Scrubbed(value.leaf)

(* The ways to a value.                                                     *)
Ways == UNION {[1 .. m -> Text!Steps] : m \in 0 .. MaxPath}

(* A step leads deeper, or it does not.                                     *)
LEMMA DeeperOn ==
    ASSUME NEW value, value.path \in Ways, NEW n \in 1 .. MaxPath + 1
    PROVE  /\ Len(value.path) \in 0 .. MaxPath
           /\ IsFiniteSet(Deeper(value, n)) /\ Cardinality(Deeper(value, n)) \in Nat
           /\ n > Len(value.path) => Cardinality(Deeper(value, n)) = 0
           /\ n <= Len(value.path) =>
                 Cardinality(Deeper(value, n)) = 
                    Cardinality(Deeper(value, n + 1)) + (IF value.path[n] = "text" THEN 0 ELSE 1)
<1>0. MaxPath \in Nat
  BY LimitsAssumption
<1>1. Len(value.path) \in 0 .. MaxPath
  BY <1>0 DEF Ways
<1>2. ASSUME NEW k \in 1 .. MaxPath + 2
      PROVE IsFiniteSet(Deeper(value, k))
  <2>1. IsFiniteSet(k .. Len(value.path))
    BY <1>0, <1>1, FS_Interval
  <2> QED BY <2>1, FS_Subset DEF Deeper
<1>3. n > Len(value.path) => Deeper(value, n) = {}
  BY <1>0, <1>1 DEF Deeper
<1>4. n <= Len(value.path) =>
         Deeper(value, n) = Deeper(value, n + 1) \cup (IF value.path[n] = "text" THEN {} ELSE {n})
  BY <1>0, <1>1 DEF Deeper
<1>5. n \notin Deeper(value, n + 1)
  BY <1>0, <1>1 DEF Deeper
<1>6. Cardinality(Deeper(value, n)) \in Nat
  BY <1>2, <1>0, FS_CardinalityType
<1>7. n > Len(value.path) => Cardinality(Deeper(value, n)) = 0
  BY <1>3, FS_EmptySet
<1>8. n <= Len(value.path) /\ value.path[n] = "text" =>
         Cardinality(Deeper(value, n)) = Cardinality(Deeper(value, n + 1)) + 0
  <2>1. Cardinality(Deeper(value, n + 1)) \in Nat
    BY <1>2, <1>0, FS_CardinalityType
  <2> QED BY <1>4, <2>1
<1>9. n <= Len(value.path) /\ value.path[n] # "text" =>
         Cardinality(Deeper(value, n)) = Cardinality(Deeper(value, n + 1)) + 1
  <2>1. n + 1 \in 1 .. MaxPath + 2
    BY <1>0
  <2> QED BY <1>2, <1>4, <1>5, <2>1, FS_AddElement
<1> QED BY <1>0, <1>1, <1>2, <1>6, <1>7, <1>8, <1>9

(* What is kept does not depend on how the steps are counted.               *)
LEMMA KeptExists ==
    ASSUME NEW value, value.path \in Ways
    PROVE  Keeps(value, [n \in 1 .. MaxPath + 1 |-> [depth \in 0 .. MaxDepth |-> KeptAs(value, n, depth)]])
<1> DEFINE g == [n \in 1 .. MaxPath + 1 |-> [depth \in 0 .. MaxDepth |-> KeptAs(value, n, depth)]]
<1>0. MaxPath \in Nat /\ MaxDepth \in Nat
  BY LimitsAssumption
<1>1. \A n \in 1 .. MaxPath + 1, d \in 0 .. MaxDepth : g[n][d] = KeptAs(value, n, d)
  OBVIOUS
<1> HIDE DEF g
<1>2. ASSUME NEW n \in 1 .. MaxPath + 1, NEW d \in 0 .. MaxDepth
      PROVE  KeptAs(value, n, d) = KeptFrom(value, g, n, d)
  <2> DEFINE c == Cardinality(Deeper(value, n))
             e == Cardinality(Deeper(value, n + 1))
  <2>1. /\ Len(value.path) \in 0 .. MaxPath
        /\ c \in Nat
        /\ n > Len(value.path) => c = 0
        /\ n <= Len(value.path) => c = e + (IF value.path[n] = "text" THEN 0 ELSE 1)
    BY DeeperOn
  <2>2. n <= Len(value.path) => n + 1 \in 1 .. MaxPath + 1 /\ e \in Nat
    <3> SUFFICES ASSUME n <= Len(value.path) PROVE n + 1 \in 1 .. MaxPath + 1 /\ e \in Nat
      OBVIOUS
    <3>1. n + 1 \in 1 .. MaxPath + 1
      BY <1>0, <2>1
    <3> QED BY <3>1, DeeperOn
  <2>3. KeptAs(value, n, d) =
          IF (\E m \in n .. Len(value.path) : value.path[m] = "secret") \/ d + c >= MaxDepth
          THEN Text!Redacted ELSE Text!Scrubbed(value.leaf)
    BY DEF KeptAs
  <2>4. KeptAs(value, n + 1, d) =
          IF (\E m \in n + 1 .. Len(value.path) : value.path[m] = "secret") \/ d + e >= MaxDepth
          THEN Text!Redacted ELSE Text!Scrubbed(value.leaf)
    BY DEF KeptAs
  <2>5. KeptAs(value, n + 1, d + 1) =
          IF (\E m \in n + 1 .. Len(value.path) : value.path[m] = "secret") \/ (d + 1) + e >= MaxDepth
          THEN Text!Redacted ELSE Text!Scrubbed(value.leaf)
    BY DEF KeptAs
  <2> HIDE DEF c, e
  <2>6. n <= Len(value.path) =>
          ((\E m \in n .. Len(value.path) : value.path[m] = "secret")
             <=> value.path[n] = "secret" \/ \E m \in n + 1 .. Len(value.path) : value.path[m] = "secret")
    BY <1>0, <2>1
  <2>7. CASE d = MaxDepth
    BY <1>0, <2>1, <2>3, <2>7 DEF KeptFrom
  <2>8. CASE d # MaxDepth /\ n > Len(value.path)
    BY <1>0, <2>1, <2>3, <2>8 DEF KeptFrom
  <2>9. CASE d # MaxDepth /\ n <= Len(value.path) /\ value.path[n] = "secret"
    BY <1>0, <2>1, <2>3, <2>6, <2>9 DEF KeptFrom
  <2>10. CASE d # MaxDepth /\ n <= Len(value.path) /\ value.path[n] = "text"
    <3>1. KeptFrom(value, g, n, d) = KeptAs(value, n + 1, d)
      BY <1>0, <1>1, <2>1, <2>2, <2>10 DEF KeptFrom, Text!DepthInText
    <3> QED BY <1>0, <2>1, <2>2, <2>3, <2>4, <2>6, <2>10, <3>1
  <2>11. CASE d # MaxDepth /\ n <= Len(value.path) /\ value.path[n] \notin {"secret", "text"}
    <3>1. d + 1 \in 0 .. MaxDepth
      BY <1>0, <2>11
    <3>2. KeptFrom(value, g, n, d) = KeptAs(value, n + 1, d + 1)
      BY <1>0, <1>1, <2>1, <2>2, <2>11, <3>1 DEF KeptFrom
    <3> QED BY <1>0, <2>1, <2>2, <2>3, <2>5, <2>6, <2>11, <3>2
  <2> QED BY <1>0, <2>1, <2>7, <2>8, <2>9, <2>10, <2>11
<1>3. g = [n \in 1 .. MaxPath + 1 |-> [depth \in 0 .. MaxDepth |-> KeptFrom(value, g, n, depth)]]
  BY <1>2 DEF g
<1> QED BY <1>3 DEF Keeps, g

(* A function that Keeps is KeptAs everywhere that can be reached: by       *)
(* induction over the steps that are left.                                  *)
LEMMA KeptOnce ==
    ASSUME NEW value, value.path \in Ways, NEW f, Keeps(value, f)
    PROVE  f[1][0] = KeptAs(value, 1, 0)
<1> DEFINE g == [n \in 1 .. MaxPath + 1 |-> [depth \in 0 .. MaxDepth |-> KeptAs(value, n, depth)]]
           Agree(n) == \A d \in 0 .. MaxDepth : f[n][d] = g[n][d]
           T == {k \in 0 .. MaxPath : Agree(MaxPath + 1 - k)}
<1>0. MaxPath \in Nat /\ MaxDepth \in Nat /\ Len(value.path) \in 0 .. MaxPath
  <2>1. MaxPath \in Nat /\ MaxDepth \in Nat
    BY LimitsAssumption
  <2>2. PICK m \in 0 .. MaxPath : value.path \in [1 .. m -> Text!Steps]
    BY DEF Ways
  <2>3. Len(value.path) = m
    BY <2>1, <2>2
  <2> QED BY <2>1, <2>3
<1>1. Keeps(value, g)
  BY KeptExists
<1>2. \A n \in 1 .. MaxPath + 1, d \in 0 .. MaxDepth : g[n][d] = KeptAs(value, n, d)
  OBVIOUS
<1> HIDE DEF g
<1>3. ASSUME NEW n \in 1 .. MaxPath + 1, NEW d \in 0 .. MaxDepth
      PROVE  f[n][d] = KeptFrom(value, f, n, d) /\ g[n][d] = KeptFrom(value, g, n, d)
  <2>1. f[n] = [depth \in 0 .. MaxDepth |-> KeptFrom(value, f, n, depth)]
    BY DEF Keeps
  <2>2. g[n] = [depth \in 0 .. MaxDepth |-> KeptFrom(value, g, n, depth)]
    BY <1>1 DEF Keeps
  <2> QED BY <2>1, <2>2
<1>4. 0 \in T
  <2>1. ASSUME NEW d \in 0 .. MaxDepth PROVE f[MaxPath + 1][d] = g[MaxPath + 1][d]
    <3>1. MaxPath + 1 \in 1 .. MaxPath + 1 /\ MaxPath + 1 > Len(value.path)
      BY <1>0
    <3> QED BY <1>3, <3>1 DEF KeptFrom
  <2> QED BY <1>0, <2>1
<1>5. ASSUME NEW k \in T, k < MaxPath PROVE k + 1 \in T
  <2> DEFINE n == MaxPath + 1 - (k + 1)
  <2>1. n \in 1 .. MaxPath + 1 /\ n + 1 = MaxPath + 1 - k /\ n + 1 \in 1 .. MaxPath + 1 /\ k + 1 \in 0 .. MaxPath
    BY <1>0, <1>5
  <2>2. Agree(n + 1)
    BY <1>5, <2>1
  <2> HIDE DEF n
  <2>3. ASSUME NEW d \in 0 .. MaxDepth PROVE f[n][d] = g[n][d]
    <3>1. d # MaxDepth => d + 1 \in 0 .. MaxDepth
      BY <1>0
    <3>2. d # MaxDepth => f[n + 1][d] = g[n + 1][d] /\ f[n + 1][d + 1] = g[n + 1][d + 1]
      BY <2>2, <3>1
    <3>3. f[n][d] = KeptFrom(value, f, n, d) /\ g[n][d] = KeptFrom(value, g, n, d)
      BY <1>3, <2>1
    <3> QED BY <3>2, <3>3 DEF KeptFrom, Text!DepthInText
  <2> QED BY <2>1, <2>3 DEF n
<1>6. MaxPath \in T
  <2>1. T \subseteq Nat
    BY <1>0
  <2> HIDE DEF T
  <2> QED BY <1>0, <1>4, <1>5, <2>1, CountingReaches
<1>7. Agree(1)
  <2>1. MaxPath + 1 - MaxPath = 1
    BY <1>0
  <2> QED BY <1>6, <2>1
<1> QED BY <1>0, <1>2, <1>7

(* So is SanitizeLogData.                                                   *)
LEMMA SanitizedAs ==
    ASSUME NEW value, value.path \in Ways
    PROVE  Text!SanitizeLogData(value) = KeptAs(value, 1, 0)
<1> DEFINE f == CHOOSE f : Keeps(value, f)
<1>1. Keeps(value, f)
  BY KeptExists
<1>2. Text!SanitizeLogData(value) = f[1][0]
  BY DEF Text!SanitizeLogData, Keeps, KeptFrom
<1> HIDE DEF f
<1> QED BY <1>1, <1>2, KeptOnce

(* What SerializeBody prints, in the words of the property.                 *)
BodiesScrubbed ==
    call = "body" => given.path \in Ways /\ printed = Text!SanitizeLogData(given)

(* That is the property.                                                    *)
LEMMA BodyAsStated == BodiesScrubbed => Text!BodyScrubbed
<1> SUFFICES ASSUME BodiesScrubbed, call = "body" PROVE Text!BodyScrubbed
  BY DEF Text!BodyScrubbed
<1>1. given.path \in Ways /\ printed = KeptAs(given, 1, 0)
  BY SanitizedAs DEF BodiesScrubbed
<1>2. DOMAIN given.path = 1 .. Len(given.path)
  BY <1>1, LimitsAssumption DEF Ways
<1>3. 1 \in 1 .. MaxPath + 1
  BY LimitsAssumption
<1>4. Cardinality(Deeper(given, 1)) \in Nat
  BY <1>1, <1>3, DeeperOn
<1>5. Deeper(given, 1) = {n \in DOMAIN given.path : given.path[n] # "text"}
  BY <1>2 DEF Deeper
<1>6. 0 + Cardinality(Deeper(given, 1)) = Text!Cardinality({n \in DOMAIN given.path : given.path[n] # "text"})
  BY <1>4, <1>5, TextCounts
<1>7. (\E m \in 1 .. Len(given.path) : given.path[m] = "secret")
          <=> \E n \in DOMAIN given.path : given.path[n] = "secret"
  BY <1>2
<1> DEFINE c == Cardinality(Deeper(given, 1))
           d == Text!Cardinality({n \in DOMAIN given.path : given.path[n] # "text"})
<1> HIDE DEF c, d
<1>8. printed = IF (\E n \in DOMAIN given.path : given.path[n] = "secret") \/ d >= MaxDepth
                THEN Text!Redacted ELSE Text!Scrubbed(given.leaf)
  BY <1>1, <1>6, <1>7 DEF KeptAs, c, d
<1> QED BY <1>8 DEF Text!BodyScrubbed, d

(* The ways of Values are ways.                                             *)
LEMMA ValuesFit ==
    ASSUME NEW value \in Text!Values
    PROVE  value.path \in Ways
BY LimitsAssumption DEF Text!Values, Text!BoundedSeq, Text!SeqOf, Ways

-----------------------------------------------------------------------------
(* Sanitize.  What is printed.                                              *)

(* What the property says of the queries and the blanks.                    *)
NoQuery(t) ==
    \A at \in 1 .. Len(t) - 1 : t[at] = "?" => t[at + 1] = Text!Redacted

(* None of the blanks is lost.                                              *)
AsManyBlanks(t, u) == Text!Cardinality(Text!Blanks(u)) = Text!Cardinality(Text!Blanks(t))

(* What is taken out later does not part a ? and [redacted].                *)
LEMMA CondensedNoQuery ==
    ASSUME NEW t \in Texts, NEW out \in Texts, NEW o, Excerpts(out, t, o),
           \A p \in DOMAIN t : t[p] = "?" => p + 1 \in DOMAIN t /\ t[p + 1] = Text!Redacted
    PROVE  NoQuery(out)
<1> SUFFICES ASSUME NEW at \in 1 .. Len(out) - 1, out[at] = "?", out[at + 1] # Text!Redacted
             PROVE  FALSE
  BY DEF NoQuery
<1>1. DOMAIN out = 1 .. Len(out) /\ Len(out) \in Nat
  BY LenProperties DEF Texts
<1>2. at \in DOMAIN out /\ at + 1 \in DOMAIN out
  BY <1>1
<1>3. o[at] \in DOMAIN t /\ t[o[at]] = "?"
  BY <1>2, LocalPrinted DEF Excerpts
<1>4. t[o[at] + 1] = Text!Redacted
  BY <1>3
<1>5. o[at + 1] = o[at] + 1 /\ out[at + 1] = t[o[at + 1]]
  BY <1>2, LocalPrinted DEF Excerpts
<1> QED BY <1>4, <1>5

(* The three patterns one after the other.                                  *)
LEMMA MessagesScrubbed ==
    ASSUME NEW t \in Texts
    PROVE  LET r == Text!SafeErrorMessage(t)
           IN  /\ NoAddress(r) /\ NoQuery(r) /\ NoToken(r)
               /\ (\A n \in DOMAIN t : t[n] # "?") => AsManyBlanks(t, r)
<1> DEFINE e == Text!RedactEmails(t)
           q == Text!RedactQueries(e)
           r == Text!RedactTokens(q)
           gone == PlacesOf(Text!Tokens(q))
<1>1. r = Text!SafeErrorMessage(t)
  BY DEF Text!SafeErrorMessage
<1>2. /\ e \in Texts /\ NoAddress(e)
      /\ \E o : Excerpts(e, t, o)
      /\ Cardinality(Text!Blanks(e)) = Cardinality(Text!Blanks(t))
  BY EmailsGone
<1> HIDE DEF e
<1>3. /\ q \in Texts
      /\ \E o : Excerpts(q, e, o)
      /\ \A p \in DOMAIN q : q[p] = "?" => p + 1 \in DOMAIN q /\ q[p + 1] = Text!Redacted
      /\ (\A n \in DOMAIN e : e[n] # "?") => \E o : Condensed(q, e, o, {})
  BY <1>2, QueriesGone
<1> HIDE DEF q
<1>4. r \in Texts /\ \E o : Condensed(r, q, o, gone)
  BY <1>3, TokenCuts, ReplacedCondenses DEF Text!RedactTokens
<1> HIDE DEF r
<1>5. PICK o : Condensed(r, q, o, gone)
  BY <1>4
<1>6. Excerpts(r, q, o)
  BY <1>5 DEF Condensed
<1>7. NoAddress(r)
  <2>1. NoAddress(q)
    BY <1>2, <1>3, ExcerptNoAddress
  <2> QED BY <1>3, <1>4, <1>6, <2>1, ExcerptNoAddress
<1>8. NoQuery(r)
  BY <1>3, <1>4, <1>6, CondensedNoQuery
<1>9. NoToken(r)
  BY <1>3, <1>4, <1>5, TokensGone
<1>10. ASSUME \A n \in DOMAIN t : t[n] # "?" PROVE AsManyBlanks(t, r)
  <2>1. \A n \in DOMAIN e : e[n] # "?"
    <3>1. PICK u : Excerpts(e, t, u)
      BY <1>2
    <3> QED BY <1>10, <3>1, LocalPrinted DEF Excerpts
  <2>2. PICK u : Condensed(q, e, u, {})
    BY <1>3, <2>1
  <2>3. Cardinality(Text!Blanks(q)) = Cardinality(Text!Blanks(e))
    BY <1>2, <1>3, <2>2, BlanksLeft
  <2>4. \A n \in DOMAIN q : q[n] = "blank" => n \notin gone
    BY <1>3, TokenCuts DEF Text!Local, Text!Letter
  <2> HIDE DEF gone
  <2>5. Cardinality(Text!Blanks(r)) = Cardinality(Text!Blanks(q))
    BY <1>3, <1>4, <1>5, <2>4, BlanksLeft
  <2> QED BY <1>2, <2>3, <2>5, TextCounts DEF AsManyBlanks
<1> QED BY <1>1, <1>7, <1>8, <1>9, <1>10

(* Chunks laid end to end are a text.                                       *)
LEMMA MessagesAreTexts == Text!Messages \subseteq Texts
<1> SUFFICES ASSUME NEW chunks \in Text!BoundedSeq(Chunks, MaxChunks)
             PROVE  Text!FlattenSeq(chunks) \in Texts
  BY DEF Text!Messages
<1>1. chunks \in Seq(Chunks)
  BY LimitsAssumption DEF Text!BoundedSeq, Text!SeqOf
<1>2. Chunks \subseteq Seq(Characters) /\ Seq(Characters) \subseteq Seq(Printable)
  BY ChunksAssumption DEF Printable
<1>3. chunks \in Seq(Seq(Printable))
  BY <1>1, <1>2
<1> QED BY <1>3, FlattenLays DEF Texts

(* What ScrubMessage prints is made of a text.                              *)
MessagesPrinted ==
    call = "message" => given \in Texts /\ printed = Text!SafeErrorMessage(given)

(* That is the property.                                                    *)
LEMMA MessageAsStated == MessagesPrinted => Text!MessageScrubbed
<1> SUFFICES ASSUME MessagesPrinted, call = "message" PROVE Text!MessageScrubbed
  BY DEF Text!MessageScrubbed
<1>1. /\ NoAddress(printed) /\ NoQuery(printed) /\ NoToken(printed)
      /\ (\A n \in DOMAIN given : given[n] # "?") => AsManyBlanks(given, printed)
  BY MessagesScrubbed DEF MessagesPrinted
<1> QED BY <1>1 DEF Text!MessageScrubbed, NoAddress, NoQuery, NoToken, AsManyBlanks

(* sanitize.ts:41-189, 318-407: in no message that is printed, of whatever  *)
(* chunks it is made, there is an address, a query or a token, and of a     *)
(* body just what is harmless and not too deep is printed.                  *)
THEOREM ScrubbedTexts == Text!Spec => []TextScrubbed
<1> DEFINE Inv == MessagesPrinted /\ BodiesScrubbed
<1>1. Text!Init => Inv
  BY DEF Text!Init, MessagesPrinted, BodiesScrubbed
<1>2. Inv /\ [Text!Next]_(Text!vars) => Inv'
  <2> SUFFICES ASSUME Inv, [Text!Next]_(Text!vars) PROVE Inv'
    OBVIOUS
  <2>1. CASE Text!ScrubMessage
    <3>1. call' = "message" /\ given' \in Texts /\ printed' = Text!SafeErrorMessage(given')
      BY <2>1, MessagesAreTexts DEF Text!ScrubMessage
    <3> QED BY <3>1 DEF MessagesPrinted, BodiesScrubbed
  <2>2. CASE Text!SerializeBody
    <3>1. call' = "body" /\ given'.path \in Ways /\ printed' = Text!SanitizeLogData(given')
      BY <2>2, ValuesFit DEF Text!SerializeBody
    <3> QED BY <3>1 DEF MessagesPrinted, BodiesScrubbed
  <2>3. CASE UNCHANGED Text!vars
    BY <2>3 DEF Text!vars, MessagesPrinted, BodiesScrubbed
  <2> QED BY <2>1, <2>2, <2>3 DEF Text!Next
<1>3. Inv => TextScrubbed
  BY MessageAsStated, BodyAsStated DEF TextScrubbed
<1> QED BY <1>1, <1>2, <1>3, PTL DEF Text!Spec

=============================================================================
