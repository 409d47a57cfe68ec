--------------------------- MODULE Triage_proofs ---------------------------
(***************************************************************************)
(* Theorems about Triage, for any set of alerts, reports and users and any *)
(* number of cases.                                                        *)
(*                                                                         *)
(* The argument: an alert behind a case is decided and claimed by nobody,  *)
(* so no form on it can be saved any more and no claim or purge takes it,  *)
(* whatever the case is revised to; an alert the purge selected is         *)
(* not open work, and cannot become it again, so no case is made of it     *)
(* between the selection and the delete.                                   *)
(***************************************************************************)
EXTENDS Triage, FiniteSetTheorems, TLAPS

Open == {"PENDING", "TRIAGING"}

TypeInv ==
  /\ alert \in [Alerts -> Alert]
  /\ report \in [Reports -> TriageRecord]
  /\ cases \in Seq(Case) /\ Len(cases) <= MaxCases
  /\ form \in [Users -> Form]
  /\ dismissal \in [Users -> SUBSET Reports]
  /\ purge \in [stage : {"idle", "selected", "collected"}, alerts : SUBSET Alerts]

\* A source is behind at most one case.
SourcesServeOnce ==
  /\ \A a \in Alerts : \A i, j \in CasesOf(a) : i = j
  /\ \A r \in Reports : \A i, j \in CasesOn(r) : i = j

\* An alert behind a case is decided and claimed by nobody.
Settled ==
  \A i \in DOMAIN cases : \A a \in cases[i].alerts :
    /\ alert[a].triage_status \in {"TRUE_POSITIVE", "FALSE_POSITIVE"}
    /\ alert[a].claimed_by = NoUser

VulnerabilitiesWait == \A a \in Vulnerabilities : alert[a].triage_status # "TRIAGING"

\* What the purge is about to delete is no open work, and nobody made a case of it.
PurgeIsSafe ==
  \A a \in purge.alerts :
    /\ CasesOf(a) = {}
    /\ alert[a].triage_status \notin Open \/ a \in Vulnerabilities

Named == \A r \in Reports : report[r].decision # "" => report[r].resolved_by # NoUser

IInv ==
  /\ TypeInv
  /\ SourcesServeOnce
  /\ Settled
  /\ NoAlertStranded
  /\ VulnerabilitiesWait
  /\ PurgeIsSafe
  /\ Named

\* What a step did to the reports.
ReportsKept ==
  /\ \A r \in Reports : report'[r].decision # "" => report'[r].resolved_by # NoUser
  /\ \A r \in Reports : report[r].decision # "" => report'[r].decision # ""

\* What a step did to the alerts behind the cases there are now.
VerdictsKept ==
  \A i \in DOMAIN cases' : \A a \in cases'[i].alerts :
    IF i \in DOMAIN cases THEN alert'[a] = alert[a]
    ELSE /\ alert'[a].triage_status =
                (IF cases'[i].classification = "EVENT" THEN "FALSE_POSITIVE"
                 ELSE "TRUE_POSITIVE")
         /\ alert'[a].claimed_by = NoUser

\* An alert decided and free that no step touches stays so.
LEMMA KeptIsSettled ==
  ASSUME Settled, VerdictsKept, \A i \in DOMAIN cases' \cap DOMAIN cases :
                                    cases'[i].alerts = cases[i].alerts
  PROVE  Settled'
BY DEF Settled, VerdictsKept

-----------------------------------------------------------------------------
LEMMA InitIInv == Init => IInv
<1> SUFFICES ASSUME Init PROVE IInv
  OBVIOUS
<1>1. cases = << >> /\ \A a : CasesOf(a) = {} /\ CasesOn(a) = {}
  <2>0. cases = << >>
    BY DEF Init
  <2>1. \A i \in DOMAIN cases : FALSE
    BY <2>0
  <2> QED
    BY <2>0, <2>1 DEF CasesOf, CasesOn
<1>2. TypeInv
  <2>1. cases \in Seq(Case) /\ Len(cases) <= MaxCases
    BY <1>1, TriageAssumption
  <2>2. form \in [Users -> Form]
    BY DEF Init, Form, NoForm
  <2>3. alert \in [Alerts -> Alert]
    <3>1. ASSUME NEW a \in Alerts
          PROVE  [triage_status |-> IF a \in Legacy THEN "FALSE_POSITIVE" ELSE "PENDING",
                  claimed_by |-> NoUser] \in Alert
      BY DEF Alert
    <3> QED
      BY <3>1 DEF Init
  <2>4. report \in [Reports -> TriageRecord]
    BY DEF Init, TriageRecord
  <2>5. dismissal \in [Users -> SUBSET Reports]
    BY DEF Init
  <2> QED
    BY <2>1, <2>2, <2>3, <2>4, <2>5 DEF Init, TypeInv
<1>3. SourcesServeOnce /\ Settled /\ PurgeIsSafe
  <2>1. \A i \in DOMAIN cases : FALSE
    BY <1>1
  <2>2. purge.alerts = {}
    BY DEF Init
  <2> QED
    BY <1>1, <2>1, <2>2 DEF SourcesServeOnce, Settled, PurgeIsSafe
<1>4. NoAlertStranded /\ VulnerabilitiesWait /\ Named
  BY TriageAssumption DEF Init, NoAlertStranded, VulnerabilitiesWait, Named
<1> QED
  BY <1>2, <1>3, <1>4 DEF IInv

\* A claim or a release: one open alert that stays open, no vulnerability, and with
\* a holder who may work on it or with none.
LEMMA ClaimSteps ==
  ASSUME IInv, NEW u \in Users, NEW a \in Alerts, ClaimAlert(u, a) \/ ReleaseAlert(u, a)
  PROVE  IInv' /\ ReportsKept /\ VerdictsKept
<1>1. \E row \in Alert :
        /\ alert' = [alert EXCEPT ![a] = row]
        /\ \/ row.triage_status = "PENDING" /\ row.claimed_by = NoUser
           \/ row.triage_status = "TRIAGING" /\ has_tier1_access(row.claimed_by)
              /\ a \notin Vulnerabilities
  <2>1. CASE ClaimAlert(u, a)
    <3> DEFINE row == [triage_status |-> "TRIAGING", claimed_by |-> u]
    <3>1. row \in Alert /\ row.triage_status = "TRIAGING" /\ row.claimed_by = u
      BY DEF Alert
    <3>2. /\ alert' = [alert EXCEPT ![a] = row]
          /\ has_tier1_access(u) /\ a \notin Vulnerabilities
      BY <2>1 DEF ClaimAlert
    <3> HIDE DEF row
    <3> QED
      BY <3>1, <3>2
  <2>2. CASE ReleaseAlert(u, a)
    <3> DEFINE row == [triage_status |-> "PENDING", claimed_by |-> NoUser]
    <3>1. row \in Alert /\ row.triage_status = "PENDING" /\ row.claimed_by = NoUser
      BY DEF Alert
    <3>2. alert' = [alert EXCEPT ![a] = row]
      BY <2>2 DEF ReleaseAlert, Released
    <3> HIDE DEF row
    <3> QED
      BY <3>1, <3>2
  <2> QED
    BY <2>1, <2>2
<1>2. /\ alert[a].triage_status \in Open
      /\ UNCHANGED <<report, cases, form, dismissal, purge>>
  BY DEF ClaimAlert, ReleaseAlert, Open
<1> PICK row \in Alert :
        /\ alert' = [alert EXCEPT ![a] = row]
        /\ \/ row.triage_status = "PENDING" /\ row.claimed_by = NoUser
           \/ row.triage_status = "TRIAGING" /\ has_tier1_access(row.claimed_by)
              /\ a \notin Vulnerabilities
  BY <1>1
<1>3. /\ alert' \in [Alerts -> Alert]
      /\ \A x \in Alerts : alert'[x] = IF x = a THEN row ELSE alert[x]
  BY DEF IInv, TypeInv
<1>4. TypeInv'
  BY <1>2, <1>3 DEF IInv, TypeInv
<1>5. \A x : CasesOf(x)' = CasesOf(x) /\ CasesOn(x)' = CasesOn(x)
  BY <1>2 DEF CasesOf, CasesOn
<1>6. SourcesServeOnce' /\ Named' /\ ReportsKept
  BY <1>2, <1>5 DEF IInv, SourcesServeOnce, Named, ReportsKept
<1>7. VerdictsKept /\ Settled'
  <2>1. \A i \in DOMAIN cases : cases[i] \in Case
    BY DEF IInv, TypeInv
  <2>2. \A i \in DOMAIN cases : a \notin cases[i].alerts
    BY <1>2 DEF IInv, Settled, Open
  <2>3. \A i \in DOMAIN cases : cases[i].alerts \subseteq Alerts
    BY <2>1 DEF Case
  <2>4. VerdictsKept
    BY <1>2, <1>3, <2>2, <2>3 DEF VerdictsKept
  <2> QED
    BY <1>2, <2>4, KeptIsSettled DEF IInv
<1>8. NoAlertStranded' /\ VulnerabilitiesWait'
  BY <1>3, TriageAssumption DEF IInv, NoAlertStranded, VulnerabilitiesWait, has_tier1_access
<1>9. PurgeIsSafe'
  <2>1. purge.alerts \subseteq Alerts /\ purge' = purge
    BY <1>2 DEF IInv, TypeInv
  <2>2. \A x \in purge.alerts : alert'[x].triage_status \notin Open \/ x \in Vulnerabilities
    BY <1>2, <1>3, <2>1 DEF IInv, PurgeIsSafe
  <2> QED
    BY <1>5, <2>1, <2>2 DEF IInv, PurgeIsSafe
<1> QED
  BY <1>4, <1>6, <1>7, <1>8, <1>9 DEF IInv

\* Steps on reports and on forms not saved: no alert and no case changes.
LEMMA ReportSteps ==
  ASSUME IInv, NEW u \in Users,
         \/ \E r \in Reports : ClaimReport(u, r) \/ ReleaseReport(u, r) \/ StartDismissal(u, r)
         \/ SaveDismissal(u) \/ OpenForm(u) \/ CloseForm(u)
  PROVE  IInv' /\ ReportsKept /\ VerdictsKept
<1>1. UNCHANGED <<alert, cases, purge>>
  BY DEF ClaimReport, ReleaseReport, StartDismissal, SaveDismissal, OpenForm, CloseForm
<1>2. /\ report' \in [Reports -> TriageRecord] /\ ReportsKept
  <2>1. ASSUME NEW r \in Reports, ClaimReport(u, r) \/ ReleaseReport(u, r)
        PROVE  <1>2
    <3>1. \E c \in Users \cup {NoUser} : report' = [report EXCEPT ![r].claimed_by = c]
      BY <2>1 DEF ClaimReport, ReleaseReport
    <3> PICK c \in Users \cup {NoUser} : report' = [report EXCEPT ![r].claimed_by = c]
      BY <3>1
    <3> DEFINE row == [report[r] EXCEPT !.claimed_by = c]
    <3>2. report \in [Reports -> TriageRecord]
      BY DEF IInv, TypeInv
    <3>3. /\ row \in TriageRecord /\ row.decision = report[r].decision
          /\ row.resolved_by = report[r].resolved_by
      BY <3>2 DEF TriageRecord
    <3>4. report' = [report EXCEPT ![r] = row]
      BY <3>2
    <3> HIDE DEF row
    <3> QED
      BY <3>2, <3>3, <3>4 DEF IInv, Named, ReportsKept
  <2>2. CASE SaveDismissal(u)
    <3>1. PICK r \in dismissal[u] : report' = [report EXCEPT ![r] = Dismissed(u)]
      BY <2>2 DEF SaveDismissal
    <3>2. r \in Reports
      BY DEF IInv, TypeInv
    <3>3. /\ Dismissed(u) \in TriageRecord
          /\ Dismissed(u).decision = "FP" /\ Dismissed(u).resolved_by # NoUser
      BY TriageAssumption DEF Dismissed, TriageRecord
    <3> HIDE DEF Dismissed
    <3> QED
      BY <3>1, <3>2, <3>3 DEF IInv, TypeInv, Named, ReportsKept
  <2>3. CASE UNCHANGED report
    BY <2>3 DEF IInv, TypeInv, Named, ReportsKept
  <2> QED
    BY <2>1, <2>2, <2>3 DEF StartDismissal, OpenForm, CloseForm
<1>3. form' \in [Users -> Form]
  <2>1. CASE OpenForm(u)
    <3>1. PICK S \in SUBSET Alerts, R \in SUBSET Reports, project \in BOOLEAN :
            form' = [form EXCEPT ![u] = [open |-> TRUE, project |-> project,
                                         alerts |-> S, report |-> R]]
      BY <2>1 DEF OpenForm
    <3>2. [open |-> TRUE, project |-> project, alerts |-> S, report |-> R] \in Form
      BY DEF Form
    <3> QED
      BY <3>1, <3>2 DEF IInv, TypeInv
  <2>2. CASE CloseForm(u)
    BY <2>2 DEF CloseForm, NoForm, Form, IInv, TypeInv
  <2> QED
    BY <2>1, <2>2 DEF ClaimReport, ReleaseReport, StartDismissal, SaveDismissal, IInv, TypeInv
<1>4. dismissal' \in [Users -> SUBSET Reports]
  BY DEF ClaimReport, ReleaseReport, StartDismissal, SaveDismissal, OpenForm, CloseForm,
         IInv, TypeInv
<1>5. TypeInv'
  BY <1>1, <1>2, <1>3, <1>4 DEF IInv, TypeInv
<1>6. SourcesServeOnce' /\ PurgeIsSafe'
  BY <1>1 DEF IInv, SourcesServeOnce, PurgeIsSafe, CasesOf, CasesOn
<1>7. Settled' /\ VerdictsKept /\ NoAlertStranded' /\ VulnerabilitiesWait'
  BY <1>1 DEF IInv, Settled, VerdictsKept, NoAlertStranded, VulnerabilitiesWait
<1>8. Named'
  BY <1>2 DEF ReportsKept, Named
<1> QED
  BY <1>2, <1>5, <1>6, <1>7, <1>8 DEF IInv

\* A form saved: its sources are free of cases and its alerts claimed by its author,
\* so no other case has them and the purge has not selected them.
LEMMA SaveStep ==
  ASSUME IInv, NEW u \in Users, SaveForm(u)
  PROVE  IInv' /\ ReportsKept /\ VerdictsKept
<1> DEFINE f == form[u]
           n == Len(cases) + 1
<1>0. /\ f \in Form /\ f.alerts \subseteq Alerts /\ f.report \subseteq Reports
      /\ n \in Nat /\ n \notin DOMAIN cases /\ n <= MaxCases
      /\ u # NoUser
      /\ cases \in Seq(Case)
  <2>1. f \in Form
    BY DEF IInv, TypeInv
  <2>2. f.alerts \subseteq Alerts /\ f.report \subseteq Reports
    BY <2>1 DEF Form
  <2>3. /\ n \in Nat /\ n \notin DOMAIN cases /\ n <= MaxCases /\ cases \in Seq(Case)
    BY TriageAssumption DEF SaveForm, IInv, TypeInv
  <2> QED
    BY <2>1, <2>2, <2>3, TriageAssumption
<1>1. /\ \A a \in f.alerts : CasesOf(a) = {} /\ alert[a].triage_status = "TRIAGING"
      /\ \A r \in f.report : CasesOn(r) = {}
  BY DEF SaveForm, AvailableAtSave, Available, can_create_ticket_from_wazuh,
         can_create_ticket_from_triage
<1>2. PICK c \in Classifications :
        /\ cases' = Append(cases, [project |-> f.project, classification |-> c,
                                   alerts |-> f.alerts, report |-> f.report])
        /\ alert' = [a \in Alerts |->
              IF a \in f.alerts
              THEN [triage_status |-> AlertVerdict(c), claimed_by |-> NoUser]
              ELSE alert[a]]
        /\ report' = [r \in Reports |->
              IF r \in f.report
              THEN [decision |-> IF c = "EVENT" THEN "FP" ELSE "TP",
                    claimed_by |-> NoUser, resolved_by |-> u]
              ELSE report[r]]
  BY DEF SaveForm
<1>3. form' = [form EXCEPT ![u] = NoForm] /\ UNCHANGED <<dismissal, purge>>
  BY DEF SaveForm
<1> DEFINE case == [project |-> f.project, classification |-> c,
                    alerts |-> f.alerts, report |-> f.report]
<1>4. /\ case \in Case /\ case.alerts = f.alerts /\ case.report = f.report
      /\ case.classification = c
  BY <1>0 DEF Form, Case
<1>5. /\ cases' \in Seq(Case) /\ Len(cases') = n
      /\ DOMAIN cases' = DOMAIN cases \cup {n}
      /\ \A i \in DOMAIN cases : cases'[i] = cases[i]
      /\ cases'[n] = case
  <2> HIDE DEF case, f
  <2>1. cases' = Append(cases, case)
    BY <1>2 DEF case, f
  <2> QED
    BY <1>0, <1>4, <2>1
<1> HIDE DEF f, n, case
<1>6. AlertVerdict(c) \in {"TRUE_POSITIVE", "FALSE_POSITIVE"}
  BY DEF AlertVerdict
<1>7. /\ alert' \in [Alerts -> Alert]
      /\ \A a \in Alerts :
           \/ /\ a \in f.alerts /\ alert'[a].triage_status = AlertVerdict(c)
              /\ alert'[a].claimed_by = NoUser
           \/ a \notin f.alerts /\ alert'[a] = alert[a]
  <2> DEFINE row == [triage_status |-> AlertVerdict(c), claimed_by |-> NoUser]
  <2>1. row \in Alert /\ row.triage_status = AlertVerdict(c) /\ row.claimed_by = NoUser
    BY <1>6 DEF Alert
  <2>2. alert' = [a \in Alerts |-> IF a \in f.alerts THEN row ELSE alert[a]]
    BY <1>2 DEF f
  <2> HIDE DEF row
  <2> QED
    BY <2>1, <2>2 DEF IInv, TypeInv
<1>8. report' \in [Reports -> TriageRecord] /\ ReportsKept
  <2> DEFINE row == [decision |-> IF c = "EVENT" THEN "FP" ELSE "TP",
                     claimed_by |-> NoUser, resolved_by |-> u]
  <2>1. row \in TriageRecord /\ row.decision # "" /\ row.resolved_by # NoUser
    BY <1>0 DEF TriageRecord
  <2>2. report' = [r \in Reports |-> IF r \in f.report THEN row ELSE report[r]]
    BY <1>2 DEF f
  <2> HIDE DEF row
  <2> QED
    BY <2>1, <2>2 DEF IInv, TypeInv, Named, ReportsKept
<1>9. form' \in [Users -> Form]
  BY <1>3 DEF IInv, TypeInv, Form, NoForm
<1>10. TypeInv'
  BY <1>0, <1>3, <1>5, <1>7, <1>8, <1>9 DEF IInv, TypeInv
<1>11. /\ \A a \in Alerts : CasesOf(a)' = IF a \in f.alerts THEN CasesOf(a) \cup {n}
                                          ELSE CasesOf(a)
       /\ \A r \in Reports : CasesOn(r)' = IF r \in f.report THEN CasesOn(r) \cup {n}
                                           ELSE CasesOn(r)
  BY <1>0, <1>4, <1>5 DEF CasesOf, CasesOn
<1>12. SourcesServeOnce'
  BY <1>1, <1>11 DEF f, IInv, SourcesServeOnce
<1>13. VerdictsKept /\ Settled'
  <2>1. ASSUME NEW i \in DOMAIN cases, NEW a \in cases[i].alerts
        PROVE  a \in Alerts /\ a \notin f.alerts
    <3>1. cases[i] \in Case
      BY <1>0
    <3>2. a \in Alerts
      BY <3>1 DEF Case
    <3>3. i \in CasesOf(a)
      BY DEF CasesOf
    <3> QED
      BY <1>1, <3>2, <3>3 DEF f
  <2>2. \A i \in DOMAIN cases : \A a \in cases[i].alerts : alert'[a] = alert[a]
    BY <1>7, <2>1
  <2>3. ASSUME NEW i \in DOMAIN cases, NEW a \in cases'[i].alerts
        PROVE  alert'[a] = alert[a]
    BY <1>5, <2>2
  <2>4. ASSUME NEW a \in cases'[n].alerts
        PROVE  /\ alert'[a].triage_status =
                   (IF cases'[n].classification = "EVENT" THEN "FALSE_POSITIVE"
                    ELSE "TRUE_POSITIVE")
               /\ alert'[a].claimed_by = NoUser
    BY <1>0, <1>4, <1>5, <1>7 DEF f, AlertVerdict
  <2>5. VerdictsKept
    BY <1>0, <1>5, <2>3, <2>4 DEF VerdictsKept
  <2>6. \A i \in DOMAIN cases' \cap DOMAIN cases : cases'[i].alerts = cases[i].alerts
    BY <1>5
  <2> QED
    BY <2>5, <2>6, KeptIsSettled DEF IInv
<1>14. NoAlertStranded' /\ VulnerabilitiesWait'
  BY <1>6, <1>7, TriageAssumption
  DEF IInv, NoAlertStranded, VulnerabilitiesWait, has_tier1_access
<1>15. PurgeIsSafe'
  <2>1. purge.alerts \subseteq Alerts /\ purge' = purge
    BY <1>3 DEF IInv, TypeInv
  <2>2. \A a \in purge.alerts : a \notin f.alerts
    BY <1>1 DEF f, IInv, PurgeIsSafe, VulnerabilitiesWait, Open
  <2> QED
    BY <1>7, <1>11, <2>1, <2>2 DEF IInv, PurgeIsSafe
<1>16. Named'
  BY <1>8 DEF ReportsKept, Named
<1> QED
  BY <1>8, <1>10, <1>12, <1>13, <1>14, <1>15, <1>16 DEF IInv

\* The retention job.
LEMMA PurgeSteps ==
  ASSUME IInv, PurgeSelects \/ PurgeCollects \/ PurgeDeletes
  PROVE  IInv' /\ ReportsKept /\ VerdictsKept
<1>1. UNCHANGED <<report, cases, form, dismissal>>
  BY DEF PurgeSelects, PurgeCollects, PurgeDeletes
<1>2. \A x : CasesOf(x)' = CasesOf(x) /\ CasesOn(x)' = CasesOn(x)
  BY <1>1 DEF CasesOf, CasesOn
<1>3. SourcesServeOnce' /\ Named' /\ ReportsKept
  BY <1>1, <1>2 DEF IInv, SourcesServeOnce, Named, ReportsKept
<1>4. CASE PurgeSelects \/ PurgeCollects
  <2>1. alert' = alert
    BY <1>4 DEF PurgeSelects, PurgeCollects
  <2>2. /\ purge' \in [stage : {"idle", "selected", "collected"}, alerts : SUBSET Alerts]
        /\ \A a \in purge'.alerts : Deletable(a)
    <3>1. CASE PurgeSelects
      BY <3>1 DEF PurgeSelects
    <3>2. CASE PurgeCollects
      BY <3>2 DEF PurgeCollects, IInv, TypeInv
    <3> QED
      BY <1>4, <3>1, <3>2
  <2>3. TypeInv'
    BY <1>1, <2>1, <2>2 DEF IInv, TypeInv
  <2>4. Settled' /\ VerdictsKept /\ NoAlertStranded' /\ VulnerabilitiesWait'
    BY <1>1, <2>1 DEF IInv, Settled, VerdictsKept, NoAlertStranded, VulnerabilitiesWait
  <2>5. PurgeIsSafe'
    BY <1>2, <2>1, <2>2 DEF PurgeIsSafe, Deletable, Open
  <2> QED
    BY <1>3, <2>3, <2>4, <2>5 DEF IInv
<1>5. CASE PurgeDeletes
  <2>1. purge' = [stage |-> "idle", alerts |-> {}]
    BY <1>5 DEF PurgeDeletes
  <2>2. /\ alert' \in [Alerts -> Alert]
        /\ \A a \in Alerts :
             \/ alert'[a] = alert[a]
             \/ a \in purge.alerts /\ alert'[a].triage_status = "DELETED"
    <3> DEFINE row == [triage_status |-> "DELETED", claimed_by |-> NoUser]
    <3>1. row \in Alert /\ row.triage_status = "DELETED"
      BY DEF Alert
    <3>2. \/ alert' = alert
          \/ alert' = [a \in Alerts |-> IF a \in purge.alerts THEN row ELSE alert[a]]
      BY <1>5 DEF PurgeDeletes
    <3> HIDE DEF row
    <3> QED
      BY <3>1, <3>2 DEF IInv, TypeInv
  <2>3. TypeInv'
    BY <1>1, <2>1, <2>2 DEF IInv, TypeInv
  <2>4. VerdictsKept /\ Settled'
    <3>1. ASSUME NEW i \in DOMAIN cases, NEW a \in cases[i].alerts
          PROVE  alert'[a] = alert[a]
      <4>1. cases[i] \in Case
        BY DEF IInv, TypeInv
      <4>2. a \in Alerts
        BY <4>1 DEF Case
      <4>3. i \in CasesOf(a)
        BY DEF CasesOf
      <4> QED
        BY <2>2, <4>2, <4>3 DEF IInv, PurgeIsSafe
    <3>2. VerdictsKept
      BY <1>1, <3>1 DEF VerdictsKept
    <3> QED
      BY <1>1, <3>2, KeptIsSettled DEF IInv
  <2>5. NoAlertStranded' /\ VulnerabilitiesWait'
    BY <2>2, TriageAssumption
    DEF IInv, NoAlertStranded, VulnerabilitiesWait, has_tier1_access
  <2>6. PurgeIsSafe'
    BY <2>1 DEF PurgeIsSafe
  <2> QED
    BY <1>3, <2>3, <2>4, <2>5, <2>6 DEF IInv
<1> QED
  BY <1>4, <1>5

\* A revised classification: the case keeps its sources, and they their rows.
LEMMA ReclassifyStep ==
  ASSUME IInv, NEW i \in DOMAIN cases, Reclassify(i)
  PROVE  IInv' /\ ReportsKept /\ VerdictsKept
<1>1. UNCHANGED <<alert, report, form, dismissal, purge>>
  BY DEF Reclassify
<1>2. PICK c \in Classifications : cases' = [cases EXCEPT ![i].classification = c]
  BY DEF Reclassify
<1>3. cases \in Seq(Case) /\ Len(cases) <= MaxCases
  BY DEF IInv, TypeInv
<1> DEFINE revised == [cases[i] EXCEPT !.classification = c]
<1>4. /\ revised \in Case
      /\ revised.alerts = cases[i].alerts /\ revised.report = cases[i].report
  <2>1. cases[i] \in Case
    BY <1>3
  <2> QED
    BY <2>1 DEF Case
<1>5. cases' = [cases EXCEPT ![i] = revised]
  BY <1>2, <1>3
<1> HIDE DEF revised
<1>6. /\ cases' \in Seq(Case) /\ Len(cases') = Len(cases) /\ DOMAIN cases' = DOMAIN cases
      /\ \A j \in DOMAIN cases : cases'[j] = IF j = i THEN revised ELSE cases[j]
  BY <1>3, <1>4, <1>5
<1>7. \A j \in DOMAIN cases : /\ cases'[j].alerts = cases[j].alerts
                             /\ cases'[j].report = cases[j].report
  BY <1>4, <1>6
<1>8. \A x : CasesOf(x)' = CasesOf(x) /\ CasesOn(x)' = CasesOn(x)
  BY <1>6, <1>7 DEF CasesOf, CasesOn
<1>9. TypeInv'
  BY <1>1, <1>3, <1>6 DEF IInv, TypeInv
<1>10. SourcesServeOnce' /\ PurgeIsSafe'
  BY <1>1, <1>8 DEF IInv, SourcesServeOnce, PurgeIsSafe
<1>11. Settled' /\ VerdictsKept
  BY <1>1, <1>6, <1>7 DEF IInv, Settled, VerdictsKept
<1>12. NoAlertStranded' /\ VulnerabilitiesWait' /\ Named' /\ ReportsKept
  BY <1>1 DEF IInv, NoAlertStranded, VulnerabilitiesWait, Named, ReportsKept
<1> QED
  BY <1>9, <1>10, <1>11, <1>12 DEF IInv

LEMMA NextIInv ==
  IInv /\ [Next]_vars => IInv' /\ (UNCHANGED vars \/ (ReportsKept /\ VerdictsKept))
<1> SUFFICES ASSUME IInv, [Next]_vars
             PROVE  IInv' /\ (UNCHANGED vars \/ (ReportsKept /\ VerdictsKept))
  OBVIOUS
<1>1. CASE UNCHANGED vars
  <2>1. UNCHANGED <<alert, report, cases, form, dismissal, purge>>
    BY <1>1 DEF vars
  <2>2. \A x : CasesOf(x)' = CasesOf(x) /\ CasesOn(x)' = CasesOn(x)
    BY <2>1 DEF CasesOf, CasesOn
  <2>3. TypeInv' /\ Named' /\ NoAlertStranded' /\ VulnerabilitiesWait'
    BY <2>1 DEF IInv, TypeInv, Named, NoAlertStranded, VulnerabilitiesWait
  <2>4. SourcesServeOnce' /\ PurgeIsSafe'
    BY <2>1, <2>2 DEF IInv, SourcesServeOnce, PurgeIsSafe
  <2>5. Settled'
    BY <2>1 DEF IInv, Settled
  <2> QED
    BY <1>1, <2>3, <2>4, <2>5 DEF IInv
<1>2. CASE Next
  BY <1>2, ClaimSteps, ReportSteps, SaveStep, ReclassifyStep, PurgeSteps DEF Next
<1> QED
  BY <1>1, <1>2

LEMMA Invariance == Spec => []IInv
<1>1. Init => IInv
  BY InitIInv
<1>2. IInv /\ [Next]_vars => IInv'
  BY NextIInv
<1> QED
  BY <1>1, <1>2, PTL DEF Spec

-----------------------------------------------------------------------------
\* The rows of both queues, the forms and the job hold values of their types.
THEOREM TypeCorrect == Spec => []TypeOK
<1>1. IInv => TypeOK
  <2> SUFFICES ASSUME IInv PROVE TypeOK
    OBVIOUS
  <2>1. cases \in [1 .. Len(cases) -> Case] /\ Len(cases) \in 0 .. MaxCases
    BY TriageAssumption DEF IInv, TypeInv
  <2>2. \E n \in 0 .. MaxCases : cases \in [1 .. n -> Case]
    BY <2>1
  <2> QED
    BY <2>2 DEF IInv, TypeInv, TypeOK
<1> QED
  BY <1>1, Invariance, PTL

LEMMA AtMostOne ==
  ASSUME NEW S, \A x, y \in S : x = y
  PROVE  Cardinality(S) <= 1
<1>1. CASE S = {}
  BY <1>1, FS_EmptySet
<1>2. CASE S # {}
  <2>1. PICK x : S = {x}
    BY <1>2
  <2> QED
    BY <2>1, FS_Singleton
<1> QED
  BY <1>1, <1>2

\* A form is saved only over sources nothing else was made of, however many forms
\* were open on them (create_ticket_from_form asks again under the locks).
THEOREM SourcesAreUsedOnce == Spec => []OneCasePerSource
<1>1. IInv => OneCasePerSource
  BY AtMostOne DEF IInv, SourcesServeOnce, OneCasePerSource
<1> QED
  BY <1>1, Invariance, PTL

\* The verdict on an alert is given by the save that makes a case of it, and no
\* later step touches the row: no claim, release, form or purge that was under way,
\* and no revision of the case.
THEOREM VerdictsStand == Spec => VerdictGivenOnce
<1>1. IInv /\ [Next]_vars =>
        [\A i \in DOMAIN cases' : \A a \in cases'[i].alerts :
            IF i \in DOMAIN cases THEN alert'[a] = alert[a]
            ELSE /\ alert'[a].triage_status =
                        (IF cases'[i].classification = "EVENT" THEN "FALSE_POSITIVE"
                         ELSE "TRUE_POSITIVE")
                 /\ alert'[a].claimed_by = NoUser]_vars
  BY NextIInv DEF VerdictsKept
<1> QED
  BY <1>1, Invariance, PTL DEF Spec, VerdictGivenOnce

\* Every open alert is free or held by someone who can go on with it.
THEOREM OpenAlertsAreReachable == Spec => []NoAlertStranded
<1>1. IInv => NoAlertStranded
  BY DEF IInv
<1> QED
  BY <1>1, Invariance, PTL

\* The purge deletes decided alerts without a case, though its select, its second
\* look and its delete are three statements.
THEOREM PurgeTakesDecidedOnly == Spec => OnlyDecidedAlertsArePurged
<1>1. IInv /\ [Next]_vars =>
        [\A a \in Alerts :
           (alert[a].triage_status # "DELETED" /\ alert'[a].triage_status = "DELETED") =>
             /\ CasesOf(a) = {}
             /\ alert[a].triage_status \in {"PENDING", "TRIAGING"} => a \in Vulnerabilities]_vars
  <2> SUFFICES ASSUME IInv, Next, NEW a \in Alerts,
                      alert[a].triage_status # "DELETED",
                      alert'[a].triage_status = "DELETED"
               PROVE  /\ CasesOf(a) = {}
                      /\ alert[a].triage_status \in {"PENDING", "TRIAGING"}
                           => a \in Vulnerabilities
    OBVIOUS
  <2>0. alert \in [Alerts -> Alert]
    BY DEF IInv, TypeInv
  <2>1. ASSUME NEW u \in Users, NEW x \in Alerts, ClaimAlert(u, x) \/ ReleaseAlert(u, x)
        PROVE  FALSE
    BY <2>0, <2>1 DEF ClaimAlert, ReleaseAlert, Released
  <2>2. ASSUME NEW u \in Users, SaveForm(u)
        PROVE  FALSE
    <3>1. \E c \in Classifications :
            alert' = [x \in Alerts |->
              IF x \in form[u].alerts
              THEN [triage_status |-> AlertVerdict(c), claimed_by |-> NoUser]
              ELSE alert[x]]
      BY <2>2 DEF SaveForm
    <3>2. \A c \in Classifications : AlertVerdict(c) # "DELETED"
      BY DEF AlertVerdict
    <3> QED
      BY <3>1, <3>2
  <2>3. CASE PurgeDeletes
    <3>1. a \in purge.alerts
      BY <2>3 DEF PurgeDeletes
    <3> QED
      BY <3>1 DEF IInv, PurgeIsSafe, Open
  <2>4. CASE UNCHANGED alert
    BY <2>4
  <2> QED
    BY <2>1, <2>2, <2>3, <2>4
    DEF Next, ClaimReport, ReleaseReport, StartDismissal, SaveDismissal, OpenForm, CloseForm,
        PurgeSelects, PurgeCollects, Reclassify
<1> QED
  BY <1>1, Invariance, PTL DEF Spec, OnlyDecidedAlertsArePurged

\* A report that left the queue names who disposed of it, and does not come back,
\* whatever dismissal was under way when it was converted.
THEOREM DisposalsStayAccountable == Spec => DisposalsAreAccountable
<1>1. IInv /\ [Next]_vars =>
        [\A r \in Reports :
           /\ report'[r].decision # "" => report'[r].resolved_by # NoUser
           /\ report[r].decision # "" => report'[r].decision # ""]_vars
  BY NextIInv DEF ReportsKept
<1> QED
  BY <1>1, Invariance, PTL DEF Spec, DisposalsAreAccountable
=============================================================================
