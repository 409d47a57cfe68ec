------------------------------ MODULE Triage ------------------------------
(***************************************************************************)
(* What becomes of an alert or a manual report before it is a case: the    *)
(* claims of the two triage queues, the forms opened on claimed sources,   *)
(* their conversion into a Ticket or a Project Incident, the dismissal of  *)
(* a report, and the retention jobs that delete alerts.                    *)
(*                                                                         *)
(* Claims and releases are single conditional writes.  A form is opened    *)
(* on an unlocked look at its sources and saved in one transaction that    *)
(* locks them and asks again.  A dismissal reads the report and saves it   *)
(* later without a lock.  A purge selects, collects and deletes in three   *)
(* steps (a delete with cascades is no single statement).                  *)
(*                                                                         *)
(* Not here: the alerts' arrival (WazuhIngest), the fields of the forms,   *)
(* and what happens to a case (TicketLifecycle, ProjectIncident), but for  *)
(* one thing: its classification may be revised, and its sources are not   *)
(* told.                                                                   *)
(***************************************************************************)
EXTENDS Naturals, FiniteSets, Sequences

CONSTANTS
    Alerts, Reports,
    Users, NoUser,
    Tier1,            \* profile.is_tier1
    Tier2,            \* profile.is_tier2: opens cases, does not claim
    Superusers,
    Vulnerabilities,  \* alerts of that kind, from before they were filtered
    Legacy,           \* alerts closed as an Event by the retired triage action
    Aged,             \* alerts older than the retention window
    MaxCases          \* bound: cases created

ASSUME TriageAssumption ==
    /\ NoUser \notin Users
    /\ Tier1 \subseteq Users /\ Tier2 \subseteq Users /\ Superusers \subseteq Users
    /\ Vulnerabilities \subseteq Alerts /\ Legacy \subseteq Alerts /\ Aged \subseteq Alerts
    /\ MaxCases \in Nat

VARIABLES
    alert,      \* the rows of WazuhAlert
    report,     \* the rows of TriageRecord
    cases,      \* the tickets and projects created, oldest first
    form,       \* the create form each user has open
    dismissal,  \* the report each user is about to dismiss
    purge       \* the retention job under way

vars == <<alert, report, cases, form, dismissal, purge>>

Cases == 1 .. MaxCases
Classifications == {"EVENT", "INCIDENT"}

\* "DELETED" stands for no row.
Alert ==
    [triage_status : {"PENDING", "TRIAGING", "TRUE_POSITIVE", "FALSE_POSITIVE", "DELETED"},
     claimed_by : Users \cup {NoUser}]

TriageRecord ==
    [decision : {"", "FP", "TP"}, claimed_by : Users \cup {NoUser},
     resolved_by : Users \cup {NoUser}]

\* A project has its alert as project_incident; a ticket has links and a primary.
\* The classification is today's: a project is an Incident when any member is.
Case ==
    [project : BOOLEAN, classification : Classifications,
     alerts : SUBSET Alerts, report : SUBSET Reports]

NoForm == [open |-> FALSE, project |-> FALSE, alerts |-> {}, report |-> {}]
Form == [open : BOOLEAN, project : BOOLEAN, alerts : SUBSET Alerts, report : SUBSET Reports]

\* The columns of both queues take the codes of their choices and name accounts.
TypeOK ==
    /\ alert \in [Alerts -> Alert]
    /\ report \in [Reports -> TriageRecord]
    /\ \E n \in 0 .. MaxCases : cases \in [1 .. n -> Case]
    /\ form \in [Users -> Form]
    /\ dismissal \in [Users -> SUBSET Reports]
    /\ purge \in [stage : {"idle", "selected", "collected"}, alerts : SUBSET Alerts]

Init ==
    /\ alert = [a \in Alerts |->
                    [triage_status |-> IF a \in Legacy THEN "FALSE_POSITIVE" ELSE "PENDING",
                     claimed_by |-> NoUser]]
    /\ report = [r \in Reports |->
                    [decision |-> "", claimed_by |-> NoUser, resolved_by |-> NoUser]]
    /\ cases = << >>
    /\ form = [u \in Users |-> NoForm]
    /\ dismissal = [u \in Users |-> {}]
    /\ purge = [stage |-> "idle", alerts |-> {}]

(***************************************************************************)
(* Rules                                                                   *)
(***************************************************************************)

CasesOf(a) == {i \in DOMAIN cases : a \in cases[i].alerts}
CasesOn(r) == {i \in DOMAIN cases : r \in cases[i].report}

has_tier1_access(u) == u \in Tier1 \cup Superusers

can_create_ticket_from_wazuh(a, u) ==
    /\ alert[a].claimed_by = u
    /\ CasesOf(a) = {}
    /\ alert[a].triage_status = "TRIAGING"

\* A report with a decision was converted or dismissed (legacy decisions aside).
can_create_ticket_from_triage(r, u) ==
    /\ CasesOn(r) = {}
    /\ report[r].decision = ""
    /\ u \in Superusers \/ (report[r].claimed_by = u /\ u \in Tier1)

\* May the sources of the form f become a case of u's?  A bundle takes at least
\* two alerts and a project at most one.
Available(f, u) ==
    /\ \A a \in f.alerts : can_create_ticket_from_wazuh(a, u)
    /\ \A r \in f.report : can_create_ticket_from_triage(r, u)

(***************************************************************************)
(* The two queues                                                          *)
(***************************************************************************)

ClaimAlert(u, a) ==
    /\ has_tier1_access(u)
    /\ a \notin Vulnerabilities
    /\ alert[a].triage_status = "PENDING" /\ alert[a].claimed_by = NoUser
    /\ alert' = [alert EXCEPT ![a] = [triage_status |-> "TRIAGING", claimed_by |-> u]]
    /\ UNCHANGED <<report, cases, form, dismissal, purge>>

\* Mutant: the status stays TRIAGING.
Released_still_triaging(a) == [alert[a] EXCEPT !.claimed_by = NoUser]

Released(a) == [triage_status |-> "PENDING", claimed_by |-> NoUser]

\* For the holder alone, a superuser included; the row is locked.
ReleaseAlert(u, a) ==
    /\ has_tier1_access(u)
    /\ alert[a].triage_status = "TRIAGING" /\ alert[a].claimed_by = u
    /\ alert' = [alert EXCEPT ![a] = Released(a)]
    /\ UNCHANGED <<report, cases, form, dismissal, purge>>

\* decision='' and ticket__isnull: a report made into a project has a decision.
Undisposed(r) == report[r].decision = "" /\ {i \in CasesOn(r) : ~cases[i].project} = {}

ClaimReport(u, r) ==
    /\ has_tier1_access(u)
    /\ Undisposed(r) /\ report[r].claimed_by = NoUser
    /\ report' = [report EXCEPT ![r].claimed_by = u]
    /\ UNCHANGED <<alert, cases, form, dismissal, purge>>

Held(r, u) == Undisposed(r) /\ (report[r].claimed_by = u \/ u \in Superusers)

ReleaseReport(u, r) ==
    /\ has_tier1_access(u) /\ Held(r, u)
    /\ report' = [report EXCEPT ![r].claimed_by = NoUser]
    /\ UNCHANGED <<alert, cases, form, dismissal, purge>>

\* dismiss_manual_triage reads the report ...
StartDismissal(u, r) ==
    /\ has_tier1_access(u) /\ Held(r, u) /\ dismissal[u] = {}
    /\ dismissal' = [dismissal EXCEPT ![u] = {r}]
    /\ UNCHANGED <<alert, report, cases, form, purge>>

Dismissed(u) == [decision |-> "FP", claimed_by |-> NoUser, resolved_by |-> u]

\* ... and saves these columns, whatever became of it.
SaveDismissal(u) ==
    /\ \E r \in dismissal[u] : report' = [report EXCEPT ![r] = Dismissed(u)]
    /\ dismissal' = [dismissal EXCEPT ![u] = {}]
    /\ UNCHANGED <<alert, cases, form, purge>>

(***************************************************************************)
(* Creating a case                                                         *)
(***************************************************************************)

\* create_ticket and create_project_incident, GET.
OpenForm(u) ==
    /\ u \in Tier1 \cup Tier2 \cup Superusers /\ ~form[u].open
    /\ \E S \in SUBSET Alerts, R \in SUBSET Reports, project \in BOOLEAN :
        LET f == [open |-> TRUE, project |-> project, alerts |-> S, report |-> R] IN
        /\ Cardinality(R) <= 1 /\ (project => Cardinality(S) + Cardinality(R) <= 1)
        /\ S \cup R # {} /\ Available(f, u)
        /\ form' = [form EXCEPT ![u] = f]
    /\ UNCHANGED <<alert, report, cases, dismissal, purge>>

CloseForm(u) ==
    /\ form[u].open
    /\ form' = [form EXCEPT ![u] = NoForm]
    /\ UNCHANGED <<alert, report, cases, dismissal, purge>>

\* Mutant: the check made when the form was opened is good enough.
AvailableAtSave_once(f, u) == TRUE

AvailableAtSave(f, u) == Available(f, u)

AlertVerdict(classification) ==
    IF classification = "EVENT" THEN "FALSE_POSITIVE" ELSE "TRUE_POSITIVE"

\* create_ticket_from_form and create_project_incident_from_forms: the sources
\* are locked, asked again and consumed with the case, in one transaction.
SaveForm(u) ==
    LET f == form[u] IN
    /\ f.open /\ Len(cases) < MaxCases /\ AvailableAtSave(f, u)
    /\ \E c \in Classifications :
        /\ cases' = Append(cases, [project |-> f.project, classification |-> c,
                                   alerts |-> f.alerts, report |-> f.report])
        /\ alert' = [a \in Alerts |->
              IF a \in f.alerts
              THEN [triage_status |-> AlertVerdict(c), claimed_by |-> NoUser]
              ELSE alert[a]]
        /\ report' = [r \in Reports |->
              IF r \in f.report
              THEN [decision |-> IF c = "EVENT" THEN "FP" ELSE "TP",
                    claimed_by |-> NoUser, resolved_by |-> u]
              ELSE report[r]]
    /\ form' = [form EXCEPT ![u] = NoForm]
    /\ UNCHANGED <<dismissal, purge>>

\* A manager sends the case back, Tier 2's review or watch decides otherwise, or an
\* edit corrects it: no other row is written.
Reclassify(i) ==
    /\ \E c \in Classifications : cases' = [cases EXCEPT ![i].classification = c]
    /\ UNCHANGED <<alert, report, form, dismissal, purge>>

(***************************************************************************)
(* Retention: purge_wazuh_alerts, purge_vulnerability_alerts               *)
(***************************************************************************)

\* Mutant: the alert of a project has no link, so it may go.
Deletable_unlinked(a) ==
    /\ alert[a].triage_status # "DELETED" /\ {i \in CasesOf(a) : ~cases[i].project} = {}
    /\ \/ a \in Aged /\ alert[a].triage_status \notin {"PENDING", "TRIAGING"}
       \/ a \in Vulnerabilities

Deletable(a) ==
    /\ alert[a].triage_status # "DELETED" /\ CasesOf(a) = {}
    /\ \/ a \in Aged /\ alert[a].triage_status \notin {"PENDING", "TRIAGING"}
       \/ a \in Vulnerabilities

PurgeSelects ==
    /\ purge.stage = "idle"
    /\ \E S \in SUBSET {a \in Alerts : Deletable(a)} :
        S # {} /\ purge' = [stage |-> "selected", alerts |-> S]
    /\ UNCHANGED <<alert, report, cases, form, dismissal>>

\* delete_unlinked_batch asks again ...
PurgeCollects ==
    /\ purge.stage = "selected"
    /\ purge' = [stage |-> "collected", alerts |-> {a \in purge.alerts : Deletable(a)}]
    /\ UNCHANGED <<alert, report, cases, form, dismissal>>

\* ... and deletes by primary key.  A link made since then fails the foreign key
\* of TicketAlertLink and rolls the batch back; a project's alert has no link.
PurgeDeletes ==
    LET linked == {a \in purge.alerts : \E i \in CasesOf(a) : ~cases[i].project} IN
    /\ purge.stage = "collected"
    /\ purge' = [stage |-> "idle", alerts |-> {}]
    /\ alert' = IF linked # {} THEN alert
                ELSE [a \in Alerts |->
                        IF a \in purge.alerts
                        THEN [triage_status |-> "DELETED", claimed_by |-> NoUser]
                        ELSE alert[a]]
    /\ UNCHANGED <<report, cases, form, dismissal>>

(***************************************************************************)

Next ==
    \/ \E u \in Users :
        \/ \E a \in Alerts : ClaimAlert(u, a) \/ ReleaseAlert(u, a)
        \/ \E r \in Reports : ClaimReport(u, r) \/ ReleaseReport(u, r) \/ StartDismissal(u, r)
        \/ SaveDismissal(u) \/ OpenForm(u) \/ CloseForm(u) \/ SaveForm(u)
    \/ \E i \in DOMAIN cases : Reclassify(i)
    \/ PurgeSelects \/ PurgeCollects \/ PurgeDeletes

Spec == Init /\ [][Next]_vars

(***************************************************************************)
(* Properties                                                              *)
(***************************************************************************)

\* However many forms were open on it, a source serves one case: no alert and no
\* report is behind two of them.
OneCasePerSource ==
    /\ \A a \in Alerts : Cardinality(CasesOf(a)) <= 1
    /\ \A r \in Reports : Cardinality(CasesOn(r)) <= 1

\* The verdict on an alert is given once: by the save that made a case of it, as
\* that case was then classified.  From then on no step touches the row, so it stays
\* stored and claimed by nobody, whatever becomes of the claims, forms and purges
\* under way and however the case's classification is revised (the triage figures of
\* the reporting mart count these verdicts, not the tickets').
VerdictGivenOnce ==
    [][\A i \in DOMAIN cases' : \A a \in cases'[i].alerts :
        IF i \in DOMAIN cases THEN alert'[a] = alert[a]
        ELSE /\ alert'[a].triage_status =
                    (IF cases'[i].classification = "EVENT" THEN "FALSE_POSITIVE"
                     ELSE "TRUE_POSITIVE")
             /\ alert'[a].claimed_by = NoUser]_vars

\* An open alert can always be taken on: it is free to claim, or someone who may
\* release or convert it holds it.  A vulnerability waits for its purge.
NoAlertStranded ==
    \A a \in Alerts \ Vulnerabilities :
        /\ alert[a].triage_status = "PENDING" => alert[a].claimed_by = NoUser
        /\ alert[a].triage_status = "TRIAGING" => has_tier1_access(alert[a].claimed_by)

\* Retention takes away nothing anyone still needs: no detection that nobody has
\* decided on, and no alert behind a case.
OnlyDecidedAlertsArePurged ==
    [][\A a \in Alerts :
        (alert[a].triage_status # "DELETED" /\ alert'[a].triage_status = "DELETED") =>
            /\ CasesOf(a) = {}
            /\ alert[a].triage_status \in {"PENDING", "TRIAGING"} => a \in Vulnerabilities]_vars

\* A report that left the queue, converted or dismissed, names who disposed of it,
\* and is never offered to the queue again.
DisposalsAreAccountable ==
    [][\A r \in Reports :
        /\ report'[r].decision # "" => report'[r].resolved_by # NoUser
        /\ report[r].decision # "" => report'[r].decision # ""]_vars
=============================================================================
