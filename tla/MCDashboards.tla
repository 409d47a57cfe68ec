---------------------------- MODULE MCDashboards ----------------------------
(***************************************************************************)
(* TLC instance of Dashboards: one ticket in every status, a second one    *)
(* that may be of the same Project Incident, two alerts, and a page of     *)
(* every view.                                                             *)
(***************************************************************************)
EXTENDS Dashboards

CONSTANTS a, b, w, x, p, ana, act, bo, exe

BaseRow(status) ==
    [status |-> status, severity |-> "High", emergency |-> FALSE, project |-> NoProject,
     deadline |-> 2, assigned_to |-> ana, created_by |-> ana, t2_claimed_by |-> NoUser,
     verified_by |-> NoUser, approved_by |-> NoUser,
     closers |-> IF status \in RESOLVED_STATUSES THEN {bo} ELSE {},
     request |-> "none", function |-> "VA", asked |-> 0, answered |-> 0, opened |-> 1]

\* Each status once, and beside it what differs from the base row.
FirstRows ==
    {BaseRow(s) : s \in Statuses}
    \cup {[BaseRow("ESCALATED_T2") EXCEPT !.t2_claimed_by = bo, !.deadline = 9],
          [BaseRow("PENDING_T2_REVIEW") EXCEPT !.t2_claimed_by = bo, !.deadline = -1],
          [BaseRow("PENDING_MANAGER") EXCEPT !.emergency = TRUE, !.project = p, !.verified_by = bo],
          [BaseRow("AWAITING_OWNER") EXCEPT !.request = "OPEN", !.deadline = 3, !.asked = 8, !.opened = 9],
          [BaseRow("CONTAINMENT_REPORTED") EXCEPT !.severity = "Low", !.deadline = NoDeadline],
          [BaseRow("AWAITING_CONTAINMENT") EXCEPT !.deadline = 0, !.assigned_to = NoUser],
          [BaseRow("NEW") EXCEPT !.deadline = 8, !.request = "IN_PROGRESS", !.asked = 3,
                                 !.function = "FORENSIC_RCA"],
          [BaseRow("APPROVED") EXCEPT !.closers = {ana}, !.verified_by = bo, !.project = p],
          [BaseRow("APPROVED") EXCEPT !.closers = {}, !.approved_by = exe]}

SecondRows ==
    {[BaseRow("CLOSED_EVENT") EXCEPT !.project = p, !.closers = {ana, bo},
                                     !.request = "DONE", !.asked = 9, !.answered = 1],
     [BaseRow("AWAITING_CONTAINMENT") EXCEPT !.project = p, !.emergency = TRUE, !.deadline = -1]}

AlertRow(status, claimant, age, level) ==
    [kind |-> "DETECTION", triage_status |-> status, claimed_by |-> claimant, age |-> age,
     rule_level |-> level]

\* The last but one was claimed by an analyst whose account was deleted since.
AlertRows ==
    {AlertRow("PENDING", NoUser, 4, 12), AlertRow("PENDING", NoUser, 5, 10),
     AlertRow("TRIAGING", ana, 3, 14), AlertRow("TRIAGING", act, 1, 15),
     AlertRow("TRIAGING", NoUser, 9, 15),
     [AlertRow("PENDING", NoUser, 2, 11) EXCEPT !.kind = "VULNERABILITY"]}

Rows == [t \in Tickets \cup Alerts |->
            IF t \in Alerts THEN AlertRows ELSE IF t = a THEN FirstRows ELSE SecondRows]

Page(view, viewer) ==
    [view |-> view, viewer |-> viewer, period |-> FALSE, severity |-> "", status |-> "",
     stage |-> "", claim |-> "", function |-> "", ola |-> "", level |-> ""]

TriagePage == [Page("triage_queue", ana) EXCEPT !.claim = "actionable"]

Requests ==
    {Page("dashboard", exe),
     [Page("dashboard", ana) EXCEPT !.severity = "High", !.period = TRUE],
     Page("executive", exe),
     [Page("executive", exe) EXCEPT !.period = TRUE, !.function = "VA"],
     Page("tier2_queue", bo),
     [Page("tier2_queue", bo) EXCEPT !.stage = "escalated", !.claim = "mine"],
     [Page("tier2_queue", bo) EXCEPT !.severity = "High", !.claim = "unclaimed"],
     [Page("ticket_list", ana) EXCEPT !.status = "AWAITING_OWNER"],
     TriagePage,
     [TriagePage EXCEPT !.claim = "others", !.level = "15"],
     [TriagePage EXCEPT !.claim = "all", !.ola = "due"],
     Page("snapshot", NoUser),
     Page("history", ana),
     [Page("history", ana) EXCEPT !.status = "APPROVED", !.period = TRUE]}
=============================================================================
