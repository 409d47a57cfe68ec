----------------------------- MODULE Dashboards -----------------------------
(***************************************************************************)
(* The pages that count: the SOC dashboard, the executive dashboard, the   *)
(* Tier 2 queue and the triage queue with their pills, Active Tickets and  *)
(* Ticket History; and the nightly snapshot, built the same way.           *)
(*                                                                         *)
(* A page is built from a series of queries outside any transaction        *)
(* (READ COMMITTED, no ATOMIC_REQUESTS): each sees what is committed when  *)
(* it runs, and tickets move in between.  So a page is a record of what    *)
(* each query so far has returned.  A count is kept as the set of          *)
(* <<ticket, cell>> pairs it counts.                                       *)
(*                                                                         *)
(* A Row keeps the columns the queries read.  `deadline' is                *)
(* ola_contain_deadline in half hours from the page's `now'; `opened' is   *)
(* how many days ago the ticket was created; `closers' are the authors of  *)
(* its log rows at a resolved status; `request' is the status of its       *)
(* response request, `asked' and `answered' how many days ago that was     *)
(* created and changed last.  Sorting, paging, search and labels are left  *)
(* out.                                                                    *)
(***************************************************************************)
EXTENDS TicketRules, Integers, FiniteSets, Sequences

CONSTANTS
    Tickets,
    Alerts,        \* the Wazuh alerts of the triage queue
    Projects,
    NoProject,
    NoDeadline,
    Executives,    \* profile.is_executive
    InitialRows,   \* a function: the rows each ticket and alert may start from
    PeriodDays,    \* how many days before today the selected period begins
    PageRequests,  \* the pages opened: [view, viewer, and the filters of the URL]
    MaxRows        \* bound: the different rows of a ticket while a page is rendered

Severities == {"Unknown", "Low", "Medium", "High", "Critical"}
RequestStatuses == {"OPEN", "IN_PROGRESS", "DONE", "CANCELLED"}
ResponseTypes == {"VA", "PENTEST", "HARDENING", "VA_PT", "INFRA_SEC", "FORENSIC_RCA"}
TriageStatuses == {"PENDING", "TRIAGING", "TRUE_POSITIVE", "FALSE_POSITIVE", "ESCALATED"}

Row ==
    [status : Statuses, severity : Severities, emergency : BOOLEAN,
     project : Projects \cup {NoProject}, deadline : Int \cup {NoDeadline},
     assigned_to : Users \cup {NoUser}, created_by : Users \cup {NoUser},
     t2_claimed_by : Users \cup {NoUser}, verified_by : Users \cup {NoUser},
     approved_by : Users \cup {NoUser}, closers : SUBSET Users,
     request : RequestStatuses \cup {"none"}, function : ResponseTypes,
     asked : Nat, answered : Nat, opened : Nat]

Alert ==
    [kind : {"DETECTION", "VULNERABILITY"}, triage_status : TriageStatuses,
     claimed_by : Users \cup {NoUser}, age : Nat, rule_level : Nat]

\* The URL of a page; "" is no filter.
PageRequest ==
    [view : {"dashboard", "executive", "tier2_queue", "triage_queue", "ticket_list", "history",
             "snapshot"},
     viewer : Users \cup {NoUser}, period : BOOLEAN, severity : Severities \cup {""},
     status : Statuses \cup {""}, stage : {"", "escalated", "containment", "owner"},
     claim : {"", "actionable", "unclaimed", "mine", "others", "all"},
     function : ResponseTypes \cup {""}, ola : {"", "breached", "due", "on_track"},
     level : {"", "15", "12", "under12"}]

\* The executive page has no filter of severity or status beside its one `f', the
\* triage queue always has a claim, and the snapshot is of everything.  A ticket is
\* claimed in the Tier 2 queue only (ClaimsInQueue of TicketLifecycle).
ASSUME PagesAssumption ==
    /\ Tickets \cap Alerts = {} /\ NoDeadline \notin Int /\ NoProject \notin Projects
    /\ \A t \in Tickets : InitialRows[t] \subseteq
         {row \in Row : row.t2_claimed_by # NoUser => row.status \in TIER2_QUEUE_STATUSES}
    /\ \A a \in Alerts : InitialRows[a] \subseteq Alert
    /\ Executives \subseteq Users /\ PeriodDays \in Nat /\ MaxRows \in Nat
    /\ PageRequests \subseteq PageRequest
    /\ \A c \in PageRequests :
        /\ c.view \in {"executive", "snapshot"} => c.severity = "" /\ c.status = ""
        /\ c.view = "snapshot" => ~c.period /\ c.claim = "" /\ c.stage = ""
        /\ c.view = "triage_queue" => c.claim # ""

VARIABLES
    db,     \* the committed rows of the table the page reads
    seen,   \* the rows each has been since the page was opened (history)
    page    \* what its queries have returned so far

page_vars == <<db, seen, page>>

(***************************************************************************)
(* OLA bands (ola.py)                                                      *)
(***************************************************************************)

URGENT == 2      \* URGENT_HOURS
DUE_SOON == 8    \* DUE_SOON_HOURS

Bands == {"overdue", "due_1h", "due_4h", "on_track"}

\* In the database, to filter a list.
\* Mutant: a deadline exactly one hour away falls between two bands.
bucket_filter_open_edges(d, band) ==
    /\ d # NoDeadline
    /\ CASE band = "overdue"  -> d < 0
         [] band = "due_1h"   -> d >= 0 /\ d < URGENT
         [] band = "due_4h"   -> d > URGENT /\ d <= DUE_SOON
         [] band = "on_track" -> d > DUE_SOON

bucket_filter(d, band) ==
    /\ d # NoDeadline
    /\ CASE band = "overdue"  -> d < 0
         [] band = "due_1h"   -> d >= 0 /\ d <= URGENT
         [] band = "due_4h"   -> d > URGENT /\ d <= DUE_SOON
         [] band = "on_track" -> d > DUE_SOON

\* Row by row in Python, to draw the runway and the badges.
bucket_for(d) ==
    IF d < 0 THEN "overdue"
    ELSE IF d <= URGENT THEN "due_1h"
    ELSE IF d <= DUE_SOON THEN "due_4h"
    ELSE "on_track"

(***************************************************************************)
(* Groups of statuses                                                      *)
(***************************************************************************)

ANALYST_BLOCKED_STATUSES ==
    {"ESCALATED_T2", "PENDING_MGR_TRIAGE", "AWAITING_CONTAINMENT", "CONTAINMENT_REPORTED",
     "PENDING_T2_REVIEW", "PENDING_MANAGER", "PENDING_MGR_EVENT_REVIEW"}

Courts == {"COURT_SOC", "COURT_MANAGER", "COURT_EXTERNAL", "COURT_TIER2"}

\* Mutant: the manager's review of an Event downgrade is in no court.
EXEC_COURT_GROUPS_before_review(court) ==
    CASE court = "COURT_SOC"      -> {"NEW", "OWNER_REMEDIATED", "MONITORING"}
      [] court = "COURT_MANAGER"  -> {"PENDING_MGR_TRIAGE", "PENDING_MANAGER"}
      [] court = "COURT_EXTERNAL" -> {"AWAITING_CONTAINMENT", "AWAITING_OWNER"}
      [] court = "COURT_TIER2"    -> TIER2_QUEUE_STATUSES

EXEC_COURT_GROUPS(court) ==
    CASE court = "COURT_SOC"      -> {"NEW", "OWNER_REMEDIATED", "MONITORING"}
      [] court = "COURT_MANAGER"  -> {"PENDING_MGR_TRIAGE", "PENDING_MANAGER",
                                      "PENDING_MGR_EVENT_REVIEW"}
      [] court = "COURT_EXTERNAL" -> {"AWAITING_CONTAINMENT", "AWAITING_OWNER"}
      [] court = "COURT_TIER2"    -> {"ESCALATED_T2", "CONTAINMENT_REPORTED",
                                      "PENDING_T2_REVIEW"}

Phases == {"PREPARATION", "IDENTIFICATION", "CONTAINMENT", "RECOVERY", "LESSONS", "CANCELLED"}

IR_PHASES(phase) ==
    CASE phase = "PREPARATION"    -> {"NEW"}
      [] phase = "IDENTIFICATION" -> {"ESCALATED_T2", "PENDING_MGR_TRIAGE",
                                      "PENDING_MGR_EVENT_REVIEW", "MONITORING"}
      [] phase = "CONTAINMENT"    -> {"AWAITING_CONTAINMENT", "CONTAINMENT_REPORTED",
                                      "AWAITING_OWNER", "OWNER_REMEDIATED"}
      [] phase = "RECOVERY"       -> {"PENDING_MANAGER", "PENDING_T2_REVIEW"}
      [] phase = "LESSONS"        -> {"APPROVED", "CLOSED_EVENT"}
      [] phase = "CANCELLED"      -> {"CANCELLED"}

(***************************************************************************)
(* Scopes: the ticket sets the queries start from                          *)
(***************************************************************************)

Active(d) == {t \in Tickets : d[t].status \notin TERMINAL_STATUSES}

HighCritical(d) == {t \in Tickets : d[t].severity \in {"Critical", "High"}}

Overdue(d) == {t \in Tickets : d[t].deadline # NoDeadline /\ d[t].deadline < 0}

\* The dates of the URL: the whole of time, or a period that ends today.
InPeriod(c, days) == c.period => days <= PeriodDays

\* The filters of the URL, on any of the pages; "" is no filter.
Filtered(d, c) ==
    {t \in Tickets :
        /\ InPeriod(c, d[t].opened)
        /\ c.severity # "" => d[t].severity = c.severity
        /\ c.status # "" => d[t].status = c.status}

incident_key(d, t) == IF d[t].project # NoProject THEN d[t].project ELSE t

\* incident_count: a bundle counts once.
Incidents(d, S) == {<<incident_key(d, t), "incident">> : t \in S}

In(S, cell) == {<<t, cell>> : t \in S}

(***************************************************************************)
(* SOC dashboard                                                           *)
(***************************************************************************)

is_tier_analyst(u) == u \in Tier1 \cup Tier2

\* Credited from the log: the Tier 2 verifier, else whoever wrote a row at a
\* resolved status.
Credited(row) ==
    {u \in IF row.verified_by # NoUser THEN {row.verified_by} ELSE row.closers : is_tier_analyst(u)}

\* A case seeded without such a row: the first analyst on the record.
SeededCredit(row) ==
    LET candidates == <<row.verified_by, row.approved_by, row.assigned_to, row.created_by>>
    IN {candidates[i] : i \in {k \in 1 .. 4 : /\ is_tier_analyst(candidates[k])
                                            /\ \A j \in 1 .. k - 1 : ~is_tier_analyst(candidates[j])}}

\* The containment runway: the active cases with a deadline, by band.
containment_runway(active, d) ==
    {<<t, bucket_for(d[t].deadline)>> : t \in {u \in active : d[u].deadline # NoDeadline}}

DashboardQueries ==
    <<"active", "pipeline", "runway", "heat", "claimed", "finished", "seeded",
      "unassigned">>

DashboardQuery(q, d, c) ==
    LET scope == Filtered(d, c)
        active == scope \cap Active(d)
        closed == {t \in scope : d[t].status \in RESOLVED_STATUSES}
    IN CASE q = "active"   -> In(active, "active")
         [] q = "pipeline" -> {<<t, <<d[t].severity, d[t].status>>>> : t \in active}
         [] q = "runway"   -> containment_runway(active, d)
         [] q = "heat"     -> {<<t, IF d[t].status \in ANALYST_BLOCKED_STATUSES
                                    THEN "blocked" ELSE "load">> :
                                 t \in {u \in active : d[u].assigned_to # NoUser}}
         [] q = "claimed"  -> In({t \in active : /\ d[t].status \in TIER2_QUEUE_STATUSES
                                                 /\ d[t].t2_claimed_by # NoUser
                                                 /\ d[t].assigned_to # NoUser}, "claimed")
         [] q = "finished" -> UNION {{t} \X Credited(d[t]) :
                                       t \in {u \in closed : d[u].closers # {}}}
         [] q = "seeded"   -> UNION {{t} \X SeededCredit(d[t]) :
                                       t \in {u \in closed : d[u].closers = {}}}
         [] q = "unassigned" -> In({t \in active : d[t].assigned_to = NoUser}, "unassigned")

\* The case table; a band of the runway narrows it.
DashboardTable(d, c, band) ==
    {t \in Filtered(d, c) \cap Active(d) : band # "" => bucket_filter(d[t].deadline, band)}

(***************************************************************************)
(* Executive dashboard                                                     *)
(***************************************************************************)

\* The response requests of all tickets, in the terms the page counts them by.
active_response(d) == {t \in Active(d) : d[t].request \in {"OPEN", "IN_PROGRESS"}}

Requested(d) == {t \in Tickets : d[t].request # "none"}

Received(d, c) == {t \in Requested(d) : InPeriod(c, d[t].asked)}

Completed(d, c) == {t \in Requested(d) : d[t].request = "DONE" /\ InPeriod(c, d[t].answered)}

AGED_DAYS == 7

AgedRequests(d) == {t \in active_response(d) : d[t].asked > AGED_DAYS}

\* The table of the response functions; its totals are over all of them.
response_counts(d, c) ==
    In(active_response(d), "ACTIVE") \cup In(AgedRequests(d), "AGED")
        \cup In(Received(d, c), "RECEIVED") \cup In(Completed(d, c), "DONE")

ResponsePills == {"ACTIVE", "AGED", "HIGH_CRIT", "RECEIVED", "DONE"}

\* The requests behind one status filter and the selected function.
response_filtered(d, c, status) ==
    {t \in CASE status = "DONE"      -> Completed(d, c)
             [] status = "RECEIVED"  -> Received(d, c)
             [] status = "AGED"      -> AgedRequests(d)
             [] status = "HIGH_CRIT" -> active_response(d) \cap HighCritical(d)
             [] OTHER                -> active_response(d) :
        c.function # "" => d[t].function = c.function}

\* Requests received and completed by day, from the first day of the period or
\* the first dated one up to today; a period of one day has no trend to draw.
response_flow_series(d, c) ==
    LET dated == {d[t].asked : t \in Received(d, c)} \cup {d[t].answered : t \in Completed(d, c)}
        InTrend(day) == IF c.period THEN day <= PeriodDays ELSE \E first \in dated : day <= first
        OneDay == IF c.period THEN PeriodDays = 0 ELSE dated \subseteq {0}
    IN IF dated = {} \/ OneDay THEN {}
       ELSE In({t \in Received(d, c) : InTrend(d[t].asked)}, "RECEIVED")
              \cup In({t \in Completed(d, c) : InTrend(d[t].answered)}, "DONE")

\* The pipeline of the High and Critical cases by phase.
ByPhase(d, S) == {x \in S \X Phases : d[x[1]].status \in IR_PHASES(x[2])}

ExecutiveQueries ==
    <<"response", "response_hc", "ACTIVE", "AGED", "HIGH_CRIT", "RECEIVED", "DONE",
      "total_hc", "hc_total", "hc_open", "EMERGENCY", "OLA_OVERDUE", "RESPONSE_PENDING",
      "COURT_SOC", "COURT_MANAGER", "COURT_EXTERNAL", "COURT_TIER2", "pipeline",
      "pipeline_emergency", "flow", "hc_open_tickets">>

\* The summary criteria are live; the selected period scopes the rest.
ExecutiveQuery(q, d, c) ==
    LET range == Filtered(d, c)
        hc_range == {t \in range \cap HighCritical(d) : d[t].status # "CANCELLED"}
    IN CASE q = "response"         -> response_counts(d, c)
         [] q = "response_hc"      -> In(active_response(d) \cap HighCritical(d), q)
         [] q \in ResponsePills    -> In(response_filtered(d, c, q), q)
         [] q = "total_hc"         -> Incidents(d, HighCritical(d))
         [] q = "hc_total"         -> Incidents(d, hc_range)
         [] q = "hc_open"          -> Incidents(d, hc_range \cap Active(d))
         [] q = "EMERGENCY"        -> Incidents(d, {t \in Active(d) : d[t].emergency})
         [] q = "OLA_OVERDUE"      -> In(Active(d) \cap Overdue(d), q)
         [] q = "RESPONSE_PENDING" -> In(active_response(d), q)
         [] q \in Courts           -> In({t \in Active(d) : d[t].status \in EXEC_COURT_GROUPS(q)}, q)
         [] q = "pipeline"         -> ByPhase(d, range \cap HighCritical(d))
         [] q = "pipeline_emergency" ->
                ByPhase(d, {t \in range \cap HighCritical(d) : d[t].emergency})
         [] q = "flow"             -> response_flow_series(d, c)
         [] q = "hc_open_tickets"  -> In(range \cap Active(d) \cap HighCritical(d), "open")

Warnings == {"EMERGENCY", "OLA_OVERDUE"}

\* Mutant: the two warning rows do not reach the verdict.
overall_status_courts_only(got) ==
    IF \E q \in Courts : got[q] # {} THEN "WAITING" ELSE "GOOD"

overall_status(got) ==
    IF \E q \in Warnings : got[q] # {} THEN "WARNING"
    ELSE IF \E q \in Courts \cup {"RESPONSE_PENDING"} : got[q] # {} THEN "WAITING"
    ELSE "GOOD"

\* The ticket table under ?f=, with ?sev=hc.
ExecutiveTable(d, c, f, hc_only) ==
    LET range == Filtered(d, c)
        rows == CASE f = "EMERGENCY"        -> {t \in range \cap Active(d) : d[t].emergency}
                  [] f = "OLA_OVERDUE"      -> range \cap Active(d) \cap Overdue(d)
                  [] f = "RESPONSE_PENDING" -> range \cap active_response(d)
                  [] f \in Courts           -> {t \in range \cap Active(d) :
                                                  d[t].status \in EXEC_COURT_GROUPS(f)}
                  [] f \in Phases \ {"CANCELLED"} -> {t \in range : d[t].status \in IR_PHASES(f)}
                  [] f \in Statuses         -> {t \in range : d[t].status = f}
                  [] OTHER                  -> range \cap Active(d)
    IN IF hc_only THEN rows \cap HighCritical(d) ELSE rows

(***************************************************************************)
(* Tier 2 queue, Active Tickets, Ticket History                            *)
(***************************************************************************)

QueueStage == [ESCALATED_T2 |-> "escalated", CONTAINMENT_REPORTED |-> "containment",
            PENDING_T2_REVIEW |-> "owner"]

QueueRows(d, c, stage, claim) ==
    {t \in Tickets :
        /\ d[t].status \in TIER2_QUEUE_STATUSES
        /\ c.severity # "" => d[t].severity = c.severity
        /\ stage # "" => QueueStage[d[t].status] = stage
        /\ claim = "unclaimed" => d[t].t2_claimed_by = NoUser
        /\ claim = "mine" => d[t].t2_claimed_by = c.viewer}

QueueQueries == <<"stages", "claims", "unclaimed", "mine", "rows", "total">>

\* Each pill is counted with the filter of the other row of pills applied.
QueueQuery(q, d, c) ==
    CASE q = "stages" -> {<<t, QueueStage[d[t].status]>> : t \in QueueRows(d, c, "", c.claim)}
      [] q = "claims" -> In(QueueRows(d, c, c.stage, ""), q)
      [] q \in {"unclaimed", "mine"} -> In(QueueRows(d, c, c.stage, q), q)
      [] q = "rows"   -> In(QueueRows(d, c, c.stage, c.claim), q)
      [] q = "total"  -> In(QueueRows(d, [c EXCEPT !.severity = ""], "", ""), q)

ListRows(d, c, band) ==
    {t \in Filtered(d, c) \cap Active(d) : band # "" => bucket_filter(d[t].deadline, band)}

ListQueries == <<"rows", "breach", "total">>

ListQuery(q, d, c) ==
    CASE q = "rows"   -> In(ListRows(d, c, ""), q)
      [] q = "breach" -> In(Active(d) \cap Overdue(d), q)
      [] q = "total"  -> In(Active(d), q)

HistoryRows(d, c, status) == Filtered(d, [c EXCEPT !.status = status]) \ Active(d)

HistoryQueries == <<"pills", "rows">>

HistoryQuery(q, d, c) ==
    CASE q = "pills" -> {<<t, d[t].status>> : t \in HistoryRows(d, c, "")}
      [] q = "rows"  -> In(HistoryRows(d, c, c.status), q)

(***************************************************************************)
(* Triage queue: the alerts of one analyst's shift                         *)
(***************************************************************************)

TriageQueue(d) ==
    {a \in Alerts : d[a].kind = "DETECTION" /\ d[a].triage_status \in {"PENDING", "TRIAGING"}}

Ready(r) == r.triage_status = "PENDING" /\ r.claimed_by = NoUser

Mine(r, u) == r.triage_status = "TRIAGING" /\ r.claimed_by = u

ClaimFacets == {"actionable", "unclaimed", "mine", "others", "all"}

apply_claim(r, claim, u) ==
    CASE claim = "actionable" -> Ready(r) \/ Mine(r, u)
      [] claim = "unclaimed"  -> Ready(r)
      [] claim = "mine"       -> Mine(r, u)
      [] claim = "others"     -> r.triage_status = "TRIAGING" /\ r.claimed_by \notin {NoUser, u}
      [] claim = "all"        -> TRUE

OLA_HOURS == 4

OlaFacets == {"", "breached", "due", "on_track"}

apply_ola(r, ola) ==
    CASE ola = ""         -> TRUE
      [] ola = "breached" -> r.age > OLA_HOURS
      [] ola = "due"      -> r.age \in OLA_HOURS - 1 .. OLA_HOURS
      [] ola = "on_track" -> r.age < OLA_HOURS - 1

LevelFacets == {"", "15", "12", "under12"}

apply_level(r, level) ==
    CASE level = ""        -> TRUE
      [] level = "15"      -> r.rule_level >= 15
      [] level = "12"      -> r.rule_level \in 12 .. 14
      [] level = "under12" -> r.rule_level < 12

TriageRows(d, c, claim, ola, level) ==
    {a \in TriageQueue(d) :
        apply_claim(d[a], claim, c.viewer) /\ apply_ola(d[a], ola) /\ apply_level(d[a], level)}

TriageQueries == <<"queue_total", "alerts", "claims", "olas", "levels">>

\* Each facet is counted with the filters of the other two rows applied.
TriageQuery(q, d, c) ==
    CASE q = "queue_total" -> In(TriageQueue(d), q)
      [] q = "alerts" -> In(TriageRows(d, c, c.claim, c.ola, c.level), q)
      [] q = "claims" -> {x \in TriageRows(d, c, "all", c.ola, c.level) \X ClaimFacets :
                            apply_claim(d[x[1]], x[2], c.viewer)}
      [] q = "olas"   -> {x \in TriageRows(d, c, c.claim, "", c.level) \X OlaFacets :
                            apply_ola(d[x[1]], x[2])}
      [] q = "levels" -> {x \in TriageRows(d, c, c.claim, c.ola, "") \X LevelFacets :
                            apply_level(d[x[1]], x[2])}

(***************************************************************************)
(* The nightly snapshot (reporting/snapshot.py), whose rows are the trend  *)
(* beside the live figures                                                 *)
(***************************************************************************)

age_bucket(days) ==
    IF days < 1 THEN "0-1d" ELSE IF days < 3 THEN "1-3d" ELSE IF days < 7 THEN "3-7d" ELSE "7d+"

ola_bucket(d) == IF d = NoDeadline THEN "none" ELSE bucket_for(d)

SnapshotRow(row) ==
    [status |-> row.status, severity |-> row.severity, age |-> age_bucket(row.opened),
     ola |-> ola_bucket(row.deadline)]

\* The open queue by holder, assignee or Tier 2 claimant.
WorkloadRows(d, field) ==
    {<<t, [user |-> d[t][field], status |-> d[t].status, severity |-> d[t].severity]>> :
        t \in Active(d)}

compute_kpi_row(q, d) ==
    CASE q = "open_tickets"             -> In(Active(d), q)
      [] q = "unassigned_open"          -> In({t \in Active(d) : d[t].assigned_to = NoUser}, q)
      [] q = "emergency_open_tickets"   -> In({t \in Active(d) : d[t].emergency}, q)
      [] q = "emergency_open_incidents" -> Incidents(d, {t \in Active(d) : d[t].emergency})
      [] q = "response_open"            -> In(active_response(d), q)
      [] q = "response_aged_7d"         -> In(AgedRequests(d), q)

ResponseSnapshot(d) ==
    {<<t, [function |-> d[t].function, status |-> d[t].request,
           aged |-> t \in AgedRequests(d), hc |-> t \in HighCritical(d)]>> : t \in active_response(d)}

SnapshotQueries ==
    <<"queue", "assigned", "t2_claimed", "responses", "open_tickets", "unassigned_open",
      "emergency_open_tickets", "emergency_open_incidents", "response_open",
      "response_aged_7d">>

SnapshotQuery(q, d) ==
    CASE q = "queue"      -> {<<t, SnapshotRow(d[t])>> : t \in Active(d)}
      [] q = "assigned"   -> WorkloadRows(d, "assigned_to")
      [] q = "t2_claimed" -> {x \in WorkloadRows(d, "t2_claimed_by") : x[2].user # NoUser}
      [] q = "responses"  -> ResponseSnapshot(d)
      [] OTHER            -> compute_kpi_row(q, d)

(***************************************************************************)
(* A page is rendered while its rows change                                *)
(***************************************************************************)

may_see_org_wide(u) == u \in Superusers \cup Executives \/ is_soc(u)

\* The snapshot is a scheduled command and asks nobody.
MaySee(c) ==
    LET u == c.viewer IN
    CASE c.view = "dashboard"    -> may_see_org_wide(u)
      [] c.view = "executive"    -> u \in Superusers \cup Executives
      [] c.view = "tier2_queue"  -> u \in Superusers \cup Tier2
      [] c.view = "triage_queue" -> u \in Superusers \cup Tier1
      [] c.view = "snapshot"     -> TRUE
      [] OTHER                   -> is_soc(u)   \* who sees every ticket

Queries(c) ==
    CASE c.view = "dashboard"    -> DashboardQueries
      [] c.view = "executive"    -> ExecutiveQueries
      [] c.view = "tier2_queue"  -> QueueQueries
      [] c.view = "triage_queue" -> TriageQueries
      [] c.view = "snapshot"     -> SnapshotQueries
      [] c.view = "ticket_list"  -> ListQueries
      [] c.view = "history"      -> HistoryQueries

Result(q, d, c) ==
    CASE c.view = "dashboard"    -> DashboardQuery(q, d, c)
      [] c.view = "executive"    -> ExecutiveQuery(q, d, c)
      [] c.view = "tier2_queue"  -> QueueQuery(q, d, c)
      [] c.view = "triage_queue" -> TriageQuery(q, d, c)
      [] c.view = "snapshot"     -> SnapshotQuery(q, d)
      [] c.view = "ticket_list"  -> ListQuery(q, d, c)
      [] c.view = "history"      -> HistoryQuery(q, d, c)

\* The table the page reads.
PageSource(c) == IF c.view = "triage_queue" THEN Alerts ELSE Tickets

PageInit ==
    \E c \in PageRequests :
        /\ MaySee(c)
        /\ page = [request |-> c, ran |-> 0,
                   got |-> [q \in {Queries(c)[i] : i \in DOMAIN Queries(c)} |-> {}]]
        /\ db \in {d \in [PageSource(c) -> UNION {InitialRows[t] : t \in PageSource(c)}] :
                     \A t \in PageSource(c) : d[t] \in InitialRows[t]}
        /\ seen = [t \in PageSource(c) |-> {db[t]}]

Rendered == page.ran = Len(Queries(page.request))

RunQuery ==
    /\ ~Rendered
    /\ LET c == page.request
           q == Queries(c)[page.ran + 1]
       IN page' = [page EXCEPT !.ran = @ + 1, !.got[q] = Result(q, db, c)]
    /\ UNCHANGED <<db, seen>>

\* One committed step of another request on a ticket, whoever may take it: an
\* edge, a note, the emergency verdict, a cancellation, a claim, a correction of
\* the severity, which leaves the deadline of the first one (_save_ticket).
Stepped(row, s, u) ==
    [row EXCEPT !.status = s, !.t2_claimed_by = NoUser,
                !.closers = IF s \in RESOLVED_STATUSES THEN @ \cup {u} ELSE @,
                !.verified_by = IF /\ @ = NoUser /\ row.status \in VerificationStatuses
                                   /\ s \in {"PENDING_MANAGER", "APPROVED"}
                                THEN u ELSE @]

Noted(row, u) == [row EXCEPT !.closers = @ \cup {u}]   \* a note on the timeline

Decided(row) == [row EXCEPT !.emergency = ~@]

Withdrawn(row) ==
    [row EXCEPT !.status = "CANCELLED", !.t2_claimed_by = NoUser,
                !.request = IF @ \in {"OPEN", "IN_PROGRESS"} THEN "CANCELLED" ELSE @]

Claimed(row, u) == [row EXCEPT !.t2_claimed_by = IF @ = NoUser THEN u ELSE NoUser]

Graded(row, s) == [row EXCEPT !.severity = s]

TicketMoves(row) ==
    {Stepped(row, s, u) : s \in {n \in Statuses : <<row.status, n>> \in ALLOWED_TRANSITIONS}, u \in Tier2}
    \cup (IF row.status \in RESOLVED_STATUSES THEN {Noted(row, u) : u \in Tier1}
          ELSE {Decided(row), Withdrawn(row)})
    \cup (IF row.status \in TIER2_QUEUE_STATUSES THEN {Claimed(row, u) : u \in Tier2} ELSE {})
    \cup (IF row.status \in RESOLVED_STATUSES /\ Superusers = {} THEN {}
          ELSE {Graded(row, s) : s \in Severities \ {row.severity}})

\* A response request is raised, or its status changed, until the ticket is
\* approved or cancelled; one of an Event outlives it.
RequestMoves(row) ==
    IF row.status \in {"APPROVED", "CANCELLED"} \/ row.request = "CANCELLED" THEN {}
    ELSE IF row.request = "none"
    THEN IF row.status \in TERMINAL_STATUSES THEN {}
         ELSE {[row EXCEPT !.request = "OPEN", !.asked = 0, !.answered = 0]}
    ELSE {[row EXCEPT !.request = s, !.answered = 0] :
            s \in {"OPEN", "IN_PROGRESS", "DONE"} \ {row.request}}

\* Another analyst claims, releases or converts the alert.
AlertMoves(row) ==
    IF Ready(row) THEN {[row EXCEPT !.triage_status = "TRIAGING", !.claimed_by = u] : u \in Tier1}
    ELSE IF row.triage_status = "TRIAGING" /\ row.claimed_by # NoUser
    THEN {[row EXCEPT !.triage_status = s, !.claimed_by = NoUser] :
            s \in {"PENDING", "TRUE_POSITIVE", "FALSE_POSITIVE"}}
    ELSE {}

Move(t) ==
    /\ ~Rendered
    /\ Cardinality(seen[t]) < MaxRows
    /\ \E row \in IF t \in Alerts THEN AlertMoves(db[t])
                  ELSE IF db[t].status = "CANCELLED" THEN {}
                  ELSE TicketMoves(db[t]) \cup RequestMoves(db[t]) :
        /\ db' = [db EXCEPT ![t] = row]
        /\ seen' = [seen EXCEPT ![t] = @ \cup {row}]
    /\ UNCHANGED page

PageNext == RunQuery \/ \E t \in DOMAIN db : Move(t)

PageSpec == PageInit /\ [][PageNext]_page_vars

(***************************************************************************)
(* Properties                                                              *)
(***************************************************************************)

Steady(t) == t \in DOMAIN db /\ seen[t] = {db[t]}

Shown(view) == Rendered /\ page.request.view = view

CellsOf(S, t) == {cell \in {x[2] : x \in S} : <<t, cell>> \in S}

Cells(q, t) == CellsOf(page.got[q], t)

Counted(q, t) == Cells(q, t) # {}

Total(q, t) == Cardinality(Cells(q, t))

\* However the other tickets move while the page is built, a ticket that stays
\* put is counted once: the SOC dashboard's load, blocked and unassigned figures
\* add up to its active total and its pipeline (views.py, "continues to reconcile
\* to the dashboard's unique active-ticket count"), a claimed case is inside the
\* blocked work, and a verified case is finished by its verifier alone; on the
\* executive page it is in exactly one court ("so every ACTIVE status is counted
\* exactly once"), one phase, and never open without being in the total, and its
\* response request is the same in the functions' totals, in its pill and in the
\* trend ("the same two counts as the in-vs-out card"); an alert of the triage
\* queue is in the one row of pills the analyst selected.
SteadyCasesReconcile ==
    \A t \in Tickets \cup Alerts : Steady(t) =>
        /\ Shown("dashboard") =>
             /\ Total("active", t) = Total("pipeline", t)
             /\ Total("active", t) = Total("heat", t) + Total("unassigned", t)
             /\ Counted("claimed", t) => Cells("heat", t) = {"blocked"}
             /\ ~(Counted("finished", t) /\ Counted("seeded", t))
             /\ is_tier_analyst(db[t].verified_by) =>
                    Cells("finished", t) \cup Cells("seeded", t) \in {{}, {db[t].verified_by}}
        /\ Shown("executive") =>
             /\ Cardinality({q \in Courts : Counted(q, t)}) = IF t \in Active(db) THEN 1 ELSE 0
             /\ t \in Filtered(db, page.request) \cap HighCritical(db) => Total("pipeline", t) = 1
             /\ Cells("pipeline_emergency", t) \subseteq Cells("pipeline", t)
             /\ Counted("hc_open_tickets", t) =>
                    <<incident_key(db, t), "incident">>
                        \in page.got["hc_open"] \cap page.got["hc_total"] \cap page.got["total_hc"]
             /\ "ACTIVE" \in Cells("response", t) <=> Counted("RESPONSE_PENDING", t)
             /\ page.request.function = "" =>
                    /\ Cells("response", t) =
                            {q \in ResponsePills \ {"HIGH_CRIT"} : Counted(q, t)}
                    /\ Counted("HIGH_CRIT", t) <=> Counted("response_hc", t)
             /\ page.got["flow"] # {} =>
                    Cells("flow", t) = Cells("response", t) \cap {"RECEIVED", "DONE"}
        /\ Shown("triage_queue") =>
             LET c == page.request IN
             /\ Counted("alerts", t) <=> c.claim \in Cells("claims", t)
             /\ Counted("alerts", t) <=> c.ola \in Cells("olas", t)
             /\ Counted("alerts", t) <=> c.level \in Cells("levels", t)
             /\ Counted("levels", t) => Total("levels", t) = 2
             /\ Counted("olas", t) => Total("olas", t) = 2
        /\ Shown("snapshot") =>
             /\ Total("queue", t) = Total("open_tickets", t)
             /\ Total("assigned", t) = Total("open_tickets", t)
             /\ Counted("unassigned_open", t) <=> \E x \in Cells("assigned", t) : x.user = NoUser
             /\ Counted("emergency_open_tickets", t) =>
                    <<incident_key(db, t), "incident">> \in page.got["emergency_open_incidents"]
             /\ Counted("responses", t) <=> Counted("response_open", t)
             /\ Counted("response_aged_7d", t) <=> \E x \in Cells("responses", t) : x.aged

\* What either warning row is about.
Burns(row) ==
    /\ row.status \notin TERMINAL_STATUSES
    /\ row.emergency \/ (row.deadline # NoDeadline /\ row.deadline < 0)

\* The executive verdict is never GOOD over a case that waited throughout, always
\* WARNING over an emergency or a breach that stood throughout, and it raises
\* neither level for a case that was never in that state (the six criteria,
\* "the verdict can never read GOOD while work is queued somewhere").
VerdictIsSound ==
    Shown("executive") =>
        LET verdict == overall_status(page.got)
        IN /\ verdict = "GOOD" => ~\E t \in Active(db) : Steady(t)
           /\ (\E t \in Tickets : Steady(t) /\ Burns(db[t])) => verdict = "WARNING"
           /\ verdict = "WARNING" => \E t \in Tickets : \E row \in seen[t] : Burns(row)
           /\ verdict = "WAITING" =>
                \E t \in Tickets : \E row \in seen[t] : row.status \notin TERMINAL_STATUSES

\* Following a figure's link lists the rows the figure counted, those that moved
\* apart: the bands of the runway, the criteria (their links go back to all
\* dates), the phases, the pills of the response requests, of the Tier 2 queue,
\* of the triage queue ("each count says what clicking that pill would produce")
\* and of Ticket History ("each pill counts what you would get by clicking it").
\* And the night's snapshot counts what the live dashboards count beside it
\* (snapshot.py, "so a mart trend and the LIVE number beside it agree").
FiguresOpenTheirRows ==
    LET c == page.request
        live == [c EXCEPT !.period = FALSE]
        Agrees(q, cell, rows) == \A t \in DOMAIN db :
            Steady(t) => (<<t, cell>> \in page.got[q] <=> t \in rows)
        Same(q, figure) == \A t \in DOMAIN db :
            Steady(t) => (Counted(q, t) <=> \E x \in figure : x[1] = t)
    IN /\ Shown("dashboard") =>
            \A b \in Bands : Agrees("runway", b, DashboardTable(db, c, b))
       /\ Shown("executive") =>
            /\ \A f \in Courts \cup {"OLA_OVERDUE", "RESPONSE_PENDING"} :
                    Agrees(f, f, ExecutiveTable(db, live, f, FALSE))
            /\ \A t \in ExecutiveTable(db, live, "EMERGENCY", FALSE) :
                    Steady(t) => <<incident_key(db, t), "incident">> \in page.got["EMERGENCY"]
            /\ \A p \in Phases : Agrees("pipeline", p, ExecutiveTable(db, c, p, TRUE))
            /\ Agrees("hc_open_tickets", "open", ExecutiveTable(db, c, "", TRUE))
            /\ \A q \in ResponsePills : Agrees(q, q, response_filtered(db, c, q))
       /\ Shown("tier2_queue") =>
            /\ \A s \in {"escalated", "containment", "owner"} :
                    Agrees("stages", s, QueueRows(db, c, s, c.claim))
            /\ \A q \in {"unclaimed", "mine"} : Agrees(q, q, QueueRows(db, c, c.stage, q))
            /\ Agrees("claims", "claims", QueueRows(db, c, c.stage, ""))
       /\ Shown("triage_queue") =>
            /\ \A k \in ClaimFacets : Agrees("claims", k, TriageRows(db, c, k, c.ola, c.level))
            /\ \A k \in OlaFacets : Agrees("olas", k, TriageRows(db, c, c.claim, k, c.level))
            /\ \A k \in LevelFacets : Agrees("levels", k, TriageRows(db, c, c.claim, c.ola, k))
       /\ Shown("ticket_list") =>
            Agrees("breach", "breach", ListRows(db, [live EXCEPT !.severity = "", !.status = ""], "overdue"))
       /\ Shown("history") =>
            \A s \in TERMINAL_STATUSES : Agrees("pills", s, HistoryRows(db, c, s))
       /\ Shown("snapshot") =>
            /\ Same("open_tickets", DashboardQuery("active", db, c))
            /\ Same("unassigned_open", DashboardQuery("unassigned", db, c))
            /\ Same("t2_claimed", {x \in QueueQuery("rows", db, c) : db[x[1]].t2_claimed_by # NoUser})
            /\ Same("response_open", ExecutiveQuery("RESPONSE_PENDING", db, c))
            /\ \A b \in Bands : \A t \in DOMAIN db : Steady(t) =>
                    (t \in DashboardTable(db, c, b) <=> \E x \in Cells("queue", t) : x.ola = b)
=============================================================================
