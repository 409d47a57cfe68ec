---------------------------- MODULE TicketRules ----------------------------
(***************************************************************************)
(* The rules one Ticket row lives by: the state machine of                 *)
(* apps/incidents/models/ticket.py (ALLOWED_TRANSITIONS and the gates,     *)
(* permissions and stamps of _transition_to) and the predicates of         *)
(* policies.py that the workflow asks.  No state: every operator is a      *)
(* function of a Ticket record, a user and what the database holds about   *)
(* the ticket's response requests and its Project Incident.                *)
(*                                                                         *)
(* A Ticket record keeps the columns some rule reads.  Timestamps are      *)
(* Booleans ("stamped or not"): first_submitted for first_submitted_at,    *)
(* escalated_to_t2 for escalated_to_t2_at.  Left out, because no rule      *)
(* reads them: status_changed_at, report_issued_at, owner_contacted_at,    *)
(* direct_owner_remediation, monitor_until, the OLA deadlines, closed_at   *)
(* (stamped exactly when the status becomes terminal) and all content.     *)
(***************************************************************************)

CONSTANTS
    Users,        \* the accounts
    NoUser,       \* NULL in a foreign key to an account
    Creator,      \* created_by of the ticket
    Tier1,        \* profile.is_tier1
    Tier2,        \* profile.is_tier2
    Managers,     \* profile.is_soc_manager (with acting_tier_access: also in Tier1 and Tier2)
    SysAdmins,    \* profile.is_system_admin
    Responders,   \* the response-team assignee of the ticket's requests
    Superusers    \* user.is_superuser

ASSUME AccountsAssumption ==
    /\ NoUser \notin Users
    /\ Creator \in Users
    /\ Tier1 \subseteq Users
    /\ Tier2 \subseteq Users
    /\ Managers \subseteq Users
    /\ SysAdmins \subseteq Users
    /\ Responders \subseteq Users
    /\ Superusers \subseteq Users

(***************************************************************************)
(* Codes                                                                   *)
(***************************************************************************)

RESOLVED_STATUSES == {"APPROVED", "CLOSED_EVENT"}

TERMINAL_STATUSES == RESOLVED_STATUSES \cup {"CANCELLED"}

TIER2_QUEUE_STATUSES == {"ESCALATED_T2", "CONTAINMENT_REPORTED", "PENDING_T2_REVIEW"}

MANAGER_QUEUE_STATUSES ==
    {"PENDING_MGR_TRIAGE", "PENDING_MANAGER", "PENDING_MGR_EVENT_REVIEW"}

Statuses ==
    TERMINAL_STATUSES \cup TIER2_QUEUE_STATUSES \cup MANAGER_QUEUE_STATUSES
        \cup {"NEW", "MONITORING", "AWAITING_CONTAINMENT", "AWAITING_OWNER",
              "OWNER_REMEDIATED"}

Classifications == {"", "EVENT", "INCIDENT"}

Routes == {"", "ADMIN", "OWNER"}

Ticket ==
    [status                       : Statuses,
     classification               : Classifications,
     classification_at_escalation : Classifications,
     t1_route                     : Routes,
     assigned_admin               : Users \cup {NoUser},
     is_emergency                 : BOOLEAN,
     emergency_decided_by         : Users \cup {NoUser},
     first_submitted              : BOOLEAN,
     escalated_to_t2              : BOOLEAN,
     has_been_monitored           : BOOLEAN,
     t2_claimed_by                : Users \cup {NoUser},
     verified_by                  : Users \cup {NoUser},
     approved_by                  : Users \cup {NoUser}]

(***************************************************************************)
(* The edges, by the permission token TRANSITION_PERMISSIONS gives each    *)
(***************************************************************************)

CreatorEdges ==
    {<<"NEW", "PENDING_MGR_TRIAGE">>, <<"NEW", "ESCALATED_T2">>,
     <<"AWAITING_OWNER", "PENDING_T2_REVIEW">>,
     <<"OWNER_REMEDIATED", "PENDING_T2_REVIEW">>}

Tier2Edges ==
    ({"ESCALATED_T2"} \X {"PENDING_MGR_TRIAGE", "CLOSED_EVENT",
                          "PENDING_MGR_EVENT_REVIEW", "MONITORING"})
        \cup ({"MONITORING"} \X {"PENDING_MGR_TRIAGE", "CLOSED_EVENT"})
        \cup ({"CONTAINMENT_REPORTED"} \X
                {"AWAITING_CONTAINMENT", "PENDING_MANAGER", "APPROVED", "CLOSED_EVENT"})
        \cup ({"PENDING_T2_REVIEW"} \X
                {"AWAITING_OWNER", "PENDING_MANAGER", "APPROVED", "CLOSED_EVENT"})

MANAGER_RETURN_EDGES == {"PENDING_MGR_TRIAGE"} \X {"ESCALATED_T2", "NEW"}

ManagerEdges ==
    ({"PENDING_MGR_EVENT_REVIEW"} \X {"CLOSED_EVENT", "ESCALATED_T2"})
        \cup MANAGER_RETURN_EDGES
        \cup ({"PENDING_MGR_TRIAGE"} \X {"AWAITING_CONTAINMENT", "AWAITING_OWNER"})
        \cup {<<"PENDING_MANAGER", "APPROVED">>}

STEP_BACK_EDGES ==
    {<<"AWAITING_CONTAINMENT", "PENDING_MGR_TRIAGE">>,
     <<"AWAITING_OWNER", "PENDING_MGR_TRIAGE">>,
     <<"OWNER_REMEDIATED", "AWAITING_OWNER">>,
     <<"PENDING_MANAGER", "CONTAINMENT_REPORTED">>,
     <<"PENDING_MANAGER", "PENDING_T2_REVIEW">>}

AssignedAdminEdges == {<<"AWAITING_CONTAINMENT", "CONTAINMENT_REPORTED">>}

ALLOWED_TRANSITIONS ==
    CreatorEdges \cup Tier2Edges \cup ManagerEdges \cup STEP_BACK_EDGES
        \cup AssignedAdminEdges

MONITORING_EDGES ==
    {<<"ESCALATED_T2", "MONITORING">>}
        \cup ({"MONITORING"} \X {"PENDING_MGR_TRIAGE", "CLOSED_EVENT"})

EVENT_CLOSE_TRANSITIONS ==
    {<<"ESCALATED_T2", "PENDING_MGR_EVENT_REVIEW">>}
        \cup ({"ESCALATED_T2", "PENDING_MGR_EVENT_REVIEW", "CONTAINMENT_REPORTED",
               "PENDING_T2_REVIEW", "MONITORING"} \X {"CLOSED_EVENT"})

INCIDENT_TRANSITIONS == {"NEW", "ESCALATED_T2", "MONITORING"} \X {"PENDING_MGR_TRIAGE"}

\* Mutant: only Tier 1's own routing is checked for a lane.
LANE_ROUTING_EDGES_tier1_only == {<<"NEW", "PENDING_MGR_TRIAGE">>}

LANE_ROUTING_EDGES == {"NEW", "ESCALATED_T2", "MONITORING"} \X {"PENDING_MGR_TRIAGE"}

\* Forward into the lane, and the manager's step back into it: Admin and Owner
\* are never swapped.
AdminLaneEdges ==
    {<<"PENDING_MGR_TRIAGE", "AWAITING_CONTAINMENT">>,
     <<"PENDING_MANAGER", "CONTAINMENT_REPORTED">>}

OwnerLaneEdges ==
    {<<"PENDING_MGR_TRIAGE", "AWAITING_OWNER">>,
     <<"PENDING_MANAGER", "PENDING_T2_REVIEW">>}

VerificationStatuses == {"CONTAINMENT_REPORTED", "PENDING_T2_REVIEW"}

(***************************************************************************)
(* What the gates read                                                     *)
(***************************************************************************)

\* Mutant: the emergency split is applied in the Admin lane only.
requires_manager_verification_admin_only(t) == t.is_emergency /\ t.t1_route = "ADMIN"

requires_manager_verification(t) == t.is_emergency

is_t2_event_downgrade(t) ==
    t.classification = "EVENT" /\ t.classification_at_escalation = "INCIDENT"

has_handling_lane(t) ==
    \/ t.t1_route = "OWNER"
    \/ t.t1_route = "ADMIN" /\ t.assigned_admin # NoUser

manager_return_target(t) == IF t.escalated_to_t2 THEN "ESCALATED_T2" ELSE "NEW"

\* The legality of t.status -> new_status, whoever asks.  openWork: the ticket
\* has an unfinished response request.  project: "none", or the ticket is a
\* Project Incident member and Project Review is "pending" or "done".
can_transition_to(t, new_status, openWork, project) ==
    LET edge == <<t.status, new_status>> IN
    /\ edge \in ALLOWED_TRANSITIONS
    /\ edge \in LANE_ROUTING_EDGES => has_handling_lane(t)
    /\ edge \in MANAGER_RETURN_EDGES => new_status = manager_return_target(t)
    /\ new_status = "APPROVED" => ~openWork
    /\ edge \in EVENT_CLOSE_TRANSITIONS => t.classification = "EVENT"
    /\ edge \in INCIDENT_TRANSITIONS => t.classification = "INCIDENT"
    /\ new_status = "MONITORING" => ~t.has_been_monitored /\ project = "none"
    /\ t.status = "PENDING_MGR_TRIAGE" => project # "pending"
    /\ edge \in AdminLaneEdges => t.t1_route = "ADMIN"
    /\ edge \in OwnerLaneEdges => t.t1_route = "OWNER"
    /\ t.status \in VerificationStatuses =>
        /\ new_status = "APPROVED" => ~requires_manager_verification(t)
        /\ new_status = "PENDING_MANAGER" => requires_manager_verification(t)
    /\ t.status = "ESCALATED_T2" =>
        /\ new_status = "CLOSED_EVENT" => ~is_t2_event_downgrade(t)
        /\ new_status = "PENDING_MGR_EVENT_REVIEW" => is_t2_event_downgrade(t)

(***************************************************************************)
(* Who may act                                                             *)
(***************************************************************************)

is_soc(u) == u \in Tier1 \cup Tier2 \cup Managers \cup Superusers

is_soc_manager(u) == u \in Managers \cup Superusers

is_creator_analyst(u) == u \in Superusers \/ (u = Creator /\ u \in Tier1 \cup Tier2)

t2_claim_blocks(t, u) ==
    /\ u \notin Superusers
    /\ t.status \in TIER2_QUEUE_STATUSES
    /\ t.t2_claimed_by # NoUser
    /\ u \in Tier2
    /\ t.t2_claimed_by # u

\* Step 6 of _transition_to: the token of the edge, and the superuser's pass.
MayDrive(t, new_status, u) ==
    LET edge == <<t.status, new_status>> IN
    \/ u \in Superusers
    \/ edge \in CreatorEdges /\ is_creator_analyst(u)
    \/ edge \in Tier2Edges /\ u \in Tier2
    \/ edge \in ManagerEdges \cup STEP_BACK_EDGES /\ u \in Managers
    \/ edge \in AssignedAdminEdges /\ u = t.assigned_admin

can_edit_ticket(t, u) ==
    LET own_draft == t.status = "NEW" /\ u = Creator IN
    /\ t.status # "CANCELLED"
    /\ \/ u \in Superusers
       \/ /\ t.status \notin RESOLVED_STATUSES
          /\ \/ own_draft /\ is_creator_analyst(u)
             \/ ~own_draft /\ is_soc(u) /\ ~t2_claim_blocks(t, u)

\* TicketQuerySet.visible_to.  A response request's assignee sees its ticket.
VisibleTo(t, u) ==
    \/ is_soc(u)
    \/ u \in SysAdmins /\ u = t.assigned_admin
    \/ u \in Responders

(***************************************************************************)
(* The stamps of a transition: step 7 of _transition_to                    *)
(***************************************************************************)

\* Mutant: the owner lane's verification is not signed.
verified_by_after_admin_lane(t, new_status, u) ==
    IF /\ t.verified_by = NoUser
       /\ t.status = "CONTAINMENT_REPORTED"
       /\ new_status \in {"PENDING_MANAGER", "APPROVED"}
    THEN u ELSE t.verified_by

\* Tier 2's verification sign-off (write-once).
verified_by_after(t, new_status, u) ==
    IF /\ t.verified_by = NoUser
       /\ t.status \in VerificationStatuses
       /\ new_status \in {"PENDING_MANAGER", "APPROVED"}
    THEN u ELSE t.verified_by

\* A manager who rejects an Event review makes the case an Incident again, and
\* a watched case is an Event.
classification_after(t, new_status) ==
    IF t.status = "PENDING_MGR_EVENT_REVIEW" /\ new_status = "ESCALATED_T2" THEN "INCIDENT"
    ELSE IF new_status = "MONITORING" THEN "EVENT"
    ELSE t.classification

Stamped(t, new_status, u) ==
    [t EXCEPT
        !.status = new_status,
        !.first_submitted = @ \/ t.status = "NEW",
        !.escalated_to_t2 = \/ @ \/ new_status = "ESCALATED_T2"
                            \/ t.status \in {"ESCALATED_T2", "MONITORING"},
        !.classification = classification_after(t, new_status),
        !.classification_at_escalation =
            IF new_status = "ESCALATED_T2" THEN classification_after(t, new_status) ELSE @,
        !.has_been_monitored = @ \/ new_status = "MONITORING",
        !.verified_by = verified_by_after(t, new_status, u),
        !.approved_by = IF @ = NoUser /\ new_status = "APPROVED" THEN u ELSE @]

\* The claim covers one stage: every move clears it.
Applied(t, new_status, u) == [Stamped(t, new_status, u) EXCEPT !.t2_claimed_by = NoUser]

(***************************************************************************)
(* The lane and classification a preparation save can leave on a NEW row   *)
(* (TicketForm / TicketPreparationEditForm and set_preparation_route).     *)
(* blankOk: the edit form, unlike the creation form, accepts an empty      *)
(* classification, and then validates no lane.                             *)
(***************************************************************************)

With(t, class, route, admin) ==
    [t EXCEPT !.classification = class, !.t1_route = route, !.assigned_admin = admin]

Prepared(t, blankOk) ==
    {With(t, "EVENT", "", NoUser),
     With(t, "INCIDENT", "OWNER", NoUser),
     With(t, "INCIDENT", "", NoUser)}
        \cup {With(t, "INCIDENT", "ADMIN", a) : a \in SysAdmins}
        \cup IF blankOk
             THEN {With(t, "", "OWNER", NoUser), With(t, "", "", NoUser)}
                    \cup {With(t, "", "ADMIN", a) : a \in SysAdmins \cup {NoUser}}
             ELSE {}

\* The lane Tier 2 picks on its decision form: Owner leaves assigned_admin alone.
WithLane(t) ==
    {[t EXCEPT !.t1_route = "OWNER"]}
        \cup {[t EXCEPT !.t1_route = "ADMIN", !.assigned_admin = a] : a \in SysAdmins}

\* The decisions of the review form: the classification must fit the target, and
\* an Incident carries the lane picked on the same form.  Of the two Event
\* targets only the one the downgrade rule allows is offered.
T2Decisions(c) ==
    LET event == [c EXCEPT !.classification = "EVENT"]
        close == IF is_t2_event_downgrade(event) THEN "PENDING_MGR_EVENT_REVIEW"
                 ELSE "CLOSED_EVENT"
    IN {<<event, close>>}
         \cup ({[d EXCEPT !.classification = "INCIDENT"] : d \in WithLane(c)}
                  \X {"PENDING_MGR_TRIAGE"})
(***************************************************************************)
(* What TicketContract says of a ticket: the stage it is in, its lane while *)
(* it is routed, and the signatures.                                       *)
(***************************************************************************)

StageOf(t) ==
    CASE t.status = "NEW"                                -> "preparation"
      [] t.status = "none"                               -> "none"
      [] t.status \in {"ESCALATED_T2", "MONITORING"}     -> "tier2"
      [] t.status = "PENDING_MGR_EVENT_REVIEW"           -> "event_review"
      [] t.status = "PENDING_MGR_TRIAGE"                 -> "manager"
      [] t.status \in {"AWAITING_CONTAINMENT", "AWAITING_OWNER",
                       "OWNER_REMEDIATED"}               -> "handling"
      [] t.status \in VerificationStatuses               -> "verification"
      [] t.status = "PENDING_MANAGER"                    -> "approval"
      [] t.status = "APPROVED"                           -> "approved"
      [] t.status = "CLOSED_EVENT"                       -> "closed_event"
      [] t.status = "CANCELLED"                          -> "cancelled"

\* The Owner lane with whichever admin an earlier choice left on the row.
HandlingLanes ==
    ({"OWNER"} \X (SysAdmins \cup {NoUser})) \cup ({"ADMIN"} \X SysAdmins)

NoLane == <<"", NoUser>>

LaneOf(t) ==
    IF StageOf(t) \in {"manager", "handling", "verification", "approval"}
    THEN <<t.t1_route, t.assigned_admin>>
    ELSE NoLane

SignedOn(t) ==
    (IF t.verified_by # NoUser THEN {"verified"} ELSE {})
        \cup (IF t.approved_by # NoUser THEN {"approved"} ELSE {})
=============================================================================
