------------------------------ MODULE Worklists ------------------------------
(***************************************************************************)
(* What the pages show each account of the ticket: the queues and lists it *)
(* appears on (tier2_queue.py, triage.py, tickets.py, dashboard.py and the *)
(* navigation counts of wazuh_ingest/context_processors.py), whose court   *)
(* it is said to be in (policies.py, Ticket.court_holder_label), and the   *)
(* controls the ticket page offers (views/_helpers.py, ticket_detail).     *)
(* No state of its own: every operator reads a Ticket record and an        *)
(* account.  The pages compute all of this apart from the services of      *)
(* TicketLifecycle that later accept or refuse the request.                *)
(*                                                                         *)
(* Left out: search text, sorting and paging, which drop no ticket.        *)
(***************************************************************************)
EXTENDS TicketLifecycle

CONSTANTS
    Owners,       \* profile.is_system_owner
    SystemOwner   \* system_owner of the ticket

ASSUME OwnersAssumption ==
    /\ Owners \subseteq Users
    /\ SystemOwner \in Owners \cup {NoUser}

(***************************************************************************)
(* Lists                                                                   *)
(***************************************************************************)

CREATOR_REVIEW_STATUSES == {"MONITORING", "AWAITING_OWNER", "OWNER_REMEDIATED"}

TIER1_QUEUE_STATUSES == {"NEW"} \cup CREATOR_REVIEW_STATUSES

is_open(t) == t.status \notin TERMINAL_STATUSES

\* Mutant: the branch of the System Owner is gone with the role's pages.
visible_to_without_owner(t, u) == VisibleTo(t, u)

visible_to(t, u) == VisibleTo(t, u) \/ (u \in Owners /\ u = SystemOwner)

\* "My Queue": the tickets its Tier 1 user opened, at a stage only they drive.
triage_list(t, u) ==
    u \in Tier1 \cup Superusers /\ u = Creator /\ t.status \in TIER1_QUEUE_STATUSES

escalation_queue(t, u) == works_tier2(u) /\ t.status \in TIER2_QUEUE_STATUSES

manager_queue(t, u) == is_soc_manager(u) /\ t.status \in MANAGER_QUEUE_STATUSES

\* Active Tickets; for a System Admin, the only queue.
ticket_list(t, u) == visible_to(t, u) /\ is_open(t)

system_owner_dashboard(t, u) ==
    /\ is_open(t)
    /\ u \in Superusers \/ (u \in Owners /\ u = SystemOwner)

\* The counts beside the navigation entries: what waits for u.  A watch that
\* has not expired is not counted.
BadgeCounts(t, u, expired) ==
    \/ triage_list(t, u) /\ (t.status = "MONITORING" => expired)
    \/ escalation_queue(t, u)
    \/ manager_queue(t, u)

\* The page where u finds what is theirs to do.
OnDesk(t, u) ==
    \/ triage_list(t, u)
    \/ escalation_queue(t, u)
    \/ manager_queue(t, u)
    \/ u \in SysAdmins /\ ticket_list(t, u)

(***************************************************************************)
(* Courts                                                                  *)
(***************************************************************************)

has_profile(u) == u \in Tier1 \cup Tier2 \cup Managers \cup SysAdmins \cup Responders \cup Owners

\* The stages before and after the owner's.
HoldsBesideOwner(t, u) ==
    \/ t.status \in {"NEW", "MONITORING", "OWNER_REMEDIATED"} /\ is_creator_analyst(u)
    \/ t.status \in TIER2_QUEUE_STATUSES /\ u \in Tier2 /\ ~t2_claim_blocks(t, u)
    \/ t.status \in MANAGER_QUEUE_STATUSES /\ u \in Managers
    \/ t.status = "AWAITING_CONTAINMENT" /\ u \in SysAdmins /\ t.assigned_admin = u

\* Mutant: while the case is with its owner, only the owner holds it.
holds_ticket_court_owner_only(t, u) ==
    /\ has_profile(u)
    /\ \/ HoldsBesideOwner(t, u)
       \/ t.status = "AWAITING_OWNER" /\ u \in Owners /\ u = SystemOwner

holds_ticket_court(t, u) ==
    /\ has_profile(u)
    /\ \/ HoldsBesideOwner(t, u)
       \/ /\ t.status = "AWAITING_OWNER"
          /\ (u \in Owners /\ u = SystemOwner) \/ is_creator_analyst(u)

\* The accounts the label names: one person, or everybody of a role.
court_holder_label(t) ==
    CASE t.status \in {"NEW", "OWNER_REMEDIATED", "MONITORING"} -> {Creator}
      [] t.status \in TIER2_QUEUE_STATUSES ->
            IF t.t2_claimed_by # NoUser THEN {t.t2_claimed_by} ELSE Tier2
      [] t.status \in MANAGER_QUEUE_STATUSES                    -> Managers
      [] t.status = "AWAITING_CONTAINMENT"                      -> {t.assigned_admin}
      [] t.status = "AWAITING_OWNER"                            -> {SystemOwner}
      [] OTHER                                                  -> {}

(***************************************************************************)
(* What the ticket page offers                                             *)
(***************************************************************************)

\* The rules of the edge's own list, whatever the row says of lane and verdict.
PageGates(t, s, openWork, project) ==
    LET edge == <<t.status, s>> IN
    /\ edge \in ALLOWED_TRANSITIONS
    /\ edge \in LANE_ROUTING_EDGES => has_handling_lane(t)
    /\ edge \in MANAGER_RETURN_EDGES => s = manager_return_target(t)
    /\ ~(s = "APPROVED" /\ openWork)
    /\ ~(edge \in EVENT_CLOSE_TRANSITIONS /\ t.classification # "EVENT")
    /\ ~(edge \in INCIDENT_TRANSITIONS /\ t.classification # "INCIDENT")
    /\ ~(s = "MONITORING" /\ (t.has_been_monitored \/ project # "none"))
    /\ ~(t.status = "PENDING_MGR_TRIAGE" /\ project = "pending")

\* The conditions of single edges.
EdgeGate(t, s) ==
    CASE <<t.status, s>> \in {<<"PENDING_MGR_TRIAGE", "AWAITING_CONTAINMENT">>,
                              <<"PENDING_MANAGER", "CONTAINMENT_REPORTED">>}
            -> t.t1_route = "ADMIN"
      [] <<t.status, s>> \in {<<"PENDING_MGR_TRIAGE", "AWAITING_OWNER">>,
                              <<"PENDING_MANAGER", "PENDING_T2_REVIEW">>}
            -> t.t1_route = "OWNER"
      [] <<t.status, s>> = <<"ESCALATED_T2", "CLOSED_EVENT">>
            -> ~is_t2_event_downgrade(t)
      [] <<t.status, s>> = <<"ESCALATED_T2", "PENDING_MGR_EVENT_REVIEW">>
            -> is_t2_event_downgrade(t)
      [] OTHER -> TRUE

\* Mutant: the page forgets the emergency split of the owner lane.
page_allows_admin_split(t, s, openWork, project) ==
    /\ PageGates(t, s, openWork, project)
    /\ EdgeGate(t, s)
    /\ t.status = "CONTAINMENT_REPORTED" =>
         /\ s = "APPROVED"        => ~requires_manager_verification(t)
         /\ s = "PENDING_MANAGER" => requires_manager_verification(t)

\* Ticket.can_transition_to: the rules the page asks, written beside those of
\* _transition_to (TicketRules), edge by edge.
page_allows(t, s, openWork, project) ==
    /\ PageGates(t, s, openWork, project)
    /\ EdgeGate(t, s)
    /\ t.status \in {"CONTAINMENT_REPORTED", "PENDING_T2_REVIEW"} =>
         /\ s = "APPROVED"        => ~requires_manager_verification(t)
         /\ s = "PENDING_MANAGER" => requires_manager_verification(t)

user_can_drive(t, s, u) ==
    LET edge == <<t.status, s>> IN
    \/ u \in Superusers
    \/ edge \in CreatorEdges /\ is_creator_analyst(u)
    \/ edge \in Tier2Edges /\ u \in Tier2
    \/ edge \in ManagerEdges /\ u \in Managers

\* Edges with a control of their own are in no menu.
InMenu(t, s) ==
    <<t.status, s>> \notin STEP_BACK_EDGES \cup MONITORING_EDGES \cup MANAGER_RETURN_EDGES
                             \cup AssignedAdminEdges

\* The status menu.  The current status stands for "add a note".
valid_soc_status_choices(t, u) ==
    IF ~is_soc(u) THEN {}
    ELSE {s \in Statuses :
            \/ /\ s = t.status
               /\ t.status \in CREATOR_REVIEW_STATUSES => u = Creator \/ u \in Superusers
            \/ InMenu(t, s) /\ page_allows(t, s, hasOpenWork, "none") /\ user_can_drive(t, s, u)}

\* At Tier 2 the page asks with the classification the button will set; the
\* lane comes from the same form, so an Owner lane is assumed.
Proposed(t, s) ==
    IF t.status # "ESCALATED_T2" THEN t
    ELSE IF s \in {"CLOSED_EVENT", "PENDING_MGR_EVENT_REVIEW"}
    THEN [t EXCEPT !.classification = "EVENT"]
    ELSE IF s = "PENDING_MGR_TRIAGE"
    THEN [t EXCEPT !.classification = "INCIDENT", !.t1_route = "OWNER"]
    ELSE t

transition_actions(t, u) ==
    {s \in Statuses :
        /\ InMenu(t, s)
        /\ page_allows(Proposed(t, s), s, hasOpenWork, "none")
        /\ user_can_drive(t, s, u)}

\* The flags of ticket_detail that open a form, each with the moves its service
\* may make of the ticket.
Controls(t, u) ==
    LET Control(shown, moves) == IF shown THEN {moves} ELSE {}
        tier2 == u \in Superusers \cup Tier2
        manager == u \in Superusers \cup Managers
    IN Control(t.status = "NEW" /\ is_creator_analyst(u) /\ t.classification # "",
               {<<t, submission_target(t)>>})
       \cup
       Control(/\ t.status = "AWAITING_CONTAINMENT"
               /\ u \in Superusers \/ (u \in SysAdmins /\ t.assigned_admin = u),
               {<<t, "CONTAINMENT_REPORTED">>})
       \cup
       Control(t.status = "PENDING_MGR_TRIAGE" /\ manager,
               {<<t, IF t.t1_route = "OWNER" THEN "AWAITING_OWNER" ELSE "AWAITING_CONTAINMENT">>})
       \cup
       Control(/\ t.status = "PENDING_MGR_TRIAGE" /\ manager
               /\ page_allows(t, manager_return_target(t), hasOpenWork, "none"),
               {<<t, manager_return_target(t)>>})
       \cup
       Control(t.status \in VerificationStatuses /\ tier2,
               {<<[t EXCEPT !.classification = "EVENT"], "CLOSED_EVENT">>})
       \cup
       Control(t.status = "ESCALATED_T2" /\ ~t.has_been_monitored /\ tier2,
               {<<t, "MONITORING">>})
       \cup
       Control(t.status = "MONITORING" /\ tier2,
               {<<[c EXCEPT !.classification = "INCIDENT"], "PENDING_MGR_TRIAGE">> : c \in WithLane(t)})
       \cup
       Control(t.status = "MONITORING" /\ tier2,
               {<<[t EXCEPT !.classification = "EVENT"], "CLOSED_EVENT">>})
       \cup
       Control(/\ t.status \in {"AWAITING_CONTAINMENT", "AWAITING_OWNER", "OWNER_REMEDIATED",
                                "PENDING_MANAGER"}
               /\ manager,
               {<<t, step_back_target(t)>>})

(***************************************************************************)
(* Properties                                                              *)
(***************************************************************************)

Accepted(c, s, u) == can_transition_to(c, s, hasOpenWork, "none") /\ MayDrive(c, s, u)

\* The moves of the menu that a service carries out: as they are, or by the
\* Tier 2 decision form.
AcceptedMenu(t, u) ==
    {s \in Statuses : InMenu(t, s) /\ Accepted(t, s, u)}
        \cup {d[2] : d \in {e \in T2Decisions(t) :
                              t.status = "ESCALATED_T2" /\ Accepted(e[1], e[2], u)}}

\* The page offers exactly the moves the services then accept, though it asks
\* rules written apart from theirs: no button for a move that would be refused
\* (ticket_detail, "so the button is never offered for a move the model would
\* refuse") and no legal move without its button.  A Tier 2 claim is aside, the
\* page shows it in a banner.
OffersAreKept ==
    \A u \in Users : ~t2_claim_blocks(row, u) =>
        /\ transition_actions(row, u) = AcceptedMenu(row, u)
        /\ \A moves \in Controls(row, u) : \E m \in moves : Accepted(m[1], m[2], u)

HeldBySuperuser == row.status \in TIER2_QUEUE_STATUSES /\ row.t2_claimed_by \in Superusers

\* Every open case is in the court of an account that finds it on the page it
\* works from and, a System Admin apart, in the count beside that page's entry;
\* a case on the watch apart, that account has a move to make.  A superuser's
\* claim is the exception the code names: it keeps every Tier 2 analyst out and
\* no other account may release it.  Whoever the page names as holding the case
\* may act as its holder, and nobody else but the analyst who relays for the
\* owner (court_holder_label, "the readable counterpart" of holds_ticket_court).
\* And no list, several of which do not go through visible_to, shows a case its
\* reader may not open.
WaitsOnADesk ==
    /\ is_open(row) /\ ~HeldBySuperuser =>
        \E u \in Users \ Superusers :
            /\ holds_ticket_court(row, u)
            /\ OnDesk(row, u)
            /\ u \in SysAdmins \/ BadgeCounts(row, u, TRUE)
            /\ row.status # "MONITORING" =>
                 \/ transition_actions(row, u) # {}
                 \/ Controls(row, u) # {}
                 \/ row.status = "NEW" /\ can_edit_ticket(row, u)
    /\ \A u \in Users \ Superusers :
        holds_ticket_court(row, u) <=>
            \/ u \in court_holder_label(row)
            \/ row.status = "AWAITING_OWNER" /\ u = Creator
    /\ \A u \in Users :
        OnDesk(row, u) \/ system_owner_dashboard(row, u) => visible_to(row, u)
=============================================================================
