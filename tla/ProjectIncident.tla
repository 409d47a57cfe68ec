-------------------------- MODULE ProjectIncident --------------------------
(***************************************************************************)
(* One Project Incident and its Member Tickets (project_workflow.py, the   *)
(* actions of views/projects.py, models/project.py).                       *)
(*                                                                         *)
(* Every member is a Ticket record of TicketRules and moves by the rules   *)
(* of its own workflow; the group adds the Project Review, the group       *)
(* reassessment and late members.  The services lock the project and then  *)
(* its members, so each is one step; the view in front of them asks        *)
(* whether the project was reviewed on what it loaded before, without a    *)
(* lock: `opened' holds the managers whose request loaded it before.       *)
(*                                                                         *)
(* Not here: the shared evidence (Evidence), response requests, Tier 2     *)
(* claims and the stale copies of a member ticket (all in TicketLifecycle, *)
(* Cancellation).                                                          *)
(***************************************************************************)
EXTENDS TicketRules, Naturals, FiniteSets

CONSTANTS
    Members,              \* the member tickets the project can ever have
    Absent,               \* a member not reported yet
    MAX_PROJECT_MEMBERS

ASSUME ProjectAssumption ==
    /\ Absent \notin Ticket
    /\ MAX_PROJECT_MEMBERS \in Nat \ {0, 1}

VARIABLES
    member,     \* the ticket rows
    suffix,     \* bundle_suffix of each member, as its index (A is 0)
    project,    \* the group's verdict and who gave it
    opened,     \* managers with a request that saw the project not yet reviewed
    apart       \* history: members that left the group's verdict since it was given

project_vars == <<member, suffix, project, opened, apart>>

\* Members are ticket rows or not reported, and the verdict names an account.
ProjectTypeOK ==
    /\ member \in [Members -> Ticket \cup {Absent}]
    /\ suffix \in [Members -> Nat]
    /\ project \in [is_emergency : BOOLEAN, emergency_decided_by : Users \cup {NoUser}]
    /\ opened \subseteq Users
    /\ apart \subseteq Members

Reported == {m \in Members : member[m] # Absent}
Open == {m \in Reported : member[m].status \notin TERMINAL_STATUSES}
Pending == {m \in Reported : member[m].status = "PENDING_MGR_TRIAGE"}

all_closed == Open = {}
decided == project.emergency_decided_by # NoUser
Review == IF decided THEN "done" ELSE "pending"

(***************************************************************************)
(* A member as it enters the bundle                                        *)
(***************************************************************************)

BlankMember ==
    [status |-> "NEW", classification |-> "", classification_at_escalation |-> "",
     t1_route |-> "", assigned_admin |-> NoUser, is_emergency |-> FALSE,
     emergency_decided_by |-> NoUser, first_submitted |-> TRUE,
     escalated_to_t2 |-> FALSE, has_been_monitored |-> FALSE,
     t2_claimed_by |-> NoUser, verified_by |-> NoUser, approved_by |-> NoUser]

EventMember ==
    [BlankMember EXCEPT !.status = "ESCALATED_T2", !.classification = "EVENT",
                        !.classification_at_escalation = "EVENT",
                        !.escalated_to_t2 = TRUE]

\* The routes of ProjectIncidentTargetForm for an Incident.
IncidentMembers ==
    {[BlankMember EXCEPT !.status = "PENDING_MGR_TRIAGE", !.classification = "INCIDENT",
                         !.t1_route = "OWNER"]}
        \cup {[BlankMember EXCEPT !.status = "PENDING_MGR_TRIAGE",
                                  !.classification = "INCIDENT",
                                  !.t1_route = "ADMIN", !.assigned_admin = a] : a \in SysAdmins}

\* Two systems or more are reported with the project, lettered in order.
ProjectInit ==
    /\ \E created \in SUBSET Members :
        /\ Cardinality(created) \in 2 .. MAX_PROJECT_MEMBERS
        /\ member \in [Members -> {Absent, EventMember} \cup IncidentMembers]
        /\ \A m \in Members : member[m] = Absent <=> m \notin created
        /\ suffix \in [Members -> 0 .. Cardinality(created) - 1]
        /\ \A m, n \in created : m # n => suffix[m] # suffix[n]
        /\ \A m \in Members \ created : suffix[m] = 0
    /\ project = [is_emergency |-> FALSE, emergency_decided_by |-> NoUser]
    /\ opened = {}
    /\ apart = {}

(***************************************************************************)
(* add_project_member                                                      *)
(***************************************************************************)

\* Mutant: the newcomer takes the mark of who decided but not the verdict.
Placed_unflagged(t) ==
    IF t.status # "PENDING_MGR_TRIAGE" \/ ~decided THEN t
    ELSE [t EXCEPT !.emergency_decided_by = project.emergency_decided_by,
                   !.status = IF t.t1_route = "OWNER" THEN "AWAITING_OWNER"
                              ELSE "AWAITING_CONTAINMENT"]

\* After Project Review a new Incident member inherits its verdict and goes to
\* its lane at once; an Event member always goes to Tier 2.
Placed(t) ==
    IF t.status # "PENDING_MGR_TRIAGE" \/ ~decided THEN t
    ELSE [t EXCEPT !.is_emergency = project.is_emergency,
                   !.emergency_decided_by = project.emergency_decided_by,
                   !.status = IF t.t1_route = "OWNER" THEN "AWAITING_OWNER"
                              ELSE "AWAITING_CONTAINMENT"]

UsedSuffixes == {suffix[m] : m \in Reported}

\* The first index at or past their number that no member carries.
FreeSuffix ==
    LET free == {i \in 0 .. 2 * Cardinality(Reported) :
                    i >= Cardinality(UsedSuffixes) /\ i \notin UsedSuffixes}
    IN CHOOSE i \in free : \A j \in free : i <= j

\* The project's creator or a manager may ask it at any time.
Addable == Open # {} /\ Cardinality(Reported) < MAX_PROJECT_MEMBERS

AddProjectMember(m) ==
    /\ Addable
    /\ member[m] = Absent
    /\ \E t \in {EventMember} \cup IncidentMembers :
        member' = [member EXCEPT ![m] = Placed(t)]
    /\ suffix' = [suffix EXCEPT ![m] = FreeSuffix]
    /\ UNCHANGED <<project, opened, apart>>

(***************************************************************************)
(* Project Review and the group's reassessment                             *)
(***************************************************************************)

Lane(t) == IF t.t1_route = "OWNER" THEN "AWAITING_OWNER" ELSE "AWAITING_CONTAINMENT"

Assessed(t, emergency, u) ==
    [t EXCEPT !.is_emergency = emergency,
              !.emergency_decided_by = IF @ = NoUser THEN u ELSE @]

\* The view of project_mgr_forward loads the project and finds it not reviewed.
OpensReview(u) ==
    /\ is_soc_manager(u)
    /\ ~decided
    /\ opened' = opened \cup {u}
    /\ UNCHANGED <<member, suffix, project, apart>>

\* One verdict for the group, and every waiting member goes to its lane, or none
\* does.  Under the lock nothing asks whether the project was reviewed meanwhile;
\* members an earlier review forwarded keep what that one said.
ForwardProjectReview(u) ==
    /\ u \in opened
    /\ Pending # {}
    /\ \A m \in Pending :
        can_transition_to(member[m], Lane(member[m]), FALSE, "done")
    /\ \E emergency \in BOOLEAN :
        /\ project' = [is_emergency |-> emergency, emergency_decided_by |-> u]
        /\ member' = [m \in Members |->
            IF m \in Pending
            THEN Applied(Assessed(member[m], emergency, u), Lane(member[m]), u)
            ELSE member[m]]
    /\ opened' = opened \ {u}
    /\ apart' = (apart \cup (Reported \ Pending))
                    \ {m \in Pending : member[m].classification = "INCIDENT"}
    /\ UNCHANGED suffix

ReviewRefused(u) ==
    /\ u \in opened
    /\ opened' = opened \ {u}
    /\ UNCHANGED <<member, suffix, project, apart>>

\* The active Incident members; one waiting for its own review is assessed there.
Reassessable == {m \in Open \ Pending : member[m].classification = "INCIDENT"}

ReassessProjectEmergency(u) ==
    /\ is_soc_manager(u)
    /\ decided
    /\ \E value \in BOOLEAN :
        /\ project' = [project EXCEPT !.is_emergency = value]
        /\ member' = [m \in Members |->
            IF m \in Reassessable THEN [member[m] EXCEPT !.is_emergency = value]
            ELSE member[m]]
    /\ apart' = apart \ Reassessable
    /\ UNCHANGED <<suffix, opened>>

(***************************************************************************)
(* The members' own workflow, as one serialised request each               *)
(***************************************************************************)

HandlingStatuses ==
    {"AWAITING_CONTAINMENT", "CONTAINMENT_REPORTED", "AWAITING_OWNER",
     "OWNER_REMEDIATED", "PENDING_T2_REVIEW", "PENDING_MANAGER"}

\* A member forwarded from its own page, or edited to be no Incident, no longer
\* follows the group.
Becomes(m, t) ==
    /\ member' = [member EXCEPT ![m] = t]
    /\ apart' =
        IF \/ member[m].status = "PENDING_MGR_TRIAGE" /\ t.status \in HandlingStatuses
           \/ /\ t.status \in HandlingStatuses \cup {"PENDING_MGR_TRIAGE"}
              /\ t.classification # "INCIDENT"
        THEN apart \cup {m} ELSE apart
    /\ UNCHANGED <<suffix, project, opened>>

\* Mutant: a member Tier 2 has routed no longer waits for the group's review.
Transition_t2_exempt(m, u, t, new_status) ==
    /\ can_transition_to(t, new_status, FALSE,
                         IF t.escalated_to_t2 THEN "done" ELSE Review)
    /\ MayDrive(t, new_status, u)
    /\ Becomes(m, Applied(t, new_status, u))

Transition(m, u, t, new_status) ==
    /\ can_transition_to(t, new_status, FALSE, Review)
    /\ MayDrive(t, new_status, u)
    /\ Becomes(m, Applied(t, new_status, u))

MemberForward(m, u) ==
    /\ member[m].status = "PENDING_MGR_TRIAGE"
    /\ is_soc_manager(u)
    /\ \E emergency \in BOOLEAN :
        Transition(m, u, Assessed(member[m], emergency, u), Lane(member[m]))

MemberReview(m, u) ==
    /\ member[m].status = "ESCALATED_T2"
    /\ \E d \in T2Decisions(member[m]) : Transition(m, u, d[1], d[2])

MemberReclassified(m, u) ==
    /\ member[m].status \in VerificationStatuses
    /\ Transition(m, u, [member[m] EXCEPT !.classification = "EVENT"], "CLOSED_EVENT")

MemberMoves(m, u) ==
    \E new_status \in Statuses : Transition(m, u, member[m], new_status)

\* Mutant: the preparation form is still offered at the manager's review.
MemberEdited_form_by_stamp(m) ==
    /\ {u \in Users : can_edit_ticket(member[m], u)} # {}
    /\ IF member[m].status \in {"NEW", "PENDING_MGR_TRIAGE"}
       THEN \E t \in Prepared(member[m], TRUE) : Becomes(m, t)
       ELSE \E c \in Classifications : Becomes(m, [member[m] EXCEPT !.classification = c])

MemberEdited(m) ==
    /\ {u \in Users : can_edit_ticket(member[m], u)} # {}
    /\ IF member[m].status = "NEW"
       THEN \E t \in Prepared(member[m], TRUE) : Becomes(m, t)
       ELSE \E c \in Classifications : Becomes(m, [member[m] EXCEPT !.classification = c])

\* perform_cancellation, which locks the project too; a manager may always ask it.
MemberCancelled(m) ==
    /\ member[m].status \notin TERMINAL_STATUSES
    /\ Becomes(m, [member[m] EXCEPT !.status = "CANCELLED", !.t2_claimed_by = NoUser])

MemberActs(m, u) ==
    \/ MemberForward(m, u)
    \/ MemberReview(m, u)
    \/ MemberReclassified(m, u)
    \/ MemberMoves(m, u)

ProjectNext ==
    \/ \E u \in Users : \/ OpensReview(u)
                        \/ ForwardProjectReview(u)
                        \/ ReviewRefused(u)
                        \/ ReassessProjectEmergency(u)
                        \/ \E m \in Reported : MemberActs(m, u)
    \/ \E m \in Members : AddProjectMember(m)
    \/ \E m \in Reported : MemberEdited(m) \/ MemberCancelled(m)

ProjectSpec == ProjectInit /\ [][ProjectNext]_project_vars

(***************************************************************************)
(* Properties                                                              *)
(***************************************************************************)

\* No system is handled as part of the group before the group's verdict: until
\* Project Review no member is in a lane, verified or approved, however it was
\* classified and rerouted (the Project Review gate of _transition_to).
ReviewBeforeHandling ==
    \A m \in Reported :
        member[m].status \in HandlingStatuses \cup {"APPROVED"} => decided

\* No member waits for a move that nobody can make: before Project Review the
\* review can forward every waiting member (one without a lane would block them
\* all), after it each member has a legal forward move of its own.
NoMemberStranded ==
    /\ \A m \in Pending :
        can_transition_to(member[m], Lane(member[m]), FALSE, "done")
    /\ \A m \in Reported :
        member[m].status \in HandlingStatuses =>
            \E s \in Statuses :
                /\ <<member[m].status, s>> \notin STEP_BACK_EDGES
                /\ can_transition_to(member[m], s, FALSE, Review)

\* The group's verdict is shared: an Incident member being handled, unless it was
\* forwarded or edited to be no Incident on its own page since the group last decided,
\* carries the project's flag, whenever and however it joined.  (A second
\* review, which the code does not exclude, sets apart the members of the first.)
VerdictShared ==
    \A m \in Reported \ apart :
        member[m].status \in HandlingStatuses =>
            member[m].is_emergency = project.is_emergency

\* Joining a group changes nothing of what a ticket promises: each member goes
\* through the stages of TicketContract, moved by the group or on its own, and a
\* member that has ended is never reopened.
TicketOf(m) ==
    IF member[m] = Absent THEN [BlankMember EXCEPT !.status = "none"] ELSE member[m]

MemberContract(m) ==
    INSTANCE TicketContract
    WITH Lanes  <- HandlingLanes,
         NoLane <- NoLane,
         stage  <- StageOf(TicketOf(m)),
         lane   <- LaneOf(TicketOf(m)),
         tier2  <- TicketOf(m).escalated_to_t2,
         signed <- SignedOn(TicketOf(m))

MembersKeepContract ==
    /\ \A m \in Members : MemberContract(m)!Init
    /\ [][\A m \in Members :
            [MemberContract(m)!Next]_(MemberContract(m)!contract)]_project_vars
=============================================================================
