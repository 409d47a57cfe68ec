-------------------------- MODULE TicketLifecycle --------------------------
(***************************************************************************)
(* The life of one Ticket under concurrent web requests.                   *)
(*                                                                         *)
(* A request loads the ticket into a private instance without a lock       *)
(* (ticket_detail: get_object_or_404), decides on that copy, and calls a   *)
(* service of ticket_workflow.py that writes it back.  There is no         *)
(* transaction around the whole request, so other requests commit between  *)
(* its load and its write.  Ticket.transition_to locks the row and refuses *)
(* a copy whose status or updated_at is out of date; the services that     *)
(* write without it (Races, below) compare nothing.                        *)
(*                                                                         *)
(* A request is a record [user, copy, fresh].  `fresh' stands for          *)
(* current.updated_at = self.updated_at: loading sets it, and every save   *)
(* that bumps updated_at clears it in all the other requests.  Requests is *)
(* the set of slow requests, whose load and write are separate steps;      *)
(* beside them any user may make a request nothing interleaves with.       *)
(*                                                                         *)
(* Not in this module: Project Incident members (project is "none"         *)
(* throughout), cancellation requests awaiting a decision, the Django      *)
(* admin's raw status edit, imports and seeds.                             *)
(***************************************************************************)
EXTENDS TicketRules

CONSTANTS
    Requests,   \* slow requests, at most this many in flight
    Idle,       \* a slow request that is not in flight
    Races       \* which unguarded writers may run on an outdated copy

UnguardedWriters == {"complete_t2_review", "reassess_emergency", "response_request"}

ASSUME RequestsAssumption ==
    /\ Races \subseteq UnguardedWriters
    /\ Idle \notin [user : Users, copy : Ticket, fresh : BOOLEAN]

VARIABLES
    row,    \* the committed row of the ticket
    work,   \* its response requests: "none" raised, some "open", or all "done"
    req     \* the slow requests

vars == <<row, work, req>>

Request == [user : Users, copy : Ticket, fresh : BOOLEAN]

TypeOK ==
    /\ row \in Ticket
    /\ work \in {"none", "open", "done"}
    /\ req \in [Requests -> Request \cup {Idle}]

(***************************************************************************)
(* Initial states: a preparation saved by create_ticket_from_form, or an   *)
(* in-flight ticket of the retired OWNER_REMEDIATED step.                  *)
(***************************************************************************)

BlankTicket ==
    [status |-> "NEW", classification |-> "", classification_at_escalation |-> "",
     t1_route |-> "", assigned_admin |-> NoUser, is_emergency |-> FALSE,
     emergency_decided_by |-> NoUser, first_submitted |-> FALSE,
     escalated_to_t2 |-> FALSE, has_been_monitored |-> FALSE,
     t2_claimed_by |-> NoUser, verified_by |-> NoUser, approved_by |-> NoUser]

LegacyTicket(emergency, manager) ==
    [BlankTicket EXCEPT
        !.status = "OWNER_REMEDIATED", !.classification = "INCIDENT", !.t1_route = "OWNER",
        !.first_submitted = TRUE, !.is_emergency = emergency,
        !.emergency_decided_by = manager]

Init ==
    /\ \/ row \in Prepared(BlankTicket, FALSE)
       \/ \E emergency \in BOOLEAN, m \in Managers : row = LegacyTicket(emergency, m)
    /\ work = "none"
    /\ req = [r \in Requests |-> Idle]

(***************************************************************************)
(* Ticket.transition_to of the instance c of request q, and step_back      *)
(***************************************************************************)

hasOpenWork == work = "open"

\* Mutant: the claim gate asks the loaded copy, not the locked row.
TransitionTo_claim_of_copy(q, c, new_status) ==
    /\ row.status = c.status
    /\ row.status # "CANCELLED"
    /\ q.fresh
    /\ ~t2_claim_blocks(c, q.user)
    /\ can_transition_to(c, new_status, hasOpenWork, "none")
    /\ MayDrive(c, new_status, q.user)
    /\ row' = Applied(c, new_status, q.user)
    /\ UNCHANGED work

TransitionTo(q, c, new_status) ==
    LET locked == [c EXCEPT !.t2_claimed_by = row.t2_claimed_by] IN
    /\ row.status = c.status
    /\ row.status # "CANCELLED"
    /\ q.fresh
    /\ ~t2_claim_blocks(locked, q.user)
    /\ can_transition_to(locked, new_status, hasOpenWork, "none")
    /\ MayDrive(locked, new_status, q.user)
    /\ row' = Applied(locked, new_status, q.user)
    /\ UNCHANGED work

step_back_target(t) ==
    IF t.status = "PENDING_MANAGER"
    THEN IF t.t1_route = "ADMIN" THEN "CONTAINMENT_REPORTED" ELSE "PENDING_T2_REVIEW"
    ELSE IF t.status = "OWNER_REMEDIATED" THEN "AWAITING_OWNER" ELSE "PENDING_MGR_TRIAGE"

StepBack(q) ==
    /\ is_soc_manager(q.user)
    /\ q.copy.status \in {"AWAITING_CONTAINMENT", "AWAITING_OWNER", "OWNER_REMEDIATED",
                          "PENDING_MANAGER"}
    /\ TransitionTo(q, q.copy, step_back_target(q.copy))

(***************************************************************************)
(* Preparation and the SOC Manager's pre-containment review                *)
(***************************************************************************)

submission_target(t) ==
    IF t.classification # "EVENT" /\ t.t1_route # "" THEN "PENDING_MGR_TRIAGE"
    ELSE "ESCALATED_T2"

SubmitPreparation(q) ==
    /\ q.copy.status = "NEW"
    /\ is_creator_analyst(q.user)
    /\ TransitionTo(q, q.copy, submission_target(q.copy))

ReturnForCompletion(q) ==
    /\ is_soc_manager(q.user)
    /\ q.copy.status = "PENDING_MGR_TRIAGE"
    /\ TransitionTo(q, q.copy, manager_return_target(q.copy))

\* assess_emergency_initial, then the lane fixed at routing.
ManagerForward(q) ==
    LET c == q.copy
        assessed(emergency) ==
            [c EXCEPT !.is_emergency = emergency,
                      !.emergency_decided_by = IF @ = NoUser THEN q.user ELSE @]
        target == IF c.t1_route = "OWNER" THEN "AWAITING_OWNER" ELSE "AWAITING_CONTAINMENT"
    IN /\ is_soc_manager(q.user)
       /\ c.status = "PENDING_MGR_TRIAGE"
       /\ \E emergency \in BOOLEAN : TransitionTo(q, assessed(emergency), target)

(***************************************************************************)
(* Tier 2: review of an escalated case, the watch, and verification        *)
(***************************************************************************)

works_tier2(u) == u \in Tier2 \cup Superusers

\* complete_t2_review.  Its ticket.save() refuses a cancelled row and nothing
\* else: it writes the whole copy, claim included, and bumps updated_at, so the
\* transition_to that follows in the same transaction compares the instance
\* with what was just written from it.
CompleteT2Review(q) ==
    /\ works_tier2(q.user)
    /\ q.copy.status = "ESCALATED_T2"
    /\ q.copy = row \/ "complete_t2_review" \in Races
    /\ row.status # "CANCELLED"
    /\ \E d \in T2Decisions(q.copy) :
        /\ ~t2_claim_blocks(d[1], q.user)
        /\ can_transition_to(d[1], d[2], hasOpenWork, "none")
        /\ MayDrive(d[1], d[2], q.user)
        /\ row' = Applied(d[1], d[2], q.user)
    /\ UNCHANGED work

StartMonitoring(q) ==
    /\ works_tier2(q.user)
    /\ q.copy.status = "ESCALATED_T2"
    /\ ~q.copy.has_been_monitored
    /\ TransitionTo(q, q.copy, "MONITORING")

ConcludeAsIncident(q) ==
    /\ works_tier2(q.user)
    /\ q.copy.status = "MONITORING"
    /\ \E c \in WithLane(q.copy) :
        TransitionTo(q, [c EXCEPT !.classification = "INCIDENT"], "PENDING_MGR_TRIAGE")

ConcludeAsEvent(q) ==
    /\ works_tier2(q.user)
    /\ q.copy.status = "MONITORING"
    /\ TransitionTo(q, [q.copy EXCEPT !.classification = "EVENT"], "CLOSED_EVENT")

ReclassifyAsEvent(q) ==
    /\ works_tier2(q.user)
    /\ q.copy.status \in VerificationStatuses
    /\ TransitionTo(q, [q.copy EXCEPT !.classification = "EVENT"], "CLOSED_EVENT")

SubmitContainment(q) ==
    /\ q.copy.status = "AWAITING_CONTAINMENT"
    /\ \/ q.user \in Superusers
       \/ q.user \in SysAdmins /\ q.user = q.copy.assigned_admin
    /\ TransitionTo(q, q.copy, "CONTAINMENT_REPORTED")

\* The generic action form: what _transition_actions offers, that is every edge
\* without a control of its own.
GenericEdges ==
    ALLOWED_TRANSITIONS
        \ (STEP_BACK_EDGES \cup MONITORING_EDGES \cup MANAGER_RETURN_EDGES
             \cup AssignedAdminEdges)

WorkflowAction(q) ==
    \E new_status \in Statuses :
        /\ <<q.copy.status, new_status>> \in GenericEdges
        /\ TransitionTo(q, q.copy, new_status)

(***************************************************************************)
(* Emergency reassessment and response requests: guards on the copy only   *)
(***************************************************************************)

can_reassess_emergency(t, u) ==
    /\ is_soc_manager(u)
    /\ t.status \notin TERMINAL_STATUSES \cup {"PENDING_MGR_TRIAGE", "MONITORING"}

\* save(update_fields = is_emergency, updated_at); the new value is not the copy's.
ReassessEmergency(q) ==
    /\ can_reassess_emergency(q.copy, q.user)
    /\ q.copy = row \/ "reassess_emergency" \in Races
    /\ row.status # "CANCELLED"
    /\ row' = [row EXCEPT !.is_emergency = ~q.copy.is_emergency]
    /\ UNCHANGED work

\* TicketSubtask.save locks the parent row, and refuses only a cancelled one.
SavesSubtask(q) ==
    /\ q.copy = row \/ "response_request" \in Races
    /\ row.status # "CANCELLED"
    /\ UNCHANGED row

CreateResponseRequest(q) ==
    /\ is_soc_manager(q.user)
    /\ q.copy.status \notin TERMINAL_STATUSES
    /\ SavesSubtask(q)
    /\ work' = "open"

\* can_change_subtask_status: the assignee or the manager, unless the ticket's
\* copy freezes the request (a ticket closed as an Event does not).
UpdateSubtask(q) ==
    /\ q.user \in Responders \/ is_soc_manager(q.user)
    /\ q.copy.status \notin {"APPROVED", "CANCELLED"}
    /\ SavesSubtask(q)
    /\ work # "none"
    /\ work' \in {"open", "done"}

(***************************************************************************)
(* Requests that work on the locked row                                    *)
(***************************************************************************)

\* Mutant: the preparation form is still offered at the manager's review.
EditTicket_form_by_stamp(u) ==
    /\ VisibleTo(row, u)
    /\ can_edit_ticket(row, u)
    /\ IF row.status \in {"NEW", "PENDING_MGR_TRIAGE"} THEN row' \in Prepared(row, TRUE)
       ELSE \E c \in Classifications : row' = [row EXCEPT !.classification = c]
    /\ UNCHANGED work

EditTicket(u) ==
    /\ VisibleTo(row, u)
    /\ can_edit_ticket(row, u)
    /\ IF row.status = "NEW" THEN row' \in Prepared(row, TRUE)
       ELSE \E c \in Classifications : row' = [row EXCEPT !.classification = c]
    /\ UNCHANGED work

can_cancel_directly(t, u) ==
    /\ t.status \notin TERMINAL_STATUSES
    /\ \/ is_soc_manager(u)
       \/ t.status = "NEW" /\ u = Creator /\ u \in Tier1 /\ ~t.first_submitted

\* Outstanding work is cancelled with the ticket, which only the manager may do.
CancelDirectly(u) ==
    /\ VisibleTo(row, u)
    /\ can_cancel_directly(row, u)
    /\ hasOpenWork => is_soc_manager(u)
    /\ row' = [row EXCEPT !.status = "CANCELLED", !.t2_claimed_by = NoUser]
    /\ work' = IF hasOpenWork THEN "done" ELSE work

\* Conditional UPDATEs of the claim columns: updated_at stays.
ClaimTier2Ticket(u) ==
    /\ works_tier2(u)
    /\ row.status \in TIER2_QUEUE_STATUSES
    /\ row.t2_claimed_by = NoUser
    /\ row' = [row EXCEPT !.t2_claimed_by = u]
    /\ UNCHANGED work

ReleaseEscalation(u) ==
    /\ works_tier2(u)
    /\ row.t2_claimed_by = u
    /\ row' = [row EXCEPT !.t2_claimed_by = NoUser]
    /\ UNCHANGED work

(***************************************************************************)
(* Next                                                                    *)
(***************************************************************************)

InFlight == {r \in Requests : req[r] # Idle}

\* After a save that bumps updated_at, the copies of the other requests are
\* outdated; `done' has ended.
Outdated(done) ==
    [r \in Requests |->
        IF r \in done \/ req[r] = Idle THEN Idle ELSE [req[r] EXCEPT !.fresh = FALSE]]

Ended(done) == [r \in Requests |-> IF r \in done THEN Idle ELSE req[r]]

Transitions(q) ==
    \/ SubmitPreparation(q)
    \/ ReturnForCompletion(q)
    \/ ManagerForward(q)
    \/ StepBack(q)
    \/ CompleteT2Review(q)
    \/ StartMonitoring(q)
    \/ ConcludeAsIncident(q)
    \/ ConcludeAsEvent(q)
    \/ ReclassifyAsEvent(q)
    \/ SubmitContainment(q)
    \/ WorkflowAction(q)

Serve(q, done) ==
    /\ VisibleTo(q.copy, q.user)
    /\ \/ /\ Transitions(q) \/ ReassessEmergency(q)
          /\ req' = Outdated(done)
       \/ /\ CreateResponseRequest(q) \/ UpdateSubtask(q)
          /\ req' = Ended(done)

\* The request of user u that loads and writes with nothing in between.
Prompt(u) == [user |-> u, copy |-> row, fresh |-> TRUE]

ActsAs(u) ==
    \/ Serve(Prompt(u), {})
    \/ \E r \in InFlight : req[r].user = u /\ Serve(req[r], {r})
    \/ EditTicket(u) /\ req' = Outdated({})
    \/ CancelDirectly(u) /\ req' = Outdated({})
    \/ ClaimTier2Ticket(u) /\ UNCHANGED req
    \/ ReleaseEscalation(u) /\ UNCHANGED req

Load(r, u) ==
    /\ req[r] = Idle
    /\ VisibleTo(row, u)
    /\ req' = [req EXCEPT ![r] = Prompt(u)]
    /\ UNCHANGED <<row, work>>

\* The view or the service refuses the request: an error message, no change.
Refused(r) ==
    /\ req[r] # Idle
    /\ req' = Ended({r})
    /\ UNCHANGED <<row, work>>

Next ==
    \/ \E u \in Users : ActsAs(u)
    \/ \E r \in Requests, u \in Users : Load(r, u)
    \/ \E r \in Requests : Refused(r)

Spec == Init /\ [][Next]_vars

(***************************************************************************)
(* Properties that survive every race                                      *)
(***************************************************************************)

AdminLane == {"AWAITING_CONTAINMENT", "CONTAINMENT_REPORTED"}
OwnerLane == {"AWAITING_OWNER", "OWNER_REMEDIATED", "PENDING_T2_REVIEW"}
Handling == AdminLane \cup OwnerLane \cup {"PENDING_MANAGER"}
Routed == Handling \cup {"PENDING_MGR_TRIAGE"}

ForwardEdges ==
    {<<"PENDING_MGR_TRIAGE", "AWAITING_CONTAINMENT">>,
     <<"PENDING_MGR_TRIAGE", "AWAITING_OWNER">>,
     <<"AWAITING_CONTAINMENT", "CONTAINMENT_REPORTED">>,
     <<"AWAITING_OWNER", "PENDING_T2_REVIEW">>,
     <<"OWNER_REMEDIATED", "PENDING_T2_REVIEW">>,
     <<"PENDING_MANAGER", "APPROVED">>}
        \cup (VerificationStatuses \X {"PENDING_MANAGER", "APPROVED"})

\* From the manager's review on, an incident always has a legal move forward
\* once its response requests are done, and a step back out of PENDING_MANAGER;
\* in the Admin lane there is a system admin to take it.  (A case that reached
\* the review without a complete lane "could never" be forwarded,
\* LANE_ROUTING_EDGES and step 5 of _transition_to.)
NeverStranded ==
    row.status \in Routed =>
        /\ \E s \in Statuses : /\ <<row.status, s>> \in ForwardEdges
                             /\ can_transition_to(row, s, FALSE, "none")
        /\ row.status = "PENDING_MANAGER" =>
                can_transition_to(row, step_back_target(row), FALSE, "none")
        /\ row.status \in AdminLane => row.assigned_admin \in SysAdmins

\* A case Tier 2 has ever handled is never handed back to the creator's
\* preparation: the manager's return, the stale save of a Tier 2 review and the
\* step backs all respect who routed it (manager_return_target).
PreparationIsBeforeTier2 ==
    row.status = "NEW" => ~row.escalated_to_t2 /\ ~row.has_been_monitored

\* Two signatures on an approved case, by people of the two roles: Tier 2's
\* verification before the manager sees it, and an approver exactly when the
\* case is approved (the sign-off stamps of _transition_to).
SignOffs ==
    /\ row.status = "APPROVED" <=> row.approved_by # NoUser
    /\ row.status \in {"APPROVED", "PENDING_MANAGER"} => row.verified_by # NoUser
    /\ row.verified_by \in Tier2 \cup Superusers \cup {NoUser}
    /\ row.approved_by \in Tier2 \cup Managers \cup Superusers \cup {NoUser}

\* The claim covers one stage only: no ticket carries a claim outside the Tier 2
\* queue, where nobody could release or honour it.
ClaimsInQueue ==
    row.t2_claimed_by # NoUser =>
        /\ row.status \in TIER2_QUEUE_STATUSES
        /\ works_tier2(row.t2_claimed_by)

\* A cancelled ticket and its response requests never change again, whatever
\* request was under way when it was cancelled (Ticket.save, TicketSubtask.save).
CancelledIsFinal ==
    [][row.status = "CANCELLED" => UNCHANGED <<row, work>>]_vars

(***************************************************************************)
(* Properties of the guarded writers: each holds as long as the unguarded  *)
(* writer named in the README runs on a current copy, and fails otherwise  *)
(***************************************************************************)

\* An approved or event-closed case stays closed in that status.
ResolvedIsFinal ==
    [][row.status \in RESOLVED_STATUSES => row'.status = row.status]_vars

\* Who decided what is write-once, and what has happened to the case is not
\* forgotten (the write-once stamps of _transition_to and assess_emergency_initial).
DecisionsAreKept ==
    [][/\ \A f \in {"verified_by", "approved_by", "emergency_decided_by"} :
            row[f] # NoUser => row'[f] = row[f]
       /\ \A f \in {"first_submitted", "escalated_to_t2", "has_been_monitored"} :
            row[f] => row'[f]]_vars

\* While one Tier 2 analyst holds the claim, another one changes nothing of the
\* ticket but (as an acting manager) its emergency flag, or cancels it.
ClaimHonoured ==
    [][\A u \in Tier2 \ Superusers :
        /\ row.status \in TIER2_QUEUE_STATUSES
        /\ row.t2_claimed_by \notin {NoUser, u}
        /\ ActsAs(u)
        => \/ row'.status = "CANCELLED"
           \/ \E e \in BOOLEAN : row' = [row EXCEPT !.is_emergency = e]]_vars

\* The case goes through the stages of TicketContract, whatever interleaves:
\* routed once per review, handled and verified in the lane the manager accepted,
\* given back to whoever routed it, signed twice and closed for good.
Contract ==
    INSTANCE TicketContract
    WITH Lanes  <- HandlingLanes,
         NoLane <- NoLane,
         stage  <- StageOf(row),
         lane   <- LaneOf(row),
         tier2  <- row.escalated_to_t2,
         signed <- SignedOn(row)

KeepsContract == Contract!Spec

\* An emergency is closed by approval only with a manager's signature.
EmergencyNeedsManager ==
    row.status = "APPROVED" /\ row.is_emergency =>
        row.approved_by \in Managers \cup Superusers

\* No incident is approved, or stays approved, with response work unfinished.
NoOpenWorkAtApproval ==
    row.status = "APPROVED" => work # "open"
=============================================================================
