------------------------------- MODULE Notices -------------------------------
(***************************************************************************)
(* The letters of notifications.py: which service of ticket_workflow.py,   *)
(* subtask_creation.py, ticket_updates.py and cancellation.py mails whom   *)
(* after its transaction, and what the page tells the actor when a letter  *)
(* could not be sent.                                                      *)
(*                                                                         *)
(* Every step is a step of TicketLifecycle with its letters added.  The    *)
(* mail server may refuse any of them: a notification function catches the *)
(* error and returns False.  Letters have no other effect, so `mail' and   *)
(* `warned' speak of the last request only.                                *)
(***************************************************************************)
EXTENDS Worklists

CONSTANTS
    Addressed,     \* accounts with an email address
    assigned_to    \* assigned_to of the ticket: the analyst who opened it

ASSUME AddressesAssumption ==
    /\ Addressed \subseteq Users
    /\ assigned_to \in Users \cup {NoUser}

VARIABLES
    mail,    \* the letters the last request tried to send
    warned   \* its page said that a letter was not sent

nvars == <<row, work, req, mail, warned>>

(***************************************************************************)
(* Letters                                                                 *)
(***************************************************************************)

\* `reported': the caller turns a failure into a warning for the actor.
Letter(kind, to, reported) ==
    [kind |-> kind, to |-> to \cap Addressed, reported |-> reported]

notify_containment_alert(t) == Letter("containment_alert", {t.assigned_admin}, TRUE)

\* Falls back to the analyst when no Tier 2 account has an address.  An acting
\* manager has Tier 2's powers, not Tier 2's role.
notify_containment_submitted ==
    LET tier2 == (Tier2 \ Managers) \cap Addressed
    IN Letter("containment_submitted", IF tier2 # {} THEN tier2 ELSE {assigned_to}, TRUE)

notify_manager_triage_pending == Letter("manager_triage_pending", Managers, FALSE)

notify_response_request_created(u) == Letter("response_request_created", {u}, FALSE)

notify_response_request_completed == Letter("response_request_completed", Managers, FALSE)

\* To everybody who had a part in the case, once the decision is made.
notify_ticket_cancellation(t, u) ==
    Letter("cancellation",
           Managers \cup {u, Creator, t.assigned_admin, SystemOwner}
             \cup (IF work = "none" THEN {} ELSE Responders),
           FALSE)

\* No owner, or one without an address: no letter, and no warning.
OwnerLetter(kind) ==
    IF SystemOwner \in Addressed THEN {Letter(kind, {SystemOwner}, TRUE)} ELSE {}

\* Each letter arrives or does not; one with nobody to go to does not.
Post(letters) ==
    \E arrived \in SUBSET {n \in letters : n.to # {}} :
        /\ mail' = {[kind |-> n.kind, to |-> n.to, arrived |-> n \in arrived] : n \in letters}
        /\ warned' = \E n \in letters \ arrived : n.reported

(***************************************************************************)
(* The services and their letters                                          *)
(***************************************************************************)

TriageLetters == IF row'.status = "PENDING_MGR_TRIAGE" THEN {notify_manager_triage_pending} ELSE {}

ClosedLetters == IF row'.status \in RESOLVED_STATUSES THEN OwnerLetter("owner_closed") ELSE {}

ContainmentLetters ==
    IF row'.status = "AWAITING_CONTAINMENT" THEN {notify_containment_alert(row')} ELSE {}

SubmissionLetters(q) ==
    TriageLetters \cup (IF q.copy.first_submitted THEN {} ELSE OwnerLetter("owner_created"))

\* Mutant: the generic action form mails the owner and not the admin.
transition_ticket_owner_only(q) == WorkflowAction(q) /\ Post(ClosedLetters)

transition_ticket(q) == WorkflowAction(q) /\ Post(ContainmentLetters \cup ClosedLetters)

\* Mutant: closing at the end of a watch mails nobody.
conclude_monitoring_silent(q) ==
    \/ ConcludeAsIncident(q) /\ Post(TriageLetters)
    \/ ConcludeAsEvent(q) /\ Post({})

conclude_monitoring(q) ==
    \/ ConcludeAsIncident(q) /\ Post(TriageLetters)
    \/ ConcludeAsEvent(q) /\ Post(ClosedLetters)

\* CLOSED_EVENT only: the manager's confirmation of a downgrade is an action
\* of transition_ticket.
complete_t2_review(q) == CompleteT2Review(q) /\ Post(TriageLetters \cup ClosedLetters)

Mailed(q) ==
    \/ SubmitPreparation(q) /\ Post(SubmissionLetters(q))
    \/ ManagerForward(q) /\ Post(ContainmentLetters)
    \/ complete_t2_review(q)
    \/ conclude_monitoring(q)
    \/ ReclassifyAsEvent(q) /\ Post(ClosedLetters)
    \/ SubmitContainment(q) /\ Post({notify_containment_submitted})
    \/ transition_ticket(q)
    \/ CreateResponseRequest(q) /\ \E u \in Responders : Post({notify_response_request_created(u)})
    \/ UpdateSubtask(q) /\ \E done \in {"done", work'} : \* one of several may be done
          Post(IF done = "done" /\ work = "open" THEN {notify_response_request_completed} ELSE {})

Unmailed(q) ==
    \/ ReturnForCompletion(q)
    \/ StepBack(q)
    \/ StartMonitoring(q)
    \/ ReassessEmergency(q)

NoticesInit == Init /\ mail = {} /\ warned = FALSE

Responded(u) ==
    \/ /\ VisibleTo(row, u)
       /\ Mailed(Prompt(u)) \/ (Unmailed(Prompt(u)) /\ Post({}))
    \/ EditTicket(u) /\ Post({})
    \/ CancelDirectly(u) /\ Post({notify_ticket_cancellation(row, u)})
    \/ (ClaimTier2Ticket(u) \/ ReleaseEscalation(u)) /\ Post({})

NoticesNext == \E u \in Users : Responded(u) /\ UNCHANGED req

NoticesSpec == NoticesInit /\ [][NoticesNext]_nvars

(***************************************************************************)
(* Properties                                                              *)
(***************************************************************************)

\* Whichever of the three services sends a case to the System Admin, and
\* however often it is sent back, the admin was mailed about it or the actor was
\* told on the spot to do so (_containment_warnings).  Every way a case is
\* resolved tells its System Owner, or tells the actor that the owner could not
\* be told (_owner_closed_warnings); nothing tells the owner of an end while the
\* case goes on.
HandoversAreAnnounced ==
    [][LET begins(S) == row.status \notin S /\ row'.status \in S
           told(kind, u) == \E n \in mail' : n.kind = kind /\ n.to = {u} /\ n.arrived
       IN  /\ begins({"AWAITING_CONTAINMENT"}) =>
                told("containment_alert", row'.assigned_admin) \/ warned'
           /\ SystemOwner \in Addressed =>
                /\ begins(RESOLVED_STATUSES) => told("owner_closed", SystemOwner) \/ warned'
                /\ (row # row' /\ \E n \in mail' : n.kind = "owner_closed") =>
                     begins(RESOLVED_STATUSES)]_nvars

\* A letter carries a summary of the case and a link to it: nobody is written to
\* who may not open the case (Ticket.objects.visible_to, "never bypass this").
AddresseesMayRead ==
    [][\A n \in mail' : \A u \in n.to : visible_to(row', u)]_nvars
=============================================================================
