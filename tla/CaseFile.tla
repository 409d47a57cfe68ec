------------------------------ MODULE CaseFile ------------------------------
(***************************************************************************)
(* What a case says and what is kept of what it said: the tracked content  *)
(* of one ticket and the TicketFieldChange rows history.py writes about    *)
(* it, the timeline (TicketLog) with the revisions edit_log banks, the     *)
(* sign-off read back from the timeline once an Event is closed, and the   *)
(* creator's "changed by Tier 2" marker.                                   *)
(*                                                                         *)
(* The moves themselves are TicketRules'; here a ticket starts where its   *)
(* content is rewritten: in Tier 2's review, at the System Admin's         *)
(* containment, or at the verification of the owner's work.  FormFields    *)
(* are the fields of the edit and review forms, the structured indicators  *)
(* one of them; `report' is the containment report and `result' the notes  *)
(* of a response request.  TRACKED_FIELDS also names classification and    *)
(* the lane, which the state machine rewrites without a row.               *)
(*                                                                         *)
(* One slow request (a Tier 2 review, the result notes of a response       *)
(* request, a rewritten timeline entry, or a containment report whose row  *)
(* is still to be written) is overtaken by requests nothing interleaves    *)
(* with.  reassess_emergency and the creator's visit are not slow here:    *)
(* overtaken, the one logs a status the case has left, and the other       *)
(* clears the marker of a change it did not show.                          *)
(***************************************************************************)
EXTENDS TicketRules, Naturals, Sequences

CONSTANTS
    Values,         \* what a field may hold
    Filed,          \* what it was filed with
    FormFields,     \* the fields of the edit and review forms
    Written,        \* what a new timeline entry says
    Notes,          \* what it may be rewritten to
    FirstTickets,   \* where a ticket starts: not ended, nor proposed as an Event
    MaxLogs,        \* bound: timeline entries
    MaxChanges,     \* bound: rows per field
    MaxRevisions    \* bound: revisions per entry

ASSUME CaseFileAssumption ==
    /\ FirstTickets \subseteq Ticket
    /\ \A t \in FirstTickets :
        /\ t.status \notin TERMINAL_STATUSES \cup {"PENDING_MGR_EVENT_REVIEW"}
        /\ t.approved_by = NoUser
    /\ "report" \notin FormFields /\ "result" \notin FormFields
    /\ MaxLogs \in Nat /\ MaxChanges \in Nat /\ MaxRevisions \in Nat

VARIABLES
    ticket,    \* the committed row, without its content
    content,   \* its tracked content
    changes,   \* TicketFieldChange rows, per field and in the order written
    log,       \* TicketLog rows, in the order written
    unseen,    \* has_unseen_t2_changes
    slow,      \* the slow request
    \* Of the history only, read by no handler:
    held,      \* every value each field ever held
    decided    \* who put the Event before the manager, and who ended the case

vars == <<ticket, content, changes, log, unseen, slow, held, decided>>

Fields == FormFields \cup {"report", "result"}

Idle == [kind |-> "none"]

(***************************************************************************)
(* history.py                                                              *)
(***************************************************************************)

record_changes(before, after) ==
    /\ changes' = [f \in Fields |->
          IF before[f] = after[f] THEN changes[f]
          ELSE Append(changes[f], [old_value |-> before[f], new_value |-> after[f]])]
    /\ \A f \in Fields : Len(changes'[f]) <= MaxChanges

\* The content becomes `after'.
Write(after) ==
    /\ content' = after
    /\ held' = [f \in Fields |-> held[f] \cup {after[f]}]

\* Rows about the ticket's own fields raise the creator's marker.
mark_t2_change(u, before, after) ==
    unseen' = \/ unseen
              \/ /\ u \in Tier2
                 /\ u # Creator
                 /\ \E f \in Fields \ {"result"} : before[f] # after[f]

\* What the review and edit forms may submit.
Forms(c) ==
    {[f \in Fields |-> IF f \in FormFields THEN form[f] ELSE c[f]] :
        form \in [FormFields -> Values]}

(***************************************************************************)
(* The timeline                                                            *)
(***************************************************************************)

Entry(u, status) ==
    [author |-> u, status_at_time |-> status, note |-> Written, revisions |-> <<>>]

AddLog(u, status) ==
    /\ Len(log) < MaxLogs
    /\ log' = Append(log, Entry(u, status))

\* Who puts the Event before the manager and who ends the case.
Decides(u, new_status) ==
    decided' =
        [proposer |-> IF new_status = "PENDING_MGR_EVENT_REVIEW" /\ ticket.status # new_status
                      THEN u ELSE decided.proposer,
         closer |-> IF new_status \in TERMINAL_STATUSES THEN u ELSE decided.closer,
         direct |-> IF new_status = "CLOSED_EVENT"
                    THEN ticket.status # "PENDING_MGR_EVENT_REVIEW" ELSE decided.direct,
         reopened |-> decided.reopened \/ ticket.status \in TERMINAL_STATUSES]

\* transition_to, and the TicketLog row it ends in.
Transition(u, t, new_status) ==
    /\ ~t2_claim_blocks(t, u)
    /\ can_transition_to(t, new_status, FALSE, "none")
    /\ MayDrive(t, new_status, u)
    /\ ticket' = Applied(t, new_status, u)
    /\ AddLog(u, new_status)
    /\ Decides(u, new_status)

\* The edges whose handlers rewrite no tracked field but the classification.
PlainEdges ==
    ALLOWED_TRANSITIONS
        \ (AssignedAdminEdges \cup ({"ESCALATED_T2"} \X (Statuses \ {"MONITORING"})))

WorkflowAction(u) ==
    /\ \E s \in Statuses :
        /\ <<ticket.status, s>> \in PlainEdges
        /\ Transition(u, ticket, s)
    /\ UNCHANGED <<content, changes, unseen, held>>

\* reclassify_as_event, and the watch concluded as an Event.
ReclassifyAsEvent(u) ==
    /\ u \in Tier2
    /\ ticket.status \in VerificationStatuses \cup {"MONITORING"}
    /\ Transition(u, [ticket EXCEPT !.classification = "EVENT"], "CLOSED_EVENT")
    /\ UNCHANGED <<content, changes, unseen, held>>

\* A cancellation that a manager approves or makes.
perform_cancellation(u) ==
    /\ is_soc_manager(u)
    /\ ticket.status \notin TERMINAL_STATUSES
    /\ ticket' = [ticket EXCEPT !.status = "CANCELLED", !.t2_claimed_by = NoUser]
    /\ AddLog(u, "CANCELLED")
    /\ Decides(u, "CANCELLED")
    /\ UNCHANGED <<content, changes, unseen, held>>

(***************************************************************************)
(* The requests that rewrite content                                       *)
(***************************************************************************)

\* save_ticket_edit: under the row lock, so `before' is what the form replaces.
save_ticket_edit(u) ==
    /\ can_edit_ticket(ticket, u)
    /\ \E after \in Forms(content) \ {content} :
        /\ Write(after)
        /\ record_changes(content, after)
        /\ mark_t2_change(u, content, after)
    /\ AddLog(u, ticket.status)
    /\ UNCHANGED <<ticket, decided>>

\* Mutant: the instance is read, after is_valid() has put the form on it.
snapshot_saved_of_instance(stored, form) == form

snapshot_saved(stored, form) == stored

\* complete_t2_review of the copy t, whose content is c, with the rows compared
\* against what was stored when the service began.  The whole row is written;
\* the notes of a response request are another's.
complete_t2_review(u, t, c, stored) ==
    /\ u \in Tier2
    /\ t.status = "ESCALATED_T2"
    /\ ticket.status # "CANCELLED"
    /\ \E d \in T2Decisions(t), form \in Forms(c) :
        LET after == [form EXCEPT !.result = content.result]
            before == [snapshot_saved(stored, form) EXCEPT !.result = content.result]
        IN /\ Transition(u, d[1], d[2])
           /\ Write(after)
           /\ record_changes(before, after)
           /\ mark_t2_change(u, before, after)

\* Tier 2 verifies the owner's work and records what was found.
record_remediation_check(u) ==
    /\ u \in Tier2
    /\ ticket.status = "PENDING_T2_REVIEW"
    /\ \E s \in {"AWAITING_OWNER", "PENDING_MANAGER", "APPROVED"}, v \in Values :
        LET after == [content EXCEPT !.report = v]
        IN /\ Transition(u, ticket, s)
           /\ Write(after)
           /\ record_changes(content, after)
           /\ mark_t2_change(u, content, after)

\* The containment report commits with its transition, the row about it after.
submit_containment(u) ==
    /\ slow = Idle
    /\ ticket.status = "AWAITING_CONTAINMENT"
    /\ u = ticket.assigned_admin
    /\ Transition(u, ticket, "CONTAINMENT_REPORTED")
    /\ \E v \in Values :
        /\ Write([content EXCEPT !.report = v])
        /\ slow' = [kind |-> "submit_containment", before |-> content, after |-> content']
    /\ UNCHANGED <<changes, unseen>>

\* The row is locked, and a copy that was overtaken refused.
save_subtask_update(u, old, current) ==
    /\ u \in Responders \cup Managers
    /\ current
    /\ \E v \in Values \ {old} :
        LET after == [content EXCEPT !.result = v]
        IN Write(after) /\ record_changes([content EXCEPT !.result = old], after)
    /\ UNCHANGED <<ticket, log, unseen, decided>>

\* The timeline row carries the status of the instance.
reassess_emergency(u) ==
    /\ is_soc_manager(u)
    /\ ticket.status \notin TERMINAL_STATUSES \cup {"PENDING_MGR_TRIAGE", "MONITORING"}
    /\ ticket' = [ticket EXCEPT !.is_emergency = ~@]
    /\ AddLog(u, ticket.status)
    /\ UNCHANGED <<content, changes, unseen, held, decided>>

\* ticket_detail: the creator's visit is stamped.
Visit(u) ==
    /\ u = Creator
    /\ unseen' = FALSE
    /\ UNCHANGED <<ticket, content, changes, log, held, decided>>

(***************************************************************************)
(* edit_log: check, bank the text that was loaded, overwrite it            *)
(***************************************************************************)

may_edit_log(u, i) == u = log[i].author \/ is_soc_manager(u)

Bank(i, note) ==
    /\ Len(log[i].revisions) < MaxRevisions
    /\ log' = [log EXCEPT ![i].revisions = Append(@, note)]

Overwrite(i, note) == log' = [log EXCEPT ![i].note = note]

\* Mutant: the entry is overwritten, and its text not banked first.
edit_log_first_write_overwrites(r) == Overwrite(r.entry, r.note)

edit_log_first_write(r) == Bank(r.entry, r.loaded)

BankRevision ==
    /\ slow.kind = "edit_log"
    /\ edit_log_first_write(slow)
    /\ slow' = [slow EXCEPT !.kind = "edit_log_banked"]
    /\ UNCHANGED <<ticket, content, changes, unseen, held, decided>>

SaveNote ==
    /\ slow.kind = "edit_log_banked"
    /\ Overwrite(slow.entry, slow.note)
    /\ slow' = Idle
    /\ UNCHANGED <<ticket, content, changes, unseen, held, decided>>

\* A rewrite that nothing overtakes.
edit_log(u) ==
    /\ \E i \in DOMAIN log, note \in Notes :
        /\ may_edit_log(u, i)
        /\ note # log[i].note
        /\ Len(log[i].revisions) < MaxRevisions
        /\ log' = [log EXCEPT ![i].note = note, ![i].revisions = Append(@, log[i].note)]
    /\ UNCHANGED <<ticket, content, changes, unseen, held, decided>>

(***************************************************************************)
(* Reading the timeline back                                               *)
(***************************************************************************)

\* Mutant: the row before the close is taken for the proposal.
get_closed_event_signoff_last_row(rows) ==
    LET close == CHOOSE i \in DOMAIN rows :
            /\ rows[i].status_at_time = "CLOSED_EVENT"
            /\ \A j \in 1 .. i - 1 : rows[j].status_at_time # "CLOSED_EVENT"
        reviewed == close > 1 /\ rows[close - 1].status_at_time = "PENDING_MGR_EVENT_REVIEW"
    IN IF reviewed
       THEN [reviewer |-> rows[close - 1].author, approver |-> rows[close].author, direct |-> FALSE]
       ELSE [reviewer |-> rows[close].author, approver |-> NoUser, direct |-> TRUE]

\* The first CLOSED_EVENT row is the close; the proposal is the first of the run
\* of review rows right before it.
get_closed_event_signoff(rows) ==
    LET close == CHOOSE i \in DOMAIN rows :
            /\ rows[i].status_at_time = "CLOSED_EVENT"
            /\ \A j \in 1 .. i - 1 : rows[j].status_at_time # "CLOSED_EVENT"
        run == {i \in 1 .. close - 1 :
                  \A j \in i .. close - 1 : rows[j].status_at_time = "PENDING_MGR_EVENT_REVIEW"}
    IN IF run # {}
       THEN [reviewer |-> rows[CHOOSE i \in run : \A j \in run : i <= j].author,
             approver |-> rows[close].author, direct |-> FALSE]
       ELSE [reviewer |-> rows[close].author, approver |-> NoUser, direct |-> TRUE]

\* Who a list of finished cases says closed this one (the timeline's pk order).
closer_id(t, rows) ==
    IF t.approved_by # NoUser THEN t.approved_by
    ELSE rows[CHOOSE i \in DOMAIN rows :
                /\ rows[i].status_at_time \in TERMINAL_STATUSES
                /\ \A j \in 1 .. i - 1 : rows[j].status_at_time \notin TERMINAL_STATUSES].author

(***************************************************************************)
(* The specification                                                       *)
(***************************************************************************)

Init ==
    /\ ticket \in FirstTickets
    /\ content = [f \in Fields |-> Filed]
    /\ held = [f \in Fields |-> {Filed}]
    /\ changes = [f \in Fields |-> <<>>]
    /\ log = <<Entry(Creator, ticket.status)>>
    /\ unseen = FALSE
    /\ slow = Idle
    /\ decided = [proposer |-> NoUser, closer |-> NoUser, direct |-> FALSE, reopened |-> FALSE]

\* A slow request loads what it decides on.
Load(u) ==
    /\ slow = Idle
    /\ \/ /\ u \in Tier2
          /\ ticket.status = "ESCALATED_T2"
          /\ slow' = [kind |-> "t2_review", user |-> u, ticket |-> ticket, content |-> content,
                      stored |-> content, started |-> FALSE]
       \/ /\ u \in Responders \cup Managers
          /\ slow' = [kind |-> "update_subtask", user |-> u, old |-> content.result,
                      rows |-> Len(changes["result"])]
       \/ \E i \in DOMAIN log, note \in Notes :
            /\ may_edit_log(u, i)
            /\ note # log[i].note
            /\ slow' = [kind |-> "edit_log", entry |-> i, loaded |-> log[i].note, note |-> note]
    /\ UNCHANGED <<ticket, content, changes, log, unseen, held, decided>>

\* complete_t2_review begins: snapshot_saved and ioc_snapshot read what is stored.
TakeSnapshot ==
    /\ slow.kind = "t2_review"
    /\ ~slow.started
    /\ slow' = [slow EXCEPT !.stored = content, !.started = TRUE]
    /\ UNCHANGED <<ticket, content, changes, log, unseen, held, decided>>

FinishReview ==
    /\ slow.kind = "t2_review"
    /\ slow.started
    /\ complete_t2_review(slow.user, slow.ticket, slow.content, slow.stored)
    /\ slow' = Idle

FinishSubtask ==
    /\ slow.kind = "update_subtask"
    /\ save_subtask_update(slow.user, slow.old, slow.rows = Len(changes["result"]))
    /\ slow' = Idle

RecordContainment ==
    /\ slow.kind = "submit_containment"
    /\ record_changes(slow.before, slow.after)
    /\ slow' = Idle
    /\ UNCHANGED <<ticket, content, log, unseen, held, decided>>

\* It is refused, or the server stops: what it has committed stays.  A report
\* whose row was not written is not in this module.
GiveUp ==
    /\ slow.kind \notin {"none", "submit_containment"}
    /\ slow' = Idle
    /\ UNCHANGED <<ticket, content, changes, log, unseen, held, decided>>

Serve(u) ==
    \/ WorkflowAction(u)
    \/ ReclassifyAsEvent(u)
    \/ perform_cancellation(u)
    \/ save_ticket_edit(u)
    \/ complete_t2_review(u, ticket, content, content)
    \/ record_remediation_check(u)
    \/ save_subtask_update(u, content.result, TRUE)
    \/ reassess_emergency(u)
    \/ Visit(u)
    \/ edit_log(u)

Next ==
    \/ \E u \in Users : Serve(u) /\ UNCHANGED slow
    \/ \E u \in Users : submit_containment(u) \/ Load(u)
    \/ TakeSnapshot
    \/ FinishReview
    \/ FinishSubtask
    \/ RecordContainment
    \/ BankRevision
    \/ SaveNote
    \/ GiveUp

Spec == Init /\ [][Next]_vars

(***************************************************************************)
(* Properties                                                              *)
(***************************************************************************)

\* Whatever interleaves, no value a field held is simply gone: it is the
\* field's value still, or a row tells of it (a report may wait for its row).
\* What TicketFieldChange is for; the review form, the edit form, the
\* containment report and the result notes overwrite in place.
NoValueIsForgotten ==
    \A f \in Fields :
        held[f] \subseteq
            {content[f]}
            \cup {changes[f][i].old_value : i \in DOMAIN changes[f]}
            \cup {changes[f][i].new_value : i \in DOMAIN changes[f]}
            \cup IF slow.kind = "submit_containment" THEN {slow.before[f]} ELSE {}

\* However often an entry of the timeline is rewritten, by its author or by a
\* manager, in two tabs or by a request the server does not finish, what it
\* said when it was written is its text still or its first revision.
OriginalIsKept ==
    \A i \in DOMAIN log :
        Written = IF log[i].revisions = <<>> THEN log[i].note ELSE log[i].revisions[1]

\* A closed Event is credited, from its timeline alone, to the analyst who put
\* it before the manager and to the manager who confirmed, or to whoever closed
\* it directly; and every finished case to whoever ended it.  Entries may be
\* added at any stage and proposals returned.
CloseIsCredited ==
    ~decided.reopened =>
        /\ ticket.status = "CLOSED_EVENT" =>
            get_closed_event_signoff(log) =
                IF decided.direct
                THEN [reviewer |-> decided.closer, approver |-> NoUser, direct |-> TRUE]
                ELSE [reviewer |-> decided.proposer, approver |-> decided.closer,
                      direct |-> FALSE]
        /\ ticket.status \in TERMINAL_STATUSES => closer_id(ticket, log) = decided.closer
=============================================================================
