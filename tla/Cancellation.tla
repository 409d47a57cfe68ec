---------------------------- MODULE Cancellation ----------------------------
(***************************************************************************)
(* Cancellation of tickets and the life of their response requests, with   *)
(* the row locks of the transactions as state.                             *)
(*                                                                         *)
(* A transaction locks its rows one after the other (SELECT ... FOR UPDATE,*)
(* or the UPDATE itself), asks its questions under the locks and commits;  *)
(* its writes are seen when it commits.  Needs is the lock order of each   *)
(* kind.  PostgreSQL aborts one of a set of transactions that wait for one *)
(* another.  Services that lock the ticket and nothing else are one step.  *)
(*                                                                         *)
(* A ticket is "NEW" (never submitted), "ACTIVE" (submitted, a return to   *)
(* preparation included) or in a terminal status.  Who may act is reduced  *)
(* to manager or not, and a rejection and a withdrawal to "decline"; a     *)
(* request declined or superseded is "ENDED".                              *)
(***************************************************************************)
EXTENDS Naturals, FiniteSets

CONSTANTS
    Tickets, NoTicket,
    Members,       \* tickets of the one Project Incident
    Project,       \* its row
    Subtasks,      \* rows a response request may get
    Parent,        \* the ticket of each of them
    Hardening,     \* those of type INFRA_SEC or HARDENING
    Procs,         \* transactions that may be open at once
    Idle,
    MaxRequests    \* bound: cancellation requests per ticket

ASSUME CancellationAssumption ==
    /\ Members \subseteq Tickets /\ Hardening \subseteq Subtasks
    /\ Parent \in [Subtasks -> Tickets]
    /\ Tickets \cap Subtasks = {} /\ Project \notin Tickets \cup Subtasks
    /\ NoTicket \notin Tickets \cup Subtasks \cup {Project}
    /\ MaxRequests \in Nat

VARIABLES
    status,     \* of each ticket
    requests,   \* its cancellation requests, oldest first (1 .. MaxRequests)
    task,       \* status of each response request
    tx          \* the open transactions

vars == <<status, requests, task, tx>>

RESOLVED_STATUSES == {"APPROVED", "CLOSED_EVENT"}
TERMINAL_STATUSES == RESOLVED_STATUSES \cup {"CANCELLED"}
Statuses == {"NEW", "ACTIVE"} \cup TERMINAL_STATUSES

TaskOpen == {"OPEN", "IN_PROGRESS"}
TaskStatuses == TaskOpen \cup {"NONE", "DONE", "CANCELLED"}

RequestStatuses == {"PENDING", "APPROVED", "ENDED"}
NoRequest == [status |-> "NONE", duplicate_of |-> NoTicket]
CancellationRequest ==
    [status : RequestStatuses, duplicate_of : Tickets \cup {NoTicket}]
        \cup {NoRequest}

Rows == Tickets \cup Subtasks \cup {Project}

\* kind: the service; manager: by a manager; ticket; id: the request the page showed, 0 for none;
\* duplicate_of: the original named on the form; work: the response requests it
\* writes; selected: those ticked on the page; decided: all questions answered;
\* loaded, fresh: the status the update form loaded, and whether updated_at is
\* still that of its copy; holds: the rows it has locked.
Transaction ==
    [kind : {"request", "direct", "approve", "decline", "update", "harden", "review"},
     manager : BOOLEAN, ticket : Tickets \cup {NoTicket}, id : 0 .. MaxRequests,
     duplicate_of : Tickets \cup {NoTicket}, work : SUBSET Subtasks,
     selected : SUBSET Subtasks, decided : BOOLEAN, loaded : TaskStatuses,
     fresh : BOOLEAN, holds : SUBSET Rows]

ASSUME IdleIsNoTransaction == Idle \notin Transaction

\* The columns take the codes of their choices, and a transaction holds rows.
TypeOK ==
    /\ status \in [Tickets -> Statuses]
    /\ requests \in [Tickets -> [1 .. MaxRequests -> CancellationRequest]]
    /\ task \in [Subtasks -> TaskStatuses]
    /\ tx \in [Procs -> Transaction \cup {Idle}]

Init ==
    /\ status = [t \in Tickets |-> "NEW"]
    /\ requests = [t \in Tickets |-> [i \in 1 .. MaxRequests |-> NoRequest]]
    /\ task = [s \in Subtasks |-> "NONE"]
    /\ tx = [p \in Procs |-> Idle]

(***************************************************************************)
(* Rules                                                                   *)
(***************************************************************************)

\* The number of the pending request of t, 0 if there is none.
Pending(t) ==
    IF \E i \in 1 .. MaxRequests : requests[t][i].status = "PENDING"
    THEN CHOOSE i \in 1 .. MaxRequests : requests[t][i].status = "PENDING"
    ELSE 0

Used(t) == Cardinality({i \in 1 .. MaxRequests : requests[t][i] # NoRequest})

Outstanding(t) == {s \in Subtasks : Parent[s] = t /\ task[s] \in TaskOpen}

\* A manager, or the creator of an untouched preparation.
can_cancel_directly(t, manager) == manager \/ status[t] = "NEW"

\* The original named by transaction x, or by the request it decides.
Original(x) ==
    IF x.kind = "direct" THEN x.duplicate_of
    ELSE IF x.kind = "approve" /\ Pending(x.ticket) # 0
         THEN requests[x.ticket][Pending(x.ticket)].duplicate_of
    ELSE NoTicket

\* What a cancellation may name as its original.
Referable == {NoTicket} \cup {t \in Tickets : status[t] # "CANCELLED"}

Cancels(x) == x.kind \in {"direct", "approve"}

\* What perform_cancellation asks under the ticket lock.
Admitted(x) ==
    /\ status[x.ticket] \notin TERMINAL_STATUSES
    /\ x.kind \in {"request", "direct"} =>
        /\ Pending(x.ticket) = 0 /\ Used(x.ticket) < MaxRequests
        /\ x.duplicate_of \in Referable
    /\ x.kind = "direct" => can_cancel_directly(x.ticket, x.manager)
    /\ x.kind \in {"approve", "decline"} =>
        Pending(x.ticket) # 0 /\ Pending(x.ticket) = x.id

\* Mutant: the original is asked again without being locked.
original_locked_unlocked(x) == TRUE

original_locked(x) == Original(x) \in x.holds \cup {NoTicket}

\* Asked with the original locked: it is still there to refer to, and the page
\* ticked exactly what is outstanding (which only a manager may cancel).
Decided(x) ==
    /\ Original(x) \in Referable
    /\ x.selected = Outstanding(x.ticket)
    /\ Outstanding(x.ticket) # {} => x.manager

(***************************************************************************)
(* Locks.  A row is held by at most one transaction.                       *)
(***************************************************************************)

Open == {p \in Procs : tx[p] # Idle}
Holder(r) == {p \in Open : r \in tx[p].holds}

ProjectOf(t) == IF t \in Members THEN {Project} ELSE {}

\* Mutant: the ticket first, then its project.
ParentFirst_ticket_first(x) ==
    IF x.ticket \notin x.holds THEN {x.ticket} ELSE ProjectOf(x.ticket) \ x.holds

\* "Match the Project Review lock order: project, then member ticket."
ParentFirst(x) ==
    IF ~ ProjectOf(x.ticket) \subseteq x.holds THEN ProjectOf(x.ticket)
    ELSE {x.ticket} \ x.holds

\* perform_cancellation: then the original (NOWAIT), then the UPDATE of each
\* outstanding response request.  A request that names an original locks it for
\* the foreign key's check, which Django defers to the commit.
CancellationOrder(x) ==
    IF ParentFirst(x) # {} THEN ParentFirst(x)
    ELSE IF x.decided THEN x.work \ x.holds
    ELSE IF ~Admitted(x) THEN {}
    ELSE IF x.kind = "request" THEN {x.duplicate_of} \ (x.holds \cup {NoTicket})
    ELSE IF original_locked(x) THEN {}
    ELSE {Original(x)}

\* Mutant: TicketSubtask.save does not lock the ticket.
UpdateOrder_ticket_unlocked(x) == x.work \ x.holds

\* save_subtask_update: the response request, compared with the form's copy, then
\* its ticket (TicketSubtask.save).
UpdateOrder(x) ==
    IF ~ x.work \subseteq x.holds THEN x.work
    ELSE IF x.fresh THEN {Parent[s] : s \in x.work} \ x.holds
    ELSE {}

\* assign_open_hardening_requests: every open request first, in any order, and
\* then the ticket of each as it is saved.
HardeningOrder(x) ==
    IF ~ x.work \subseteq x.holds THEN x.work \ x.holds
    ELSE {Parent[s] : s \in x.work} \ x.holds

\* forward_project_review, reassess_project_emergency, add_project_member.
ReviewOrder(x) ==
    IF Project \notin x.holds THEN {Project}
    ELSE {t \in Members : status[t] \notin TERMINAL_STATUSES} \ x.holds

\* The rows one of which the transaction locks next; none: it ends.
Needs(x) ==
    CASE x.kind = "update" -> UpdateOrder(x)
      [] x.kind = "harden" -> HardeningOrder(x)
      [] x.kind = "review" -> ReviewOrder(x)
      [] OTHER             -> CancellationOrder(x)

\* select_for_update(nowait=True)
Nowait(x, r) == Cancels(x) /\ r = Original(x)

Begin(p, x) ==
    /\ tx[p] = Idle
    /\ tx' = [tx EXCEPT ![p] = x]
    /\ UNCHANGED <<status, requests, task>>

Ended(p) == [tx EXCEPT ![p] = Idle]

Rollback(p) ==
    /\ tx' = Ended(p)
    /\ UNCHANGED <<status, requests, task>>

\* A request the batch waited for is not of interest any more once it is done.
Acquire(p, r) ==
    LET x == tx[p] IN
    /\ r \in Needs(x)
    /\ Holder(r) = {}
    /\ tx' = [tx EXCEPT ![p] =
                IF x.kind = "harden" /\ r \in Subtasks /\ task[r] \notin TaskOpen
                THEN [x EXCEPT !.work = @ \ {r}]
                ELSE [x EXCEPT !.holds = @ \cup {r}]]
    /\ UNCHANGED <<status, requests, task>>

NowaitFails(p) ==
    /\ \E r \in Needs(tx[p]) : Nowait(tx[p], r) /\ Holder(r) # {}
    /\ Rollback(p)

\* Every transaction of S waits for one of S.
Blocked(p) ==
    /\ Needs(tx[p]) # {}
    /\ \A r \in Needs(tx[p]) : Holder(r) # {} /\ ~Nowait(tx[p], r)

WaitsOnlyFor(p, S) == \A r \in Needs(tx[p]) : Holder(r) \subseteq S

Deadlocked(S) == S # {} /\ \A p \in S : Blocked(p) /\ WaitsOnlyFor(p, S)

DeadlockDetected(p) ==
    /\ \E S \in SUBSET Open : p \in S /\ Deadlocked(S)
    /\ Rollback(p)

(***************************************************************************)
(* The services, up to their first lock                                    *)
(***************************************************************************)

NewTx(kind) ==
    [kind |-> kind, manager |-> kind = "approve", ticket |-> NoTicket, id |-> 0, duplicate_of |-> NoTicket,
     work |-> {}, selected |-> {}, decided |-> FALSE, loaded |-> "NONE", fresh |-> TRUE, holds |-> {}]

\* cancellation_context: what the page offers, and the pending request and the
\* outstanding work it shows.  A duplicate names another ticket.
OpensForm(p, t, kind, manager, d) ==
    /\ d # t
    /\ d # NoTicket => kind \in {"request", "direct"}
    /\ status[t] \notin TERMINAL_STATUSES
    /\ kind \in {"request", "direct"} => Pending(t) = 0 /\ Used(t) < MaxRequests
    /\ kind = "direct" => can_cancel_directly(t, manager)
    /\ kind # "direct" => manager = (kind = "approve")
    /\ kind \in {"approve", "decline"} => Pending(t) # 0
    /\ Begin(p, [NewTx(kind) EXCEPT !.manager = manager, !.ticket = t, !.duplicate_of = d,
                    !.id = Pending(t),
                    !.selected = IF kind \in {"direct", "approve"} THEN Outstanding(t) ELSE {}])

OpensCancellation(p) ==
    \E t \in Tickets, kind \in {"request", "direct", "approve", "decline"},
       manager \in BOOLEAN, d \in Tickets \cup {NoTicket} : OpensForm(p, t, kind, manager, d)

\* update_subtask and accept_subtask load the request; a closed ticket's copy
\* refuses (a ticket closed as an Event does not).
OpensUpdate(p) ==
    \E s \in Subtasks :
        /\ task[s] \in TaskOpen \cup {"DONE"}
        /\ status[Parent[s]] \notin {"APPROVED", "CANCELLED"}
        /\ Begin(p, [NewTx("update") EXCEPT !.work = {s}, !.loaded = task[s]])

OpensHardening(p) ==
    LET open == {s \in Hardening : task[s] \in TaskOpen} IN
    /\ open # {}
    /\ Begin(p, [NewTx("harden") EXCEPT !.work = open])

OpensReview(p) ==
    /\ \E t \in Members : status[t] \notin TERMINAL_STATUSES
    /\ Begin(p, NewTx("review"))

(***************************************************************************)
(* Commits                                                                 *)
(***************************************************************************)

\* The copies the other forms loaded of the requests W are outdated.
Outdated(p, W) ==
    [q \in Procs |->
        IF q = p THEN Idle
        ELSE IF tx[q] # Idle /\ tx[q].kind = "update" /\ tx[q].work \subseteq W
             THEN [tx[q] EXCEPT !.fresh = FALSE]
        ELSE tx[q]]

Recorded(t, r) == [requests EXCEPT ![t][Used(t) + 1] = r]

\* The last question; the outstanding response requests are read once.
Decides(p) ==
    LET x == tx[p] IN
    /\ Cancels(x) /\ ~x.decided /\ Needs(x) = {}
    /\ Admitted(x) /\ Decided(x)
    /\ tx' = [tx EXCEPT ![p].decided = TRUE, ![p].work = Outstanding(x.ticket)]
    /\ UNCHANGED <<status, requests, task>>

CommitsCancellation(p) ==
    LET x == tx[p]
        record == [status |-> "APPROVED", duplicate_of |-> x.duplicate_of]
    IN /\ Cancels(x) /\ x.decided /\ Needs(x) = {}
       /\ status' = [status EXCEPT ![x.ticket] = "CANCELLED"]
       /\ requests' = IF x.kind = "direct" THEN Recorded(x.ticket, record)
                      ELSE [requests EXCEPT ![x.ticket][x.id].status = "APPROVED"]
       /\ task' = [s \in Subtasks |-> IF s \in x.work THEN "CANCELLED" ELSE task[s]]
       /\ tx' = Outdated(p, x.work)

CommitsRequest(p) ==
    LET x == tx[p] IN
    /\ x.kind = "request" /\ Needs(x) = {} /\ Admitted(x)
    /\ requests' = Recorded(x.ticket,
            [status |-> "PENDING", duplicate_of |-> x.duplicate_of])
    /\ tx' = Ended(p)
    /\ UNCHANGED <<status, task>>

CommitsDecision(p) ==
    LET x == tx[p] IN
    /\ x.kind = "decline" /\ Needs(x) = {} /\ Admitted(x)
    /\ requests' = [requests EXCEPT ![x.ticket][x.id].status = "ENDED"]
    /\ tx' = Ended(p)
    /\ UNCHANGED <<status, task>>

\* An error message instead.
CancellationRefused(p) ==
    LET x == tx[p] IN
    /\ x.ticket # NoTicket /\ ~x.decided /\ Needs(x) = {}
    /\ ~Admitted(x) \/ (Cancels(x) /\ ~Decided(x))
    /\ Rollback(p)

\* TicketSubtask.save, with the ticket locked.
SaveAllowed(s) == status[Parent[s]] # "CANCELLED"

Current(x) == x.fresh

\* The copy was compared under the lock; the form offers every status but CANCELLED.
CommitsUpdate(p) ==
    LET x == tx[p] IN
    /\ x.kind = "update" /\ Needs(x) = {} /\ Current(x)
    /\ \A s \in x.work : SaveAllowed(s)
    /\ \E new \in TaskOpen \cup {"DONE"} :
        task' = [s \in Subtasks |-> IF s \in x.work THEN new ELSE task[s]]
    /\ tx' = Outdated(p, x.work)
    /\ UNCHANGED <<status, requests>>

UpdateRefused(p) ==
    LET x == tx[p] IN
    /\ x.kind = "update" /\ Needs(x) = {}
    /\ ~Current(x) \/ \E s \in x.work : ~SaveAllowed(s)
    /\ Rollback(p)

\* Type and assignee change, the status is that of the locked row.
CommitsHardening(p) ==
    LET x == tx[p] IN
    /\ x.kind = "harden" /\ Needs(x) = {}
    /\ tx' = IF \A s \in x.work : SaveAllowed(s) THEN Outdated(p, x.work) ELSE Ended(p)
    /\ UNCHANGED <<status, requests, task>>

\* What it does to the members is in ProjectIncident; only its locks count here.
CommitsReview(p) == tx[p].kind = "review" /\ Needs(tx[p]) = {} /\ Rollback(p)

(***************************************************************************)
(* Services that lock the ticket alone                                     *)
(***************************************************************************)

Unlocked(t) == Holder(t) = {}

\* The first transition_to; those between open statuses change nothing here.
Submits(t) ==
    /\ Unlocked(t) /\ status[t] = "NEW"
    /\ status' = [status EXCEPT ![t] = "ACTIVE"]
    /\ UNCHANGED <<requests, task, tx>>

\* Mutant: closing leaves the cancellation request where it is.
Superseded_left_pending(t) == requests[t]

Superseded(t) ==
    [i \in 1 .. MaxRequests |->
        IF requests[t][i].status = "PENDING" THEN [requests[t][i] EXCEPT !.status = "ENDED"]
        ELSE requests[t][i]]

\* transition_to a resolved status and Ticket.save; outstanding response requests
\* stop an approval and survive a closure as an Event.
Closes(t) ==
    /\ Unlocked(t) /\ status[t] = "ACTIVE"
    /\ \E resolved \in RESOLVED_STATUSES :
        /\ resolved = "APPROVED" => Outstanding(t) = {}
        /\ status' = [status EXCEPT ![t] = resolved]
    /\ requests' = [requests EXCEPT ![t] = Superseded(t)]
    /\ UNCHANGED <<task, tx>>

\* create_response_request: the view's copy may be older than a closure.
CreateResponseRequest(s) ==
    /\ task[s] = "NONE" /\ Unlocked(Parent[s]) /\ SaveAllowed(s)
    /\ task' = [task EXCEPT ![s] = "OPEN"]
    /\ UNCHANGED <<status, requests, tx>>

(***************************************************************************)

Opens(p) ==
    \/ OpensCancellation(p)
    \/ OpensUpdate(p)
    \/ OpensHardening(p)
    \/ OpensReview(p)

Step(p) ==
    /\ tx[p] # Idle
    /\ \/ \E r \in Rows : Acquire(p, r)
       \/ NowaitFails(p)
       \/ DeadlockDetected(p)
       \/ Decides(p)
       \/ CommitsCancellation(p)
       \/ CommitsRequest(p)
       \/ CommitsDecision(p)
       \/ CancellationRefused(p)
       \/ CommitsUpdate(p)
       \/ UpdateRefused(p)
       \/ CommitsHardening(p)
       \/ CommitsReview(p)

Next ==
    \/ \E p \in Procs : Opens(p) \/ Step(p)
    \/ \E t \in Tickets : Submits(t) \/ Closes(t)
    \/ \E s \in Subtasks : CreateResponseRequest(s)

Spec == Init /\ [][Next]_vars

(***************************************************************************)
(* Properties                                                              *)
(***************************************************************************)

\* No cancellation request waits for a decision on a case that has ended,
\* whichever way it ended while the request was on the manager's desk.
NoRequestOutlivesTicket ==
    \A t \in Tickets : status[t] \in TERMINAL_STATUSES => Pending(t) = 0

\* A cancelled ticket has no unfinished response request: none survives the
\* cancellation, none is raised or reopened by a form loaded before it.
CancelledHasNoOpenWork ==
    \A t \in Tickets : status[t] = "CANCELLED" => Outstanding(t) = {}

\* Nothing of a case that has ended waits for anybody.
NothingWaitsOnClosed == NoRequestOutlivesTicket /\ CancelledHasNoOpenWork

\* Nobody overwrites the work on a response request unseen: the team's DONE that
\* commits beside a manager's cancellation survives it, and an update replaces
\* the status its form was loaded with, the "before" of its audit row.
NothingOverwrittenUnseen ==
    [][/\ \A s \in Subtasks : task[s] = "DONE" => task'[s] # "CANCELLED"
       /\ \A p \in Procs :
            tx[p] # Idle /\ tx'[p] = Idle /\ tx[p].kind = "update" =>
                \A s \in tx[p].work : task'[s] # task[s] => task[s] = tx[p].loaded]_vars

\* Every ticket cancelled as a duplicate leads, from original to original, to a
\* ticket that was not: no set of cancelled tickets vouches for itself.
Duplicates(t) ==
    {requests[t][i].duplicate_of : i \in
        {j \in 1 .. MaxRequests : requests[t][j].status = "APPROVED"}} \ {NoTicket}

NoDuplicateCycle ==
    \A S \in SUBSET {t \in Tickets : status[t] = "CANCELLED"} :
        S # {} => \E t \in S : Duplicates(t) \cap S = {}

\* Deadlocks come from the response requests (locked before their ticket) and
\* from requests that name an original outside a project: cancellations that
\* decide, and Project Reviews, never wait for one another.
DecisionsDoNotDeadlock ==
    \A S \in SUBSET Open :
        Deadlocked(S) =>
            \E p \in S :
                \/ tx[p].kind \in {"update", "harden"}
                \/ tx[p].kind = "request" /\ tx[p].ticket \notin Members
=============================================================================
