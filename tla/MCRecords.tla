----------------------------- MODULE MCRecords -----------------------------
(***************************************************************************)
(* What is kept of a case, of its indicators and of the requests to the    *)
(* response teams: TLC instances of CaseFile, IocDatabase and              *)
(* ResponseRouting, which share no state.  A behaviour is one of `part':   *)
(* the other modules stay where they start.                                *)
(***************************************************************************)
EXTENDS CaseFile, IocDatabase, ResponseRouting, TLC

CONSTANTS ana, bo, cy, may, adm, i1, i2, r1, r2, q1, q2, ro, ru

Escalated(class) ==
    [status |-> "ESCALATED_T2", classification |-> class,
     classification_at_escalation |-> class, t1_route |-> "", assigned_admin |-> NoUser,
     is_emergency |-> FALSE, emergency_decided_by |-> NoUser, first_submitted |-> TRUE,
     escalated_to_t2 |-> TRUE, has_been_monitored |-> TRUE, t2_claimed_by |-> NoUser,
     verified_by |-> NoUser, approved_by |-> NoUser]

Handled(status, route, admin) ==
    [Escalated("INCIDENT") EXCEPT !.status = status, !.t1_route = route,
                                  !.assigned_admin = admin]

CaseTickets ==
    {Escalated("INCIDENT"), Escalated("EVENT"),
     Handled("AWAITING_CONTAINMENT", "ADMIN", adm), Handled("PENDING_T2_REVIEW", "OWNER", NoUser)}

Spelling == [plain |-> i1, defanged |-> i1, other |-> i2, garbled |-> Malformed]

\* ro holds a request of the retired Hardening type, or both have a function.
Profile(role, function) == [role |-> role, redteam_function |-> function, is_active |-> TRUE]

RoutedProfiles ==
    {ro :> Profile("REDTEAM_MANAGER", "") @@ ru :> Profile("FORENSIC", ""),
     ro :> Profile("REDTEAM_MANAGER", "HARDENING") @@ ru :> Profile("REDTEAM_MANAGER", "VA")}

Retired == [subtask_type |-> "INFRA_SEC", status |-> "IN_PROGRESS", assigned_to |-> ro]

RoutedRequests == {q1 :> Retired @@ q2 :> Unfiled}

VARIABLE part

RecordsInit ==
    /\ Init
    /\ IocInit
    /\ RoutingInit
    /\ part \in {"case", "indicators", "requests"}
    /\ part # "case" => ticket = Escalated("EVENT")
    /\ part # "requests" => profiles[ru].role = "FORENSIC"

RecordsNext ==
    \/ /\ part = "case" /\ Next
       /\ UNCHANGED <<ioc_vars, rvars, part>>
    \/ /\ part = "indicators" /\ IocNext
       /\ UNCHANGED <<vars, rvars, part>>
    \/ /\ part = "requests" /\ RoutingNext
       /\ UNCHANGED <<vars, ioc_vars, part>>

Records == RecordsInit /\ [][RecordsNext]_<<vars, ioc_vars, rvars, part>>

\* Bounds: a case that is rewritten often has a short timeline, and the other
\* way round; a request is slow beside a short timeline.  A second request to a
\* team is filed while the ticket is open and both accounts can sign in.
ChangeRows == Len(changes["text"]) + Len(changes["report"]) + Len(changes["result"])
Revised == {i \in DOMAIN log : log[i].revisions # <<>>}
Bounded ==
    /\ requests[q2] # Unfiled => stage = "open" /\ \A u \in {ro, ru} : profiles[u].is_active
    /\ ChangeRows + Cardinality(Revised) + Len(log) <= 5
    /\ slow # Idle => Len(log) <= 3

\* The marker is read by no step and no property.
View == <<ticket, content, changes, log, slow, held, decided, ioc_vars, rvars, part>>

Symmetry == Permutations({bo, cy}) \cup Permutations({r1, r2})
=============================================================================
