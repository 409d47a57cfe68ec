------------------------- MODULE MCProjectIncident -------------------------
(***************************************************************************)
(* TLC instances of ProjectIncident.                                       *)
(***************************************************************************)
EXTENDS ProjectIncident, TLC

Symmetry == Permutations(Members)

\* What of a member decides anything, here and later: a closed one only that it
\* is closed, an open one everything but the sign-offs.
Relevant(t) ==
    IF t = Absent THEN t
    ELSE IF t.status \in TERMINAL_STATUSES THEN "closed"
    ELSE [t EXCEPT !.verified_by = NoUser, !.approved_by = NoUser,
                   !.emergency_decided_by = NoUser]

\* The view used by the run project.
View ==
    <<[m \in Members |-> Relevant(member[m])], suffix, project, opened,
      apart \cap Open>>

\* A member where its report or the group's verdict put it, or closed.
Settled(m) ==
    LET t == member[m] IN
    \/ t.status \in TERMINAL_STATUSES
    \/ t.status = "ESCALATED_T2" /\ t.classification = "EVENT" /\ t.t1_route = ""
    \/ /\ t.status = "PENDING_MGR_TRIAGE" /\ t.classification = "INCIDENT"
       /\ ~t.escalated_to_t2 /\ ~decided
    \/ /\ t.status \in {"AWAITING_CONTAINMENT", "AWAITING_OWNER"}
       /\ m \notin apart /\ ~t.escalated_to_t2

\* Bounds: behaviours are not extended past two open members, past one of them
\* going on through its own workflow, or past one without a classification.
Bounded ==
    /\ Cardinality(Open) <= 2
    /\ Cardinality({m \in Reported : ~Settled(m)}) <= 1
    /\ \A m \in Reported : member[m].classification # ""
=============================================================================
