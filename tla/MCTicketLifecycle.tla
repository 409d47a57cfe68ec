------------------------- MODULE MCTicketLifecycle -------------------------
(***************************************************************************)
(* TLC instances of TicketLifecycle.                                       *)
(***************************************************************************)
EXTENDS TicketLifecycle

\* What a slow request can still do to the row.  An outdated copy is only
\* written whole by complete_t2_review; reassess_emergency and the
\* response-request services ask its status and emergency flag; every other
\* handler refuses it.
Prospect(q) ==
    IF q = Idle \/ q.fresh THEN q
    ELSE IF /\ "complete_t2_review" \in Races
            /\ works_tier2(q.user)
            /\ q.copy.status = "ESCALATED_T2"
    THEN q
    ELSE LET reassess == "reassess_emergency" \in Races /\ can_reassess_emergency(q.copy, q.user)
             respond  == /\ "response_request" \in Races
                         /\ is_soc_manager(q.user) \/ q.user \in Responders
         IN <<reassess, reassess /\ q.copy.is_emergency,
              respond /\ is_soc_manager(q.user) /\ q.copy.status \notin TERMINAL_STATUSES,
              respond /\ q.copy.status \notin {"APPROVED", "CANCELLED"}>>

\* The view used by the runs with slow requests.
View == <<row, work, [r \in Requests |-> Prospect(req[r])]>>

\* Bound: behaviours are not extended past a row left without a classification
\* (lifecycle_roles has no such bound).
Classified == row.classification # ""
=============================================================================
