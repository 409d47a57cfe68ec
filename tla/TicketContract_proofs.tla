----------------------- MODULE TicketContract_proofs -----------------------
(***************************************************************************)
(* TicketLifecycle implements TicketContract, for every set of accounts    *)
(* and of concurrent requests, as long as no Tier 2 review saves an        *)
(* outdated copy (run reopened_by_review shows one that does).             *)
(*                                                                         *)
(* The argument: the instances transition_to accepts are the ones whose    *)
(* updated_at is current, and a current copy agrees with the row in what   *)
(* the contract reads (FreshOK).  So every move is a legal move of the row *)
(* itself (CurrentMove), and each edge of the state machine is one step of *)
(* the contract or keeps its stage.                                        *)
(*                                                                         *)
(* Second half: the members of a Project Incident.  A member is written    *)
(* with its Project's row locked and as it is in the database, so each     *)
(* action is a move of current instances; what the shared verdict needs is *)
(* ProjectInv, and the same relation between tickets (ContractStep) that   *)
(* the first half proves of a single case holds of every member.           *)
(***************************************************************************)
EXTENDS TicketLifecycle_proofs, ProjectIncident

ReviewsAreCurrent == "complete_t2_review" \notin Races

\* The history and signatures of t are the row's, r, and so is the lane unless Tier 2
\* is choosing one.
Agrees(t, r) ==
    /\ t.status = r.status
    /\ t.first_submitted = r.first_submitted
    /\ t.escalated_to_t2 = r.escalated_to_t2
    /\ t.has_been_monitored = r.has_been_monitored
    /\ t.verified_by = r.verified_by
    /\ t.approved_by = r.approved_by
    /\ r.emergency_decided_by # NoUser =>
            t.emergency_decided_by = r.emergency_decided_by
    /\ t.status \notin {"ESCALATED_T2", "MONITORING"} =>
            t.t1_route = r.t1_route /\ t.assigned_admin = r.assigned_admin

\* A copy transition_to would accept.
FreshOK ==
    \A r \in Requests : req[r] # Idle /\ req[r].fresh => Agrees(req[r].copy, row)

\* A legal move of an instance that agrees with the row and its claim.
CurrentMove(u) ==
    \E t \in Ticket, s \in Statuses :
        /\ Sound(t)
        /\ Agrees(t, row)
        /\ t.t2_claimed_by = row.t2_claimed_by
        /\ ~t2_claim_blocks(t, u)
        /\ can_transition_to(t, s, hasOpenWork, "none")
        /\ MayDrive(t, s, u)
        /\ row' = Applied(t, s, u)
        /\ work' = work

-----------------------------------------------------------------------------
(***************************************************************************)
(* Every action of Transitions is a current move                           *)
(***************************************************************************)

\* A successful transition_to, of the request's copy with a choice made on it.
LEMMA TransitionToIsCurrent ==
    ASSUME row \in Ticket, NEW q \in Request, NEW c \in Ticket, Sound(c),
           q.fresh => Agrees(c, row), NEW s \in Statuses, TransitionTo(q, c, s)
    PROVE  CurrentMove(q.user)
<1> DEFINE locked == [c EXCEPT !.t2_claimed_by = row.t2_claimed_by]
<1>1. /\ locked \in Ticket
      /\ locked.status = c.status
      /\ locked.first_submitted = c.first_submitted
      /\ locked.t1_route = c.t1_route
      /\ locked.assigned_admin = c.assigned_admin
      /\ locked.escalated_to_t2 = c.escalated_to_t2
      /\ locked.has_been_monitored = c.has_been_monitored
      /\ locked.emergency_decided_by = c.emergency_decided_by
      /\ locked.verified_by = c.verified_by
      /\ locked.approved_by = c.approved_by
      /\ locked.t2_claimed_by = row.t2_claimed_by
  BY DEF Ticket
<1>2. /\ ~t2_claim_blocks(locked, q.user)
      /\ can_transition_to(locked, s, hasOpenWork, "none")
      /\ MayDrive(locked, s, q.user)
      /\ row' = Applied(locked, s, q.user)
      /\ work' = work
      /\ q.fresh
  BY DEF TransitionTo
<1> HIDE DEF locked
<1>3. Sound(locked)
  BY <1>1, SameColumns
<1>4. Agrees(locked, row)
  BY <1>1, <1>2 DEF Agrees
<1> QED
  BY <1>1, <1>2, <1>3, <1>4 DEF CurrentMove

\* The copy with a classification, an assessment or a lane chosen on it still agrees.
LEMMA ChoicesAgree ==
    ASSUME NEW r, NEW t \in Ticket, Agrees(t, r)
    PROVE  /\ \A k \in Classifications : Agrees([t EXCEPT !.classification = k], r)
           /\ \A e \in BOOLEAN, m \in Users \cup {NoUser} :
                (t.emergency_decided_by # NoUser => m = t.emergency_decided_by)
                => Agrees([t EXCEPT !.is_emergency = e, !.emergency_decided_by = m], r)
           /\ t.status \in {"ESCALATED_T2", "MONITORING"} =>
                \A d \in WithLane(t) : /\ d \in Ticket
                                       /\ d.t2_claimed_by = t.t2_claimed_by
                                       /\ Agrees(d, r)
<1>1. ASSUME NEW k \in Classifications
      PROVE  Agrees([t EXCEPT !.classification = k], r)
  BY DEF Agrees, Ticket
<1>2. ASSUME NEW e \in BOOLEAN, NEW m \in Users \cup {NoUser},
             t.emergency_decided_by # NoUser => m = t.emergency_decided_by
      PROVE  Agrees([t EXCEPT !.is_emergency = e, !.emergency_decided_by = m], r)
  BY <1>2 DEF Agrees, Ticket
<1>3. ASSUME t.status \in {"ESCALATED_T2", "MONITORING"}, NEW d \in WithLane(t)
      PROVE  d \in Ticket /\ d.t2_claimed_by = t.t2_claimed_by /\ Agrees(d, r)
  <2>1. CASE d = [t EXCEPT !.t1_route = "OWNER"]
    BY <1>3, <2>1 DEF Agrees, Ticket, Routes
  <2>2. ASSUME NEW a \in SysAdmins,
               d = [t EXCEPT !.t1_route = "ADMIN", !.assigned_admin = a]
        PROVE  d \in Ticket /\ d.t2_claimed_by = t.t2_claimed_by /\ Agrees(d, r)
    <3>1. a \in Users
      BY AccountsAssumption
    <3> QED
      BY <1>3, <2>2, <3>1 DEF Agrees, Ticket, Routes
  <2> QED
    BY <2>1, <2>2 DEF WithLane
<1> QED
  BY <1>1, <1>2, <1>3

\* So does what Tier 2's decision form makes of an escalated ticket.
LEMMA DecisionsAgree ==
    ASSUME NEW r \in Ticket, Sound(r), r.status = "ESCALATED_T2", NEW d \in T2Decisions(r)
    PROVE  /\ d[1] \in Ticket
           /\ Sound(d[1])
           /\ Agrees(d[1], r)
           /\ d[1].t2_claimed_by = r.t2_claimed_by
           /\ d[1].is_emergency = r.is_emergency
           /\ d[2] \in Statuses
<1> DEFINE Goal == /\ d[1] \in Ticket
                   /\ Sound(d[1])
                   /\ Agrees(d[1], r)
                   /\ d[1].t2_claimed_by = r.t2_claimed_by
                   /\ d[1].is_emergency = r.is_emergency
                   /\ d[2] \in Statuses
<1>1. {"EVENT", "INCIDENT"} \subseteq Classifications
  BY DEF Classifications
<1>2. Agrees(r, r)
  BY DEF Agrees
<1>3. CASE /\ d[1] = [r EXCEPT !.classification = "EVENT"]
           /\ d[2] \in {"PENDING_MGR_EVENT_REVIEW", "CLOSED_EVENT"}
  <2> DEFINE n == [r EXCEPT !.classification = "EVENT"]
  <2>1. /\ n \in Ticket /\ Sound(n) /\ Agrees(n, r)
        /\ n.t2_claimed_by = r.t2_claimed_by /\ n.is_emergency = r.is_emergency
    BY <1>1, <1>2, ReclassifiedSound, ChoicesAgree
  <2>2. d[1] = n
    BY <1>3
  <2> HIDE DEF n
  <2> QED
    BY <1>3, <2>1, <2>2
    DEF Statuses, TERMINAL_STATUSES, RESOLVED_STATUSES, MANAGER_QUEUE_STATUSES
<1>4. ASSUME NEW e \in WithLane(r),
             d = <<[e EXCEPT !.classification = "INCIDENT"], "PENDING_MGR_TRIAGE">>
      PROVE  Goal
  <2>1. /\ e \in Ticket /\ Sound(e) /\ Agrees(e, r)
        /\ e.t2_claimed_by = r.t2_claimed_by /\ e.is_emergency = r.is_emergency
    BY <1>2, RelanedSound, ChoicesAgree
  <2> DEFINE n == [e EXCEPT !.classification = "INCIDENT"]
  <2>2. /\ n \in Ticket /\ Sound(n) /\ Agrees(n, r)
        /\ n.t2_claimed_by = e.t2_claimed_by /\ n.is_emergency = e.is_emergency
    BY <1>1, <2>1, ReclassifiedSound, ChoicesAgree
  <2> HIDE DEF n
  <2>3. d[1] = n /\ d[2] = "PENDING_MGR_TRIAGE"
    BY <1>4 DEF n
  <2> QED
    BY <2>1, <2>2, <2>3 DEF Statuses, MANAGER_QUEUE_STATUSES
<1> QED
  BY <1>3, <1>4 DEF T2Decisions

\* complete_t2_review, of a copy that is the row.
LEMMA ReviewIsCurrent ==
    ASSUME ReviewsAreCurrent, row \in Ticket, Sound(row), NEW q \in Request,
           CompleteT2Review(q)
    PROVE  CurrentMove(q.user)
<1>1. q.copy = row /\ row.status = "ESCALATED_T2"
  BY DEF CompleteT2Review, ReviewsAreCurrent
<1>2. PICK d \in T2Decisions(row) :
        /\ ~t2_claim_blocks(d[1], q.user)
        /\ can_transition_to(d[1], d[2], hasOpenWork, "none")
        /\ MayDrive(d[1], d[2], q.user)
        /\ row' = Applied(d[1], d[2], q.user)
  BY <1>1 DEF CompleteT2Review
<1>3. work' = work
  BY DEF CompleteT2Review
<1> QED
  BY <1>1, <1>2, <1>3, DecisionsAgree DEF CurrentMove

\* Every handler that moves the ticket along an edge.
LEMMA TransitionsAreCurrent ==
    ASSUME ReviewsAreCurrent, row \in Ticket, Sound(row), NEW q \in Request,
           Sound(q.copy), q.fresh => Agrees(q.copy, row), Transitions(q)
    PROVE  CurrentMove(q.user)
<1>1. q.copy \in Ticket
  BY DEF Request
<1>2. {"EVENT", "INCIDENT"} \subseteq Classifications
  BY DEF Classifications
<1> USE <1>1 DEF Statuses, TERMINAL_STATUSES, RESOLVED_STATUSES, TIER2_QUEUE_STATUSES,
                MANAGER_QUEUE_STATUSES
<1>3. CASE SubmitPreparation(q)
  <2>1. submission_target(q.copy) \in Statuses
    BY DEF submission_target
  <2> QED
    BY <1>3, <2>1, TransitionToIsCurrent DEF SubmitPreparation
<1>4. CASE ReturnForCompletion(q)
  <2>1. manager_return_target(q.copy) \in Statuses
    BY DEF manager_return_target
  <2> QED
    BY <1>4, <2>1, TransitionToIsCurrent DEF ReturnForCompletion
<1>5. CASE ManagerForward(q)
  <2> DEFINE by == IF q.copy.emergency_decided_by = NoUser THEN q.user
                   ELSE q.copy.emergency_decided_by
  <2>1. PICK emergency \in BOOLEAN, s \in {"AWAITING_OWNER", "AWAITING_CONTAINMENT"} :
          TransitionTo(q, [q.copy EXCEPT !.is_emergency = emergency,
                                         !.emergency_decided_by = by], s)
    BY <1>5 DEF ManagerForward
  <2>2. /\ by \in Users \cup {NoUser}
        /\ q.copy.emergency_decided_by # NoUser => by = q.copy.emergency_decided_by
    BY DEF Ticket, Request
  <2> HIDE DEF by
  <2> DEFINE n == [q.copy EXCEPT !.is_emergency = emergency, !.emergency_decided_by = by]
  <2>3. n \in Ticket /\ Sound(n) /\ (q.fresh => Agrees(n, row))
    <3>1. n \in Ticket /\ Sound(n)
      BY <2>2, AssessedSound
    <3>2. ASSUME Agrees(q.copy, row)
          PROVE  Agrees(n, row)
      BY <2>2, <3>2, ChoicesAgree
    <3> QED
      BY <3>1, <3>2
  <2>4. TransitionTo(q, n, s)
    BY <2>1
  <2> HIDE DEF n
  <2> QED
    BY <2>3, <2>4, TransitionToIsCurrent
<1>6. CASE StepBack(q)
  <2>1. step_back_target(q.copy) \in Statuses
    BY DEF step_back_target
  <2> QED
    BY <1>6, <2>1, TransitionToIsCurrent DEF StepBack
<1>7. CASE CompleteT2Review(q)
  BY <1>7, ReviewIsCurrent
<1>8. CASE StartMonitoring(q)
  BY <1>8, TransitionToIsCurrent DEF StartMonitoring
<1>9. CASE ConcludeAsIncident(q)
  <2>1. PICK d \in WithLane(q.copy) :
          TransitionTo(q, [d EXCEPT !.classification = "INCIDENT"], "PENDING_MGR_TRIAGE")
    BY <1>9 DEF ConcludeAsIncident
  <2>2. q.copy.status = "MONITORING"
    BY <1>9 DEF ConcludeAsIncident
  <2>3. d \in Ticket /\ Sound(d) /\ (q.fresh => Agrees(d, row))
    BY <2>2, RelanedSound, ChoicesAgree
  <2> DEFINE n == [d EXCEPT !.classification = "INCIDENT"]
  <2>4. n \in Ticket /\ Sound(n) /\ (q.fresh => Agrees(n, row))
    BY <1>2, <2>3, ReclassifiedSound, ChoicesAgree
  <2>5. TransitionTo(q, n, "PENDING_MGR_TRIAGE")
    BY <2>1
  <2> HIDE DEF n
  <2> QED
    BY <2>4, <2>5, TransitionToIsCurrent
<1>10. ASSUME NEW s \in Statuses,
              TransitionTo(q, [q.copy EXCEPT !.classification = "EVENT"], s)
       PROVE  CurrentMove(q.user)
  <2> DEFINE n == [q.copy EXCEPT !.classification = "EVENT"]
  <2>1. n \in Ticket /\ Sound(n) /\ (q.fresh => Agrees(n, row))
    BY <1>2, ReclassifiedSound, ChoicesAgree
  <2>2. TransitionTo(q, n, s)
    BY <1>10
  <2> HIDE DEF n
  <2> QED
    BY <2>1, <2>2, TransitionToIsCurrent
<1>11. CASE ConcludeAsEvent(q)
  BY <1>10, <1>11 DEF ConcludeAsEvent
<1>12. CASE ReclassifyAsEvent(q)
  BY <1>10, <1>12 DEF ReclassifyAsEvent
<1>13. CASE SubmitContainment(q)
  BY <1>13, TransitionToIsCurrent DEF SubmitContainment
<1>14. CASE WorkflowAction(q)
  BY <1>14, TransitionToIsCurrent DEF WorkflowAction
<1> QED
  BY <1>3, <1>4, <1>5, <1>6, <1>7, <1>8, <1>9, <1>11, <1>12, <1>13, <1>14 DEF Transitions

\* The only copies in use: a prompt request's, which is the row, and those in flight.
LEMMA ServeIsCurrent ==
    ASSUME ReviewsAreCurrent, IInv, FreshOK, NEW u \in Users, ActsAs(u)
    PROVE  \/ CurrentMove(u)
           \/ \E r \in Request : ReassessEmergency(r)
           \/ row' = row
           \/ EditTicket(u)
           \/ CancelDirectly(u)
           \/ ClaimTier2Ticket(u)
           \/ ReleaseEscalation(u)
<1>0. row \in Ticket /\ Sound(row)
  BY DEF IInv, RowOK
<1>1. ASSUME NEW q \in Request, Sound(q.copy), q.user = u, q.fresh => Agrees(q.copy, row),
             NEW done, Serve(q, done)
      PROVE  \/ CurrentMove(u)
             \/ \E r \in Request : ReassessEmergency(r)
             \/ row' = row
  <2>1. CASE Transitions(q)
    BY <1>0, <1>1, <2>1, TransitionsAreCurrent
  <2>2. CASE ReassessEmergency(q)
    BY <2>2
  <2>3. CASE CreateResponseRequest(q) \/ UpdateSubtask(q)
    BY <2>3 DEF CreateResponseRequest, UpdateSubtask, SavesSubtask
  <2> QED
    BY <1>1, <2>1, <2>2, <2>3 DEF Serve
<1>2. CASE Serve(Prompt(u), {})
  <2>1. /\ Prompt(u) \in Request
        /\ Prompt(u).copy = row
        /\ Prompt(u).user = u
    BY <1>0 DEF Prompt, Request
  <2>2. Agrees(Prompt(u).copy, row)
    BY <2>1 DEF Agrees
  <2> QED
    BY <1>0, <1>1, <1>2, <2>1, <2>2
<1>3. ASSUME NEW r \in InFlight, req[r].user = u, Serve(req[r], {r})
      PROVE  \/ CurrentMove(u)
             \/ \E x \in Request : ReassessEmergency(x)
             \/ row' = row
  <2>1. /\ req[r] \in Request
        /\ Sound(req[r].copy)
        /\ req[r].fresh => Agrees(req[r].copy, row)
    BY DEF InFlight, IInv, CopiesOK, FreshOK
  <2> QED
    BY <1>1, <1>3, <2>1
<1> QED
  BY <1>2, <1>3 DEF ActsAs

-----------------------------------------------------------------------------
(***************************************************************************)
(* The copies transition_to would accept stay in agreement with the row    *)
(***************************************************************************)

LEMMA InitFresh == Init => FreshOK
  BY DEF Init, FreshOK

LEMMA NextFresh ==
    ASSUME IInv, FreshOK, [Next]_vars
    PROVE  FreshOK'
<1>1. ASSUME NEW done, req' = Outdated(done)
      PROVE  FreshOK'
  <2>1. ASSUME NEW r \in Requests, req'[r] # Idle
        PROVE  ~req'[r].fresh
    <3>1. req[r] \in Request /\ req'[r] = [req[r] EXCEPT !.fresh = FALSE]
      BY <1>1, <2>1 DEF Outdated, IInv, CopiesOK
    <3> QED
      BY <3>1 DEF Request
  <2> QED
    BY <2>1 DEF FreshOK
<1>2. ASSUME NEW done, req' = Ended(done), row' = row
      PROVE  FreshOK'
  BY <1>2 DEF FreshOK, Ended, Agrees
<1>3. ASSUME NEW u \in Users, ClaimTier2Ticket(u) \/ ReleaseEscalation(u), req' = req
      PROVE  FreshOK'
  <2>1. \E c : row' = [row EXCEPT !.t2_claimed_by = c]
    BY <1>3 DEF ClaimTier2Ticket, ReleaseEscalation
  <2>2. \A f \in {"status", "first_submitted", "escalated_to_t2", "has_been_monitored",
                  "verified_by", "approved_by", "emergency_decided_by", "t1_route",
                  "assigned_admin"} : row'[f] = row[f]
    BY <2>1 DEF IInv, RowOK, Ticket
  <2>3. ASSUME NEW t, Agrees(t, row)
        PROVE  Agrees(t, row)'
    BY <2>2, <2>3 DEF Agrees
  <2> QED
    BY <1>3, <2>3 DEF FreshOK
<1>4. ASSUME NEW u \in Users, ActsAs(u)
      PROVE  FreshOK'
  BY <1>1, <1>2, <1>3, <1>4
  DEF ActsAs, Serve, CreateResponseRequest, UpdateSubtask, SavesSubtask
<1>5. ASSUME NEW r \in Requests, NEW u \in Users, Load(r, u)
      PROVE  FreshOK'
  <2>1. /\ req' = [req EXCEPT ![r] = Prompt(u)]
        /\ row' = row
    BY <1>5 DEF Load
  <2>2. Agrees(Prompt(u).copy, row)
    BY DEF Prompt, Agrees
  <2>3. ASSUME NEW x \in Requests, req'[x] # Idle, req'[x].fresh
        PROVE  Agrees(req'[x].copy, row)
    BY <2>1, <2>2, <2>3 DEF FreshOK, IInv, CopiesOK
  <2> QED
    BY <2>1, <2>3 DEF FreshOK, Agrees
<1>6. ASSUME NEW r \in Requests, Refused(r)
      PROVE  FreshOK'
  BY <1>2, <1>6 DEF Refused
<1>7. CASE UNCHANGED vars
  BY <1>7 DEF vars, FreshOK, Agrees
<1> QED
  BY <1>4, <1>5, <1>6, <1>7 DEF Next

\* Both invariants hold in every reachable state.
LEMMA FreshInvariance == Spec => [](IInv /\ FreshOK)
<1>1. Init => IInv /\ FreshOK
  BY InitIInv, InitFresh
<1>2. IInv /\ FreshOK /\ [Next]_vars => (IInv /\ FreshOK)'
  BY NextIInv, NextFresh
<1> QED
  BY <1>1, <1>2, PTL DEF Spec
-----------------------------------------------------------------------------
(***************************************************************************)
(* What a step does to the columns the contract and the decisions are      *)
(***************************************************************************)

\* Edits, reassessments, claims and cancellation, against the moves.
LEMMA RowSteps ==
    ASSUME ReviewsAreCurrent, IInv, FreshOK, [Next]_vars
    PROVE  \/ \E u \in Users : CurrentMove(u)
           \/ /\ row' \in Ticket
              /\ row'.status = "CANCELLED"
              /\ row.status \notin TERMINAL_STATUSES
              /\ \A f \in {"first_submitted", "escalated_to_t2", "has_been_monitored",
                           "verified_by", "approved_by", "emergency_decided_by"} :
                    row'[f] = row[f]
           \/ /\ row' \in Ticket
              /\ \A f \in {"status", "first_submitted", "escalated_to_t2",
                           "has_been_monitored", "verified_by", "approved_by",
                           "emergency_decided_by"} : row'[f] = row[f]
              /\ row.status # "NEW" => /\ row'.t1_route = row.t1_route
                                       /\ row'.assigned_admin = row.assigned_admin
<1> DEFINE Kept == /\ row' \in Ticket
                   /\ \A f \in {"status", "first_submitted", "escalated_to_t2",
                                "has_been_monitored", "verified_by", "approved_by",
                                "emergency_decided_by"} : row'[f] = row[f]
                   /\ row.status # "NEW" => /\ row'.t1_route = row.t1_route
                                            /\ row'.assigned_admin = row.assigned_admin
<1>0. row \in Ticket /\ NoUser \in Users \cup {NoUser} /\ "CANCELLED" \in Statuses
  BY DEF IInv, RowOK, Statuses, TERMINAL_STATUSES
<1>1. ASSUME row' = row
      PROVE  Kept
  BY <1>0, <1>1
<1>2. ASSUME NEW e \in BOOLEAN, row' = [row EXCEPT !.is_emergency = e]
      PROVE  Kept
  BY <1>0, <1>2 DEF Ticket
<1>3. ASSUME NEW r \in Request, ReassessEmergency(r)
      PROVE  Kept
  <2> DEFINE e == ~r.copy.is_emergency
  <2>1. row' = [row EXCEPT !.is_emergency = e] /\ e \in BOOLEAN
    BY <1>3 DEF ReassessEmergency
  <2> HIDE DEF e, Kept
  <2> QED
    BY <2>1, <1>2
<1>4. ASSUME NEW u \in Users, ClaimTier2Ticket(u) \/ ReleaseEscalation(u)
      PROVE  Kept
  <2>1. PICK c \in Users \cup {NoUser} : row' = [row EXCEPT !.t2_claimed_by = c]
    BY <1>0, <1>4 DEF ClaimTier2Ticket, ReleaseEscalation
  <2> QED
    BY <1>0, <2>1 DEF Ticket
<1>5. ASSUME NEW u \in Users, EditTicket(u)
      PROVE  Kept
  <2>1. CASE row.status = "NEW" /\ row' \in Prepared(row, TRUE)
    <3>1. PICK k \in Classifications, l \in Routes, a \in SysAdmins \cup {NoUser} :
            row' = With(row, k, l, a)
      BY <2>1 DEF Prepared, Classifications, Routes
    <3>2. a \in Users \cup {NoUser}
      BY AccountsAssumption
    <3> QED
      BY <1>0, <2>1, <3>1, <3>2 DEF With, Ticket
  <2>2. CASE \E k \in Classifications : row' = [row EXCEPT !.classification = k]
    BY <1>0, <2>2 DEF Ticket
  <2> QED
    BY <1>5, <2>1, <2>2 DEF EditTicket
<1>6. ASSUME NEW u \in Users, CancelDirectly(u)
      PROVE  /\ row' \in Ticket
             /\ row'.status = "CANCELLED"
             /\ row.status \notin TERMINAL_STATUSES
             /\ \A f \in {"first_submitted", "escalated_to_t2", "has_been_monitored",
                          "verified_by", "approved_by", "emergency_decided_by"} :
                   row'[f] = row[f]
  BY <1>0, <1>6 DEF CancelDirectly, can_cancel_directly, Ticket
<1> HIDE DEF Kept
<1>7. ASSUME NEW u \in Users, ActsAs(u)
      PROVE  \/ CurrentMove(u)
             \/ CancelDirectly(u)
             \/ Kept
  BY <1>1, <1>3, <1>4, <1>5, <1>7, ServeIsCurrent
<1>8. CASE UNCHANGED row
  BY <1>1, <1>8 DEF Kept
<1> QED
  BY <1>6, <1>7, <1>8 DEF Next, Load, Refused, vars, Kept

\* Ticket n is what a move to status s by u makes of ticket r.
Moved(r, n, s, u) ==
    /\ <<r.status, s>> \in ALLOWED_TRANSITIONS
    /\ <<r.status, s>> \in MANAGER_RETURN_EDGES => s = manager_return_target(r)
    /\ n \in Ticket
    /\ Sound(n)
    /\ n.status = s
    /\ r.first_submitted => n.first_submitted
    /\ n.escalated_to_t2 <=> \/ r.escalated_to_t2
                             \/ s = "ESCALATED_T2"
                             \/ r.status \in {"ESCALATED_T2", "MONITORING"}
    /\ r.has_been_monitored => n.has_been_monitored
    /\ n.verified_by = verified_by_after(r, s, u)
    /\ n.approved_by = IF r.approved_by = NoUser /\ s = "APPROVED" THEN u ELSE r.approved_by
    /\ r.emergency_decided_by # NoUser => n.emergency_decided_by = r.emergency_decided_by
    /\ r.status \notin {"ESCALATED_T2", "MONITORING"} =>
            n.t1_route = r.t1_route /\ n.assigned_admin = r.assigned_admin

\* What a move of an instance t makes of the row r it agrees with.
LEMMA MoveColumns ==
    ASSUME NEW r, NEW t \in Ticket, Sound(t), Agrees(t, r), NEW s \in Statuses,
           NEW u \in Users, NEW openWork, NEW group,
           can_transition_to(t, s, openWork, group), MayDrive(t, s, u)
    PROVE  Moved(r, Applied(t, s, u), s, u)
<1> DEFINE n == Applied(t, s, u)
<1>2. /\ n \in Ticket
      /\ n.status = s
      /\ n.t1_route = t.t1_route
      /\ n.assigned_admin = t.assigned_admin
      /\ n.escalated_to_t2 <=> \/ t.escalated_to_t2
                               \/ s = "ESCALATED_T2"
                               \/ t.status \in {"ESCALATED_T2", "MONITORING"}
      /\ n.has_been_monitored <=> (t.has_been_monitored \/ s = "MONITORING")
      /\ n.verified_by = verified_by_after(t, s, u)
      /\ n.approved_by = IF t.approved_by = NoUser /\ s = "APPROVED" THEN u
                         ELSE t.approved_by
  BY AppliedColumns
<1>3. /\ n.emergency_decided_by = t.emergency_decided_by
      /\ t.first_submitted => n.first_submitted
  BY DEF Applied, Stamped, Ticket
<1>4. Sound(n)
  BY MoveSound
<1>5. verified_by_after(t, s, u) = verified_by_after(r, s, u)
  BY DEF Agrees, verified_by_after
<1>6. /\ <<r.status, s>> \in ALLOWED_TRANSITIONS
      /\ <<r.status, s>> \in MANAGER_RETURN_EDGES => s = manager_return_target(r)
  BY DEF can_transition_to, Agrees, manager_return_target
<1> HIDE DEF n
<1>7. Moved(r, n, s, u)
  BY <1>2, <1>3, <1>4, <1>5, <1>6 DEF Agrees, Moved
<1> QED
  BY <1>7 DEF n

LEMMA CurrentMoved ==
    ASSUME NEW u \in Users, CurrentMove(u)
    PROVE  \E s \in Statuses : Moved(row, row', s, u)
<1>1. PICK t \in Ticket, s \in Statuses :
        /\ Sound(t)
        /\ Agrees(t, row)
        /\ can_transition_to(t, s, hasOpenWork, "none")
        /\ MayDrive(t, s, u)
        /\ row' = Applied(t, s, u)
  BY DEF CurrentMove
<1> QED
  BY <1>1, MoveColumns

\* Who decided what, and what happened to the case, is never overwritten.
THEOREM DecisionsStay ==
    ASSUME ReviewsAreCurrent
    PROVE  Spec => DecisionsAreKept
<1> DEFINE Kept ==
        /\ \A f \in {"verified_by", "approved_by", "emergency_decided_by"} :
              row[f] # NoUser => row'[f] = row[f]
        /\ \A f \in {"first_submitted", "escalated_to_t2", "has_been_monitored"} :
              row[f] => row'[f]
<1>1. ASSUME IInv, FreshOK, [Next]_vars
      PROVE  Kept
  <2>1. ASSUME NEW u \in Users, CurrentMove(u)
        PROVE  Kept
    BY <1>1, <2>1, CurrentMoved DEF Moved, verified_by_after
  <2> QED
    BY <1>1, <2>1, RowSteps
<1>2. IInv /\ FreshOK /\ [Next]_vars => [Kept]_vars
  BY <1>1
<1> QED
  BY <1>2, FreshInvariance, PTL DEF Spec, DecisionsAreKept

\* The other Tier 2 analysts keep their hands off a claimed case.
THEOREM ClaimsAreHonoured ==
    ASSUME ReviewsAreCurrent
    PROVE  Spec => ClaimHonoured
<1> DEFINE Honoured ==
        \A u \in Tier2 \ Superusers :
            /\ row.status \in TIER2_QUEUE_STATUSES
            /\ row.t2_claimed_by \notin {NoUser, u}
            /\ ActsAs(u)
            => \/ row'.status = "CANCELLED"
               \/ \E e \in BOOLEAN : row' = [row EXCEPT !.is_emergency = e]
<1>1. ASSUME IInv, FreshOK, NEW u \in Tier2 \ Superusers, ActsAs(u),
             row.status \in TIER2_QUEUE_STATUSES, row.t2_claimed_by \notin {NoUser, u}
      PROVE  \/ row'.status = "CANCELLED"
             \/ \E e \in BOOLEAN : row' = [row EXCEPT !.is_emergency = e]
  <2>0. row \in Ticket /\ u \in Users
    BY <1>1, AccountsAssumption DEF IInv, RowOK
  <2>1. t2_claim_blocks(row, u)
    BY <1>1 DEF t2_claim_blocks
  <2>2. ~CurrentMove(u)
    BY <1>1, <2>1 DEF CurrentMove, Agrees, t2_claim_blocks
  <2>3. ASSUME NEW r \in Request, ReassessEmergency(r)
        PROVE  \E e \in BOOLEAN : row' = [row EXCEPT !.is_emergency = e]
    <3>1. (~r.copy.is_emergency) \in BOOLEAN
      OBVIOUS
    <3> QED
      BY <2>3, <3>1 DEF ReassessEmergency
  <2>4. ASSUME row' = row
        PROVE  \E e \in BOOLEAN : row' = [row EXCEPT !.is_emergency = e]
    <3>1. row.is_emergency \in BOOLEAN /\ row = [row EXCEPT !.is_emergency = row.is_emergency]
      BY <2>0 DEF Ticket
    <3> QED
      BY <2>4, <3>1
  <2>5. ~EditTicket(u)
    BY <1>1, <2>1 DEF EditTicket, can_edit_ticket, TIER2_QUEUE_STATUSES
  <2>6. ASSUME CancelDirectly(u)
        PROVE  row'.status = "CANCELLED"
    BY <2>0, <2>6 DEF CancelDirectly, Ticket
  <2>7. ~ClaimTier2Ticket(u) /\ ~ReleaseEscalation(u)
    BY <1>1 DEF ClaimTier2Ticket, ReleaseEscalation
  <2> QED
    BY <1>1, <2>0, <2>2, <2>3, <2>4, <2>5, <2>6, <2>7, ServeIsCurrent
<1>2. IInv /\ FreshOK /\ [Next]_vars => [Honoured]_vars
  BY <1>1
<1> QED
  BY <1>2, FreshInvariance, PTL DEF Spec, ClaimHonoured
-----------------------------------------------------------------------------
(***************************************************************************)
(* The refinement                                                          *)
(***************************************************************************)

\* Where each status stands in the contract.
LEMMA Stages ==
    ASSUME NEW t \in Ticket
    PROVE  /\ t.status = "NEW" => StageOf(t) = "preparation"
           /\ t.status \in {"ESCALATED_T2", "MONITORING"} => StageOf(t) = "tier2"
           /\ t.status = "PENDING_MGR_EVENT_REVIEW" => StageOf(t) = "event_review"
           /\ t.status = "PENDING_MGR_TRIAGE" => StageOf(t) = "manager"
           /\ t.status \in {"AWAITING_CONTAINMENT", "AWAITING_OWNER",
                            "OWNER_REMEDIATED"} => StageOf(t) = "handling"
           /\ t.status \in {"CONTAINMENT_REPORTED", "PENDING_T2_REVIEW"} =>
                StageOf(t) = "verification"
           /\ t.status = "PENDING_MANAGER" => StageOf(t) = "approval"
           /\ t.status = "APPROVED" => StageOf(t) = "approved"
           /\ t.status = "CLOSED_EVENT" => StageOf(t) = "closed_event"
           /\ t.status = "CANCELLED" => StageOf(t) = "cancelled"
  BY DEF StageOf, VerificationStatuses

\* The lane of a case the manager sees is one of the lanes.
LEMMA LaneIsALane ==
    ASSUME NEW t \in Ticket, Sound(t), t.status = "PENDING_MGR_TRIAGE"
    PROVE  <<t.t1_route, t.assigned_admin>> \in HandlingLanes
  BY DEF Sound, LaneOK, has_handling_lane, HandlingLanes

\* A case in no lane: the contract's NoLane.
LEMMA LaneTable ==
    ASSUME NEW t \in Ticket
    PROVE  LaneOf(t) = IF StageOf(t) \in Contract!RoutedStages
                       THEN <<t.t1_route, t.assigned_admin>> ELSE NoLane
  BY DEF LaneOf, Contract!RoutedStages

\* What the contract sees of a ticket stays as it is.
SameContract(r, n) ==
    /\ StageOf(n) = StageOf(r)
    /\ LaneOf(n) = LaneOf(r)
    /\ n.escalated_to_t2 = r.escalated_to_t2
    /\ SignedOn(n) = SignedOn(r)

\* Contract!Next as a relation between two tickets, so that it can be used of the
\* ticket and of the members of a project alike.
StageMoves(r, n, from, to) ==
    /\ StageOf(r) = from
    /\ StageOf(n) = to
    /\ LaneOf(n) = IF to \in Contract!RoutedStages THEN LaneOf(r) ELSE NoLane
    /\ n.escalated_to_t2 = (r.escalated_to_t2 \/ to = "tier2")

KeepingMoves ==
    {<<"preparation", "tier2">>, <<"tier2", "event_review">>, <<"event_review", "tier2">>,
     <<"manager", "handling">>, <<"handling", "verification">>,
     <<"verification", "handling">>, <<"handling", "manager">>,
     <<"approval", "verification">>}
        \cup ({"tier2", "event_review", "verification"} \X {"closed_event"})
        \cup (Contract!OpenStages \X {"cancelled"})

SigningMoves ==
    {<<"verification", "approval", {"verified"}>>,
     <<"verification", "approved", {"verified", "approved"}>>,
     <<"approval", "approved", {"approved"}>>}

ContractStep(r, n) ==
    \/ /\ \E e \in KeepingMoves : StageMoves(r, n, e[1], e[2])
       /\ SignedOn(n) = SignedOn(r)
    \/ \E e \in SigningMoves :
          StageMoves(r, n, e[1], e[2]) /\ SignedOn(n) = SignedOn(r) \cup e[3]
    \/ /\ StageMoves(r, n, "manager", IF r.escalated_to_t2 THEN "tier2" ELSE "preparation")
       /\ SignedOn(n) = SignedOn(r)
    \/ /\ StageOf(r) \in {"preparation", "tier2"} /\ StageOf(n) = "manager"
       /\ LaneOf(n) \in HandlingLanes
       /\ n.escalated_to_t2 = r.escalated_to_t2
       /\ SignedOn(n) = SignedOn(r)

\* The status and the seven columns decide what the contract sees.
LEMMA SameColumnsSameContract ==
    ASSUME NEW r \in Ticket, NEW n \in Ticket, n.status = r.status,
           n.escalated_to_t2 = r.escalated_to_t2,
           n.verified_by = r.verified_by,
           n.approved_by = r.approved_by,
           r.status # "NEW" => n.t1_route = r.t1_route /\ n.assigned_admin = r.assigned_admin
    PROVE  SameContract(r, n)
<1>1. StageOf(n) = StageOf(r)
  BY DEF StageOf
<1>2. LaneOf(n) = LaneOf(r)
  <2>1. r.status = "NEW" => StageOf(r) = "preparation"
    BY Stages
  <2> QED
    BY <1>1, <2>1 DEF LaneOf
<1>3. SignedOn(n) = SignedOn(r)
  BY DEF SignedOn
<1> QED
  BY <1>1, <1>2, <1>3 DEF SameContract

\* A cancellation.
LEMMA CancelSteps ==
    ASSUME NEW r \in Ticket, NEW n \in Ticket, n.status = "CANCELLED",
           r.status \notin TERMINAL_STATUSES,
           n.escalated_to_t2 = r.escalated_to_t2,
           n.verified_by = r.verified_by,
           n.approved_by = r.approved_by
    PROVE  ContractStep(r, n)
<1>1. StageOf(n) = "cancelled"
  BY Stages
<1>2. StageOf(r) \in Contract!OpenStages
  BY Stages
  DEF Ticket, Statuses, TERMINAL_STATUSES, RESOLVED_STATUSES, TIER2_QUEUE_STATUSES,
      MANAGER_QUEUE_STATUSES, Contract!OpenStages, Contract!RoutedStages
<1>3. LaneOf(n) = NoLane
  BY <1>1 DEF LaneOf
<1>4. SignedOn(n) = SignedOn(r)
  BY DEF SignedOn
<1>5. StageMoves(r, n, StageOf(r), "cancelled")
  BY <1>1, <1>3 DEF StageMoves, Contract!RoutedStages, Ticket
<1>6. <<StageOf(r), "cancelled">> \in KeepingMoves
  BY <1>2 DEF KeepingMoves
<1> QED
  BY <1>4, <1>5, <1>6 DEF ContractStep

\* Each edge of the state machine is a step of the contract, or keeps the stage.
LEMMA MoveSteps ==
    ASSUME NEW r \in Ticket, Sound(r), NEW n, NEW s \in Statuses, NEW u \in Users,
           Moved(r, n, s, u)
    PROVE  ContractStep(r, n) \/ SameContract(r, n)
<1>0. r \in Ticket /\ Sound(r)
  OBVIOUS
<1>1. /\ <<r.status, s>> \in ALLOWED_TRANSITIONS
      /\ <<r.status, s>> \in MANAGER_RETURN_EDGES => s = manager_return_target(r)
      /\ n \in Ticket
      /\ Sound(n)
      /\ n.status = s
      /\ n.escalated_to_t2 <=> \/ r.escalated_to_t2
                               \/ s = "ESCALATED_T2"
                               \/ r.status \in {"ESCALATED_T2", "MONITORING"}
      /\ n.verified_by = verified_by_after(r, s, u)
      /\ n.approved_by = IF r.approved_by = NoUser /\ s = "APPROVED" THEN u ELSE r.approved_by
      /\ r.status \notin {"ESCALATED_T2", "MONITORING"} =>
            n.t1_route = r.t1_route /\ n.assigned_admin = r.assigned_admin
  BY DEF Moved
<1> DEFINE from == StageOf(r)
           to == StageOf(n)
<1>2. ASSUME NEW a, NEW b, <<a, b>> \in KeepingMoves, StageMoves(r, n, a, b),
             SignedOn(n) = SignedOn(r)
      PROVE  ContractStep(r, n)
  BY <1>2 DEF ContractStep
<1>3. NoUser \notin Users
  BY AccountsAssumption
<1>4. r.escalated_to_t2 \in BOOLEAN /\ n.escalated_to_t2 \in BOOLEAN
  BY <1>0, <1>1 DEF Ticket
\* What the edge does to the signatures.
<1>5. /\ s \notin {"PENDING_MANAGER", "APPROVED"} => SignedOn(n) = SignedOn(r)
      /\ r.status \in VerificationStatuses /\ s = "PENDING_MANAGER" =>
            SignedOn(n) = SignedOn(r) \cup {"verified"}
      /\ r.status \in VerificationStatuses /\ s = "APPROVED" =>
            SignedOn(n) = SignedOn(r) \cup {"verified", "approved"}
      /\ r.status = "PENDING_MANAGER" /\ s = "APPROVED" =>
            SignedOn(n) = SignedOn(r) \cup {"approved"}
  BY <1>0, <1>1, <1>3 DEF SignedOn, verified_by_after, VerificationStatuses,
                          Sound, SignaturesOK
\* A move that keeps the lane while the case is routed.
<1>6. ASSUME r.status \notin {"ESCALATED_T2", "MONITORING"},
             from \in Contract!RoutedStages \/ to \notin Contract!RoutedStages,
             n.escalated_to_t2 <=> (r.escalated_to_t2 \/ to = "tier2")
      PROVE  StageMoves(r, n, from, to)
  BY <1>0, <1>1, <1>2, <1>4, <1>6, LaneTable DEF StageMoves
<1>7. ASSUME r.status \in {"ESCALATED_T2", "MONITORING"},
             to \notin Contract!RoutedStages
      PROVE  StageMoves(r, n, from, to)
  <2>1. r.escalated_to_t2
    BY <1>0, <1>7 DEF Sound, HistoryOK
  <2> QED
    BY <1>0, <1>1, <1>2, <1>4, <1>7, <2>1, LaneTable DEF StageMoves
\* Routing: the manager receives a case in a lane.
<1>8. ASSUME s = "PENDING_MGR_TRIAGE", from \in {"preparation", "tier2"}
      PROVE  ContractStep(r, n)
  <2>1. to = "manager"
    BY <1>1, <1>8, Stages
  <2>2. LaneOf(n) \in HandlingLanes
    BY <1>1, <1>8, <2>1, LaneIsALane, LaneTable DEF Contract!RoutedStages
  <2>3. r.status \in {"NEW", "ESCALATED_T2", "MONITORING"}
    BY <1>0, <1>8, Stages DEF Ticket, Statuses, TERMINAL_STATUSES, RESOLVED_STATUSES,
                               TIER2_QUEUE_STATUSES, MANAGER_QUEUE_STATUSES
  <2>4. n.escalated_to_t2 = r.escalated_to_t2
    BY <1>0, <1>1, <1>4, <1>8, <2>3 DEF Sound, HistoryOK
  <2>5. SignedOn(n) = SignedOn(r)
    BY <1>5, <1>8
  <2> QED
    BY <1>2, <1>8, <2>1, <2>2, <2>4, <2>5
    DEF ContractStep
<1> HIDE DEF from, to
<1>9. from = StageOf(r) /\ to = StageOf(n)
  BY DEF from, to
<1> USE DEF Contract!RoutedStages
<1>10. CASE r.status = "NEW"
  <2>1. CASE s = "PENDING_MGR_TRIAGE"
    BY <1>0, <1>8, <1>9, <1>10, <2>1, Stages
  <2>2. CASE s = "ESCALATED_T2"
    <3>1. from = "preparation" /\ to = "tier2"
      BY <1>0, <1>1, <1>9, <1>10, <2>2, Stages
    <3>2. StageMoves(r, n, "preparation", "tier2")
      BY <1>1, <1>6, <1>10, <2>2, <3>1
    <3> QED
      BY <1>2, <1>5, <2>2, <3>2 DEF KeepingMoves
  <2> QED
    BY <1>1, <1>10, <2>1, <2>2, EdgeCases
<1>11. CASE r.status \in {"ESCALATED_T2", "MONITORING"}
  <2>0. from = "tier2"
    BY <1>0, <1>9, <1>11, Stages
  <2>1. CASE s = "PENDING_MGR_TRIAGE"
    BY <1>8, <2>0, <2>1
  <2>2. CASE s = "CLOSED_EVENT"
    <3>1. to = "closed_event"
      BY <1>1, <1>9, <2>2, Stages
    <3>2. StageMoves(r, n, "tier2", "closed_event")
      BY <1>7, <1>11, <2>0, <3>1
    <3> QED
      BY <1>2, <1>5, <2>2, <3>2 DEF KeepingMoves
  <2>3. CASE s = "PENDING_MGR_EVENT_REVIEW"
    <3>1. to = "event_review"
      BY <1>1, <1>9, <2>3, Stages
    <3>2. StageMoves(r, n, "tier2", "event_review")
      BY <1>7, <1>11, <2>0, <3>1
    <3> QED
      BY <1>2, <1>5, <2>3, <3>2 DEF KeepingMoves
  <2>4. CASE s = "MONITORING"
    <3>1. to = "tier2"
      BY <1>1, <1>9, <2>4, Stages
    <3>2. n.escalated_to_t2 = r.escalated_to_t2
      BY <1>0, <1>1, <1>4, <1>11 DEF Sound, HistoryOK
    <3>3. SignedOn(n) = SignedOn(r)
      BY <1>5, <2>4
    <3>4. LaneOf(n) = LaneOf(r)
      BY <1>0, <1>1, <1>9, <2>0, <3>1, LaneTable
    <3> QED
      BY <1>2, <1>9, <2>0, <3>1, <3>2, <3>3, <3>4 DEF SameContract
  <2> QED
    BY <1>1, <1>11, <2>1, <2>2, <2>3, <2>4, EdgeCases
<1>12. CASE r.status = "PENDING_MGR_EVENT_REVIEW"
  <2>0. from = "event_review"
    BY <1>0, <1>9, <1>12, Stages
  <2>1. CASE s = "CLOSED_EVENT"
    <3>1. to = "closed_event"
      BY <1>1, <1>9, <2>1, Stages
    <3>2. StageMoves(r, n, "event_review", "closed_event")
      BY <1>1, <1>6, <1>12, <2>0, <2>1, <3>1
    <3> QED
      BY <1>2, <1>5, <2>1, <3>2 DEF KeepingMoves
  <2>2. CASE s = "ESCALATED_T2"
    <3>1. to = "tier2"
      BY <1>1, <1>9, <2>2, Stages
    <3>2. StageMoves(r, n, "event_review", "tier2")
      BY <1>1, <1>6, <1>12, <2>0, <2>2, <3>1
    <3> QED
      BY <1>2, <1>5, <2>2, <3>2
      DEF KeepingMoves
  <2> QED
    BY <1>1, <1>12, <2>1, <2>2, EdgeCases
<1>13. CASE r.status = "PENDING_MGR_TRIAGE"
  <2>0. from = "manager"
    BY <1>0, <1>9, <1>13, Stages
  <2>1. CASE s \in {"ESCALATED_T2", "NEW"}
    <3>1. s = IF r.escalated_to_t2 THEN "ESCALATED_T2" ELSE "NEW"
      BY <1>1, <1>13, <2>1 DEF MANAGER_RETURN_EDGES, manager_return_target
    <3>2. to = IF r.escalated_to_t2 THEN "tier2" ELSE "preparation"
      BY <1>1, <1>9, <3>1, Stages
    <3>3. StageMoves(r, n, "manager", to)
      BY <1>1, <1>6, <1>13, <2>0, <3>1, <3>2
    <3> QED
      BY <1>2, <1>5, <2>1, <3>2, <3>3 DEF ContractStep
  <2>2. CASE s \in {"AWAITING_CONTAINMENT", "AWAITING_OWNER"}
    <3>1. to = "handling"
      BY <1>1, <1>9, <2>2, Stages
    <3>2. StageMoves(r, n, "manager", "handling")
      BY <1>1, <1>6, <1>13, <2>0, <2>2, <3>1
    <3> QED
      BY <1>2, <1>5, <2>2, <3>2 DEF KeepingMoves
  <2> QED
    BY <1>1, <1>13, <2>1, <2>2, EdgeCases
<1>14. CASE r.status \in {"AWAITING_CONTAINMENT", "AWAITING_OWNER", "OWNER_REMEDIATED"}
  <2>0. from = "handling"
    BY <1>0, <1>9, <1>14, Stages
  <2>1. CASE s \in {"CONTAINMENT_REPORTED", "PENDING_T2_REVIEW"}
    <3>1. to = "verification"
      BY <1>1, <1>9, <2>1, Stages
    <3>2. StageMoves(r, n, "handling", "verification")
      BY <1>1, <1>6, <1>14, <2>0, <2>1, <3>1
    <3> QED
      BY <1>2, <1>5, <2>1, <3>2 DEF KeepingMoves
  <2>2. CASE s = "PENDING_MGR_TRIAGE"
    <3>1. to = "manager"
      BY <1>1, <1>9, <2>2, Stages
    <3>2. StageMoves(r, n, "handling", "manager")
      BY <1>1, <1>6, <1>14, <2>0, <2>2, <3>1
    <3> QED
      BY <1>2, <1>5, <2>2, <3>2 DEF KeepingMoves
  <2>3. CASE s = "AWAITING_OWNER"
    <3>1. to = "handling"
      BY <1>1, <1>9, <2>3, Stages
    <3>2. n.escalated_to_t2 = r.escalated_to_t2
      BY <1>1, <1>4, <1>14, <2>3
    <3>3. SignedOn(n) = SignedOn(r)
      BY <1>5, <2>3
    <3>4. LaneOf(n) = LaneOf(r)
      <4>1. /\ LaneOf(r) = <<r.t1_route, r.assigned_admin>>
            /\ LaneOf(n) = <<n.t1_route, n.assigned_admin>>
        BY <1>0, <1>1, <1>9, <2>0, <3>1, LaneTable
      <4> QED
        BY <1>1, <1>14, <4>1
    <3> QED
      BY <1>2, <1>9, <2>0, <3>1, <3>2, <3>3, <3>4 DEF SameContract
  <2> QED
    BY <1>1, <1>14, <2>1, <2>2, <2>3, EdgeCases
<1>15. CASE r.status \in VerificationStatuses
  <2>0. from = "verification"
    BY <1>0, <1>9, <1>15, Stages DEF VerificationStatuses
  <2>1. CASE s \in {"AWAITING_CONTAINMENT", "AWAITING_OWNER"}
    <3>1. to = "handling"
      BY <1>1, <1>9, <2>1, Stages
    <3>2. StageMoves(r, n, "verification", "handling")
      BY <1>1, <1>6, <1>15, <2>0, <2>1, <3>1 DEF VerificationStatuses
    <3> QED
      BY <1>2, <1>5, <2>1, <3>2 DEF KeepingMoves
  <2>2. CASE s = "CLOSED_EVENT"
    <3>1. to = "closed_event"
      BY <1>1, <1>9, <2>2, Stages
    <3>2. StageMoves(r, n, "verification", "closed_event")
      BY <1>1, <1>6, <1>15, <2>0, <2>2, <3>1 DEF VerificationStatuses
    <3> QED
      BY <1>2, <1>5, <2>2, <3>2 DEF KeepingMoves
  <2>3. CASE s = "PENDING_MANAGER"
    <3>1. to = "approval"
      BY <1>1, <1>9, <2>3, Stages
    <3>2. StageMoves(r, n, "verification", "approval")
      BY <1>1, <1>6, <1>15, <2>0, <2>3, <3>1 DEF VerificationStatuses
    <3> QED
      BY <1>2, <1>5, <1>15, <2>3, <3>2 DEF ContractStep, SigningMoves
  <2>4. CASE s = "APPROVED"
    <3>1. to = "approved"
      BY <1>1, <1>9, <2>4, Stages
    <3>2. StageMoves(r, n, "verification", "approved")
      BY <1>1, <1>6, <1>15, <2>0, <2>4, <3>1 DEF VerificationStatuses
    <3> QED
      BY <1>2, <1>5, <1>15, <2>4, <3>2 DEF ContractStep, SigningMoves
  <2> QED
    BY <1>1, <1>15, <2>1, <2>2, <2>3, <2>4, EdgeCases DEF VerificationStatuses
<1>16. CASE r.status = "PENDING_MANAGER"
  <2>0. from = "approval"
    BY <1>0, <1>9, <1>16, Stages
  <2>1. CASE s = "APPROVED"
    <3>1. to = "approved"
      BY <1>1, <1>9, <2>1, Stages
    <3>2. StageMoves(r, n, "approval", "approved")
      BY <1>1, <1>6, <1>16, <2>0, <2>1, <3>1
    <3> QED
      BY <1>2, <1>5, <1>16, <2>1, <3>2 DEF ContractStep, SigningMoves
  <2>2. CASE s \in {"CONTAINMENT_REPORTED", "PENDING_T2_REVIEW"}
    <3>1. to = "verification"
      BY <1>1, <1>9, <2>2, Stages
    <3>2. StageMoves(r, n, "approval", "verification")
      BY <1>1, <1>6, <1>16, <2>0, <2>2, <3>1
    <3> QED
      BY <1>2, <1>5, <2>2, <3>2 DEF KeepingMoves
  <2> QED
    BY <1>1, <1>16, <2>1, <2>2, EdgeCases
<1> QED
  BY <1>1, <1>10, <1>11, <1>12, <1>13, <1>14, <1>15, <1>16, EdgeCases
  DEF VerificationStatuses

\* A step between tickets is a step of the contract of the row.
LEMMA RowContract ==
    /\ ContractStep(row, row') => Contract!Next
    /\ SameContract(row, row') => UNCHANGED Contract!contract
<1>1. /\ StageOf(row)' = StageOf(row')
      /\ LaneOf(row)' = LaneOf(row')
      /\ SignedOn(row)' = SignedOn(row')
      /\ row.escalated_to_t2' = row'.escalated_to_t2
  BY DEF StageOf, LaneOf, SignedOn
<1>2. ASSUME NEW a, NEW b, StageMoves(row, row', a, b)
      PROVE  Contract!Moves(a, b)
  BY <1>1, <1>2 DEF StageMoves, Contract!Moves
<1>3. ASSUME NEW e \in KeepingMoves, StageMoves(row, row', e[1], e[2]),
             SignedOn(row') = SignedOn(row)
      PROVE  Contract!Next
  <2>1. Contract!Moves(e[1], e[2]) /\ Contract!Keeps
    BY <1>1, <1>2, <1>3 DEF Contract!Keeps
  <2>2. CASE e[1] \in Contract!OpenStages /\ e[2] = "cancelled"
    BY <2>1, <2>2 DEF Contract!Next, Contract!Cancels
  <2>3. CASE e[1] \in {"tier2", "event_review", "verification"} /\ e[2] = "closed_event"
    BY <2>1, <2>3 DEF Contract!Next, Contract!ClosesAsEvent
  <2> QED
    BY <2>1, <2>2, <2>3
    DEF KeepingMoves, Contract!Next, Contract!Submits, Contract!Downgrades,
        Contract!RejectsDowngrade, Contract!Forwards, Contract!Reports,
        Contract!SendsBack, Contract!StepsBack
<1>4. ASSUME NEW e \in SigningMoves, StageMoves(row, row', e[1], e[2]),
             SignedOn(row') = SignedOn(row) \cup e[3]
      PROVE  Contract!Next
  <2>1. Contract!Moves(e[1], e[2]) /\ SignedOn(row)' = SignedOn(row) \cup e[3]
    BY <1>1, <1>2, <1>4
  <2> QED
    BY <2>1 DEF SigningMoves, Contract!Next, Contract!Verifies, Contract!Signs,
                Contract!VerifiesAndApproves, Contract!Approves
<1>5. ContractStep(row, row') => Contract!Next
  BY <1>1, <1>2, <1>3, <1>4
  DEF ContractStep, Contract!Next, Contract!Returns, Contract!Keeps, Contract!Routes,
      Contract!Submits
<1>6. SameContract(row, row') => UNCHANGED Contract!contract
  BY <1>1 DEF SameContract, Contract!contract
<1> QED
  BY <1>5, <1>6

\* Every step of the ticket is a step of its contract, or none.
LEMMA StepImplements ==
    ASSUME ReviewsAreCurrent, IInv, FreshOK, [Next]_vars
    PROVE  [Contract!Next]_(Contract!contract)
<1>0. row \in Ticket /\ Sound(row)
  BY DEF IInv, RowOK
<1>1. ASSUME NEW u \in Users, CurrentMove(u)
      PROVE  ContractStep(row, row') \/ SameContract(row, row')
  BY <1>0, <1>1, CurrentMoved, MoveSteps
<1>2. ContractStep(row, row') \/ SameContract(row, row')
  BY <1>0, <1>1, CancelSteps, SameColumnsSameContract, RowSteps
<1> QED
  BY <1>2, RowContract

\* A new preparation, or an owner's remediation of the retired step, is an opening.
LEMMA InitImplements == Init => Contract!Init
<1> SUFFICES ASSUME Init PROVE Contract!Init
  OBVIOUS
<1>1. row \in Ticket /\ Sound(row)
  BY InitIInv DEF IInv, RowOK
<1>2. CASE row \in Prepared(BlankTicket, FALSE)
  <2>1. BlankTicket \in Ticket
    BY DEF BlankTicket, Ticket, Statuses, Classifications, Routes
  <2>2. /\ row.status = "NEW"
        /\ row.escalated_to_t2 = FALSE
        /\ row.verified_by = NoUser
        /\ row.approved_by = NoUser
    BY <1>2, <2>1, PreparedColumns DEF BlankTicket
  <2>3. StageOf(row) = "preparation"
    BY <1>1, <2>2, Stages
  <2>4. LaneOf(row) = NoLane
    BY <2>3 DEF LaneOf
  <2> QED
    BY <2>2, <2>3, <2>4 DEF Contract!Init, Contract!Opening, SignedOn
<1>3. ASSUME NEW emergency \in BOOLEAN, NEW m \in Managers, row = LegacyTicket(emergency, m)
      PROVE  Contract!Init
  <2>1. /\ row.status = "OWNER_REMEDIATED"
        /\ row.t1_route = "OWNER"
        /\ row.assigned_admin = NoUser
        /\ row.escalated_to_t2 = FALSE
        /\ row.verified_by = NoUser
        /\ row.approved_by = NoUser
    BY <1>3 DEF LegacyTicket, BlankTicket
  <2>2. StageOf(row) = "handling"
    BY <1>1, <2>1, Stages
  <2>3. LaneOf(row) \in HandlingLanes
    BY <2>1, <2>2 DEF LaneOf, HandlingLanes
  <2> QED
    BY <2>1, <2>2, <2>3 DEF Contract!Init, Contract!Opening, SignedOn
<1> QED
  BY <1>2, <1>3 DEF Init

\* The ticket keeps the contract, whatever interleaves, as long as Tier 2's reviews
\* are of the current ticket.
THEOREM ContractIsKept ==
    ASSUME ReviewsAreCurrent
    PROVE  Spec => KeepsContract
<1>1. IInv /\ FreshOK /\ [Next]_vars => [Contract!Next]_(Contract!contract)
  BY StepImplements
<1> QED
  BY <1>1, InitImplements, FreshInvariance, PTL DEF Spec, KeepsContract, Contract!Spec
-----------------------------------------------------------------------------
(***************************************************************************)
(* Project Incidents: the invariant of a project and its members           *)
(***************************************************************************)

\* What holds of each member: its ticket is sound, waits for Project Review, and
\* unless it left the group's verdict is an Incident that carries it.
MemberOK(m) ==
    member[m] # Absent =>
        /\ Sound(member[m])
        /\ member[m].status \in HandlingStatuses \cup {"APPROVED"} => decided
        /\ m \notin apart /\ member[m].status \in HandlingStatuses \cup {"PENDING_MGR_TRIAGE"} =>
                member[m].classification = "INCIDENT"
        /\ m \notin apart /\ member[m].status \in HandlingStatuses =>
                member[m].is_emergency = project.is_emergency

ProjectInv ==
    /\ member \in [Members -> Ticket \cup {Absent}]
    /\ project \in [is_emergency : BOOLEAN, emergency_decided_by : Users \cup {NoUser}]
    /\ opened \subseteq Managers \cup Superusers
    /\ \A m \in Members : MemberOK(m)

\* A ticket that keeps its stage, its signatures and its verdict.
Kept(r, n) ==
    /\ n \in Ticket
    /\ Sound(n)
    /\ n.status = r.status
    /\ n.escalated_to_t2 = r.escalated_to_t2
    /\ n.verified_by = r.verified_by
    /\ n.approved_by = r.approved_by
    /\ r.status # "NEW" => n.t1_route = r.t1_route /\ n.assigned_admin = r.assigned_admin

\* A cancelled ticket.
EndsAs(r, n) ==
    /\ n \in Ticket
    /\ Sound(n)
    /\ n.status = "CANCELLED"
    /\ r.status \notin TERMINAL_STATUSES
    /\ n.escalated_to_t2 = r.escalated_to_t2
    /\ n.verified_by = r.verified_by
    /\ n.approved_by = r.approved_by

\* A member as it is reported: for Tier 2, or for the manager in a complete lane.
LEMMA NewMembers ==
    ASSUME NEW t \in {EventMember} \cup IncidentMembers
    PROVE  /\ t \in Ticket
           /\ Sound(t)
           /\ t.verified_by = NoUser
           /\ t.approved_by = NoUser
           /\ t.is_emergency = FALSE
           /\ \/ t.status = "ESCALATED_T2" /\ t.escalated_to_t2
              \/ /\ t.status = "PENDING_MGR_TRIAGE" /\ ~t.escalated_to_t2
                 /\ t.classification = "INCIDENT"
<1>1. SysAdmins \subseteq Users /\ NoUser \notin Users
  BY AccountsAssumption
<1>2. CASE t = EventMember
  BY <1>1, <1>2
  DEF EventMember, BlankMember, Ticket, Sound, LaneOK, HistoryOK, SignaturesOK, Statuses,
      TIER2_QUEUE_STATUSES, Classifications, Routes, AdminLane, OwnerLane
<1> DEFINE ForManager == /\ t \in Ticket
                         /\ t.status = "PENDING_MGR_TRIAGE"
                         /\ t.classification = "INCIDENT"
                         /\ ~t.escalated_to_t2 /\ ~t.has_been_monitored
                         /\ t.verified_by = NoUser /\ t.approved_by = NoUser
                         /\ t.is_emergency = FALSE
                         /\ t.assigned_admin \in SysAdmins \cup {NoUser}
                         /\ has_handling_lane(t)
<1>3. CASE t = [BlankMember EXCEPT !.status = "PENDING_MGR_TRIAGE",
                                   !.classification = "INCIDENT", !.t1_route = "OWNER"]
  <2>1. ForManager
    BY <1>3 DEF BlankMember, Ticket, Statuses, MANAGER_QUEUE_STATUSES, Classifications,
                Routes, has_handling_lane
  <2> QED
    BY <2>1 DEF Sound, LaneOK, HistoryOK, SignaturesOK, AdminLane, OwnerLane
<1>4. ASSUME NEW a \in SysAdmins,
             t = [BlankMember EXCEPT !.status = "PENDING_MGR_TRIAGE",
                                     !.classification = "INCIDENT",
                                     !.t1_route = "ADMIN", !.assigned_admin = a]
      PROVE  ForManager
  <2>1. a \in Users /\ a # NoUser
    BY <1>1
  <2> QED
    BY <1>4, <2>1 DEF BlankMember, Ticket, Statuses, MANAGER_QUEUE_STATUSES,
                      Classifications, Routes, has_handling_lane
<1>5. ASSUME ForManager
      PROVE  Sound(t)
  BY <1>5 DEF Sound, LaneOK, HistoryOK, SignaturesOK, AdminLane, OwnerLane
<1> HIDE DEF ForManager
<1>6. CASE ForManager
  BY <1>5, <1>6 DEF ForManager
<1> QED
  BY <1>2, <1>3, <1>4, <1>6 DEF IncidentMembers

\* A newcomer joins where it was reported, or in its lane with the group's verdict.
LEMMA PlacedMembers ==
    ASSUME project \in [is_emergency : BOOLEAN, emergency_decided_by : Users \cup {NoUser}],
           NEW t \in {EventMember} \cup IncidentMembers
    PROVE  LET n == Placed(t) IN
           /\ n \in Ticket
           /\ Sound(n)
           /\ n.verified_by = NoUser
           /\ n.approved_by = NoUser
           /\ \/ n.status = "ESCALATED_T2" /\ n.escalated_to_t2
              \/ /\ n.status = "PENDING_MGR_TRIAGE" /\ ~n.escalated_to_t2
                 /\ n.classification = "INCIDENT"
              \/ /\ n.status \in {"AWAITING_OWNER", "AWAITING_CONTAINMENT"}
                 /\ ~n.escalated_to_t2 /\ n.classification = "INCIDENT"
                 /\ decided /\ n.is_emergency = project.is_emergency
<1> DEFINE lane == IF t.t1_route = "OWNER" THEN "AWAITING_OWNER" ELSE "AWAITING_CONTAINMENT"
           n == [t EXCEPT !.is_emergency = project.is_emergency,
                          !.emergency_decided_by = project.emergency_decided_by,
                          !.status = lane]
<1>1. CASE t.status # "PENDING_MGR_TRIAGE" \/ ~decided
  BY <1>1, NewMembers DEF Placed
<1>2. CASE t.status = "PENDING_MGR_TRIAGE" /\ decided
  <2>1. Placed(t) = n
    BY <1>2 DEF Placed
  <2>2. t \in Ticket /\ lane \in Statuses
    BY NewMembers DEF Statuses
  <2> HIDE DEF lane
  <2>3. /\ n \in Ticket
        /\ n.status = lane
        /\ n.is_emergency = project.is_emergency
        /\ n.classification = t.classification
        /\ n.t1_route = t.t1_route
        /\ n.assigned_admin = t.assigned_admin
        /\ n.escalated_to_t2 = t.escalated_to_t2
        /\ n.has_been_monitored = t.has_been_monitored
        /\ n.verified_by = t.verified_by
        /\ n.approved_by = t.approved_by
    BY <2>2 DEF Ticket
  <2> HIDE DEF n
  <2>4. LaneOK(t) /\ has_handling_lane(t)
    BY <1>2, NewMembers DEF Sound, LaneOK
  <2>5. LaneOK(n)
    BY <2>3, <2>4 DEF LaneOK, has_handling_lane, AdminLane, OwnerLane, lane
  <2>6. HistoryOK(n) /\ SignaturesOK(n)
    BY <1>2, <2>3, NewMembers DEF Sound, HistoryOK, SignaturesOK, lane
  <2> QED
    BY <1>2, <2>1, <2>3, <2>5, <2>6, NewMembers DEF Sound, lane
<1> QED
  BY <1>1, <1>2

\* What a member's own move makes of it.
MemberMoved(m, u) ==
    \E s \in Statuses, n \in Ticket :
        /\ Becomes(m, n)
        /\ Moved(member[m], n, s, u)
        /\ member[m].status = "PENDING_MGR_TRIAGE" => decided
        /\ member[m].status # "PENDING_MGR_TRIAGE" => n.is_emergency = member[m].is_emergency

\* Moves pass the Project Review gate, whatever choices were made on the ticket.
LEMMA TransitionMoves ==
    ASSUME ProjectInv, NEW m \in Reported, NEW u \in Users, NEW t \in Ticket, Sound(t),
           Agrees(t, member[m]),
           member[m].status # "PENDING_MGR_TRIAGE" => t.is_emergency = member[m].is_emergency,
           NEW s \in Statuses, Transition(m, u, t, s)
    PROVE  MemberMoved(m, u)
<1> DEFINE n == Applied(t, s, u)
<1>1. Becomes(m, n)
  BY DEF Transition
<1>2. Moved(member[m], n, s, u)
  BY MoveColumns DEF Transition
<1>3. n \in Ticket /\ n.is_emergency = t.is_emergency
  BY AppliedColumns
<1>4. member[m].status = "PENDING_MGR_TRIAGE" => decided
  BY DEF Transition, can_transition_to, Agrees, Review
<1> HIDE DEF n
<1> QED
  BY <1>1, <1>2, <1>3, <1>4 DEF MemberMoved

LEMMA ActsMove ==
    ASSUME ProjectInv, NEW m \in Reported, NEW u \in Users, MemberActs(m, u)
    PROVE  MemberMoved(m, u)
<1>0. /\ member[m] \in Ticket
      /\ Sound(member[m])
      /\ Agrees(member[m], member[m])
  BY DEF ProjectInv, MemberOK, Reported, Agrees
<1>1. CASE MemberForward(m, u)
  <2> DEFINE by == IF member[m].emergency_decided_by = NoUser THEN u
                   ELSE member[m].emergency_decided_by
  <2>1. PICK e \in BOOLEAN :
          Transition(m, u, [member[m] EXCEPT !.is_emergency = e,
                                             !.emergency_decided_by = by], Lane(member[m]))
    BY <1>0, <1>1 DEF MemberForward, Assessed, Ticket
  <2>2. /\ by \in Users \cup {NoUser}
        /\ member[m].emergency_decided_by # NoUser => by = member[m].emergency_decided_by
    BY <1>0 DEF Ticket
  <2> HIDE DEF by
  <2> DEFINE t == [member[m] EXCEPT !.is_emergency = e, !.emergency_decided_by = by]
  <2>3. t \in Ticket /\ Sound(t) /\ Agrees(t, member[m])
    BY <1>0, <2>2, AssessedSound, ChoicesAgree
  <2>4. Transition(m, u, t, Lane(member[m]))
    BY <2>1
  <2>5. member[m].status = "PENDING_MGR_TRIAGE" /\ Lane(member[m]) \in Statuses
    BY <1>1 DEF MemberForward, Lane, Statuses
  <2> HIDE DEF t
  <2> QED
    BY <2>3, <2>4, <2>5, TransitionMoves
<1>2. CASE MemberReview(m, u)
  <2>1. PICK d \in T2Decisions(member[m]) : Transition(m, u, d[1], d[2])
    BY <1>2 DEF MemberReview
  <2>2. member[m].status = "ESCALATED_T2"
    BY <1>2 DEF MemberReview
  <2> QED
    BY <1>0, <2>1, <2>2, DecisionsAgree, TransitionMoves
<1>3. CASE MemberReclassified(m, u)
  <2> DEFINE t == [member[m] EXCEPT !.classification = "EVENT"]
  <2>1. "EVENT" \in Classifications /\ "CLOSED_EVENT" \in Statuses
    BY DEF Classifications, Statuses, TERMINAL_STATUSES, RESOLVED_STATUSES
  <2>2. /\ t \in Ticket /\ Sound(t) /\ Agrees(t, member[m])
        /\ t.is_emergency = member[m].is_emergency
    BY <1>0, <2>1, ReclassifiedSound, ChoicesAgree
  <2>3. Transition(m, u, t, "CLOSED_EVENT")
    BY <1>3 DEF MemberReclassified
  <2> HIDE DEF t
  <2> QED
    BY <2>1, <2>2, <2>3, TransitionMoves
<1>4. CASE MemberMoves(m, u)
  BY <1>0, <1>4, TransitionMoves DEF MemberMoves
<1> QED
  BY <1>1, <1>2, <1>3, <1>4 DEF MemberActs

\* An edit keeps the stage of the member, and its verdict.
LEMMA EditKeeps ==
    ASSUME ProjectInv, NEW m \in Reported, MemberEdited(m)
    PROVE  \E n \in Ticket : /\ Becomes(m, n)
                             /\ Kept(member[m], n)
                             /\ n.is_emergency = member[m].is_emergency
<1>0. member[m] \in Ticket /\ Sound(member[m])
  BY DEF ProjectInv, MemberOK, Reported
<1>1. ASSUME member[m].status = "NEW", NEW n \in Prepared(member[m], TRUE)
      PROVE  n \in Ticket /\ Kept(member[m], n) /\ n.is_emergency = member[m].is_emergency
  <2>1. /\ n \in Ticket
        /\ n.status = member[m].status
        /\ n.escalated_to_t2 = member[m].escalated_to_t2
        /\ n.has_been_monitored = member[m].has_been_monitored
        /\ n.verified_by = member[m].verified_by
        /\ n.approved_by = member[m].approved_by
        /\ n.is_emergency = member[m].is_emergency
        /\ n.assigned_admin \in SysAdmins \cup {NoUser}
    BY <1>0, <1>1, PreparedColumns
  <2>2. Sound(n)
    BY <1>0, <1>1, <2>1, SameColumns
  <2> QED
    BY <1>1, <2>1, <2>2 DEF Kept
<1>2. ASSUME NEW c \in Classifications
      PROVE  LET n == [member[m] EXCEPT !.classification = c]
             IN  n \in Ticket /\ Kept(member[m], n) /\ n.is_emergency = member[m].is_emergency
  <2> DEFINE n == [member[m] EXCEPT !.classification = c]
  <2>1. n \in Ticket /\ Sound(n) /\ n.is_emergency = member[m].is_emergency
    BY <1>0, ReclassifiedSound
  <2>2. /\ n.status = member[m].status
        /\ n.escalated_to_t2 = member[m].escalated_to_t2
        /\ n.verified_by = member[m].verified_by
        /\ n.approved_by = member[m].approved_by
        /\ n.t1_route = member[m].t1_route
        /\ n.assigned_admin = member[m].assigned_admin
    BY <1>0 DEF Ticket
  <2> HIDE DEF n
  <2>3. Kept(member[m], n)
    BY <2>1, <2>2 DEF Kept
  <2> QED
    BY <2>1, <2>3 DEF n
<1>3. CASE member[m].status = "NEW"
  <2>1. PICK n \in Prepared(member[m], TRUE) : Becomes(m, n)
    BY <1>3 DEF MemberEdited
  <2> QED
    BY <1>1, <1>3, <2>1
<1>4. CASE member[m].status # "NEW"
  <2>1. PICK c \in Classifications : Becomes(m, [member[m] EXCEPT !.classification = c])
    BY <1>4 DEF MemberEdited
  <2> DEFINE n == [member[m] EXCEPT !.classification = c]
  <2>2. n \in Ticket /\ Kept(member[m], n) /\ n.is_emergency = member[m].is_emergency
    BY <1>2
  <2>3. Becomes(m, n)
    BY <2>1
  <2> HIDE DEF n
  <2> QED
    BY <2>2, <2>3
<1> QED
  BY <1>3, <1>4

\* A cancellation ends the member and nothing else.
LEMMA CancelEnds ==
    ASSUME ProjectInv, NEW m \in Reported, MemberCancelled(m)
    PROVE  \E n \in Ticket : Becomes(m, n) /\ EndsAs(member[m], n)
<1> DEFINE n == [member[m] EXCEPT !.status = "CANCELLED", !.t2_claimed_by = NoUser]
<1>0. member[m] \in Ticket /\ Sound(member[m])
  BY DEF ProjectInv, MemberOK, Reported
<1>1. /\ n \in Ticket
      /\ n.status = "CANCELLED"
      /\ n.assigned_admin = member[m].assigned_admin
      /\ n.escalated_to_t2 = member[m].escalated_to_t2
      /\ n.has_been_monitored = member[m].has_been_monitored
      /\ n.verified_by = member[m].verified_by
      /\ n.approved_by = member[m].approved_by
  BY <1>0 DEF Ticket, Statuses, TERMINAL_STATUSES
<1>2. Becomes(m, n) /\ member[m].status \notin TERMINAL_STATUSES
  BY DEF MemberCancelled
<1> HIDE DEF n
<1>3. Sound(n)
  BY <1>0, <1>1, <1>2 DEF Sound, LaneOK, HistoryOK, SignaturesOK, AdminLane, OwnerLane,
                          TERMINAL_STATUSES, RESOLVED_STATUSES
<1> QED
  BY <1>1, <1>2, <1>3 DEF EndsAs

\* What Project Review makes of a member that waits for it.
LEMMA ReviewMoves ==
    ASSUME ProjectInv, NEW u \in opened, NEW m \in Pending, NEW e \in BOOLEAN
    PROVE  LET n == Applied(Assessed(member[m], e, u), Lane(member[m]), u) IN
           /\ Lane(member[m]) \in Statuses \cap HandlingStatuses
           /\ Moved(member[m], n, Lane(member[m]), u)
           /\ n.is_emergency = e
           /\ n.classification = member[m].classification
<1> DEFINE r == member[m]
           by == IF r.emergency_decided_by = NoUser THEN u ELSE r.emergency_decided_by
           t == [r EXCEPT !.is_emergency = e, !.emergency_decided_by = by]
           s == Lane(r)
<1>0. /\ r \in Ticket /\ Sound(r) /\ r.status = "PENDING_MGR_TRIAGE"
      /\ u \in Managers \cup Superusers /\ u \in Users
  BY AccountsAssumption DEF ProjectInv, MemberOK, Pending, Reported
<1> HIDE DEF r
<1>1. s \in Statuses \cap HandlingStatuses
  BY DEF Lane, Statuses, HandlingStatuses
<1>2. Assessed(r, e, u) = t
  BY <1>0 DEF Assessed, Ticket
<1>3. /\ by \in Users \cup {NoUser}
      /\ r.emergency_decided_by # NoUser => by = r.emergency_decided_by
  BY <1>0 DEF Ticket
<1> HIDE DEF by
<1>4. Agrees(r, r)
  BY DEF Agrees
<1>5. t \in Ticket /\ Sound(t) /\ Agrees(t, r)
  BY <1>0, <1>3, <1>4, AssessedSound, ChoicesAgree
<1>6. /\ t.status = r.status /\ t.t1_route = r.t1_route
      /\ t.is_emergency = e /\ t.classification = r.classification
  BY <1>0 DEF Ticket
<1> HIDE DEF t
<1>7. r.t1_route \in {"ADMIN", "OWNER"}
  BY <1>0 DEF Sound, LaneOK, has_handling_lane
<1>8. can_transition_to(t, s, FALSE, "done")
  BY <1>0, <1>6, <1>7, ForwardIsLegal DEF Lane, ForwardEdges, VerificationStatuses
<1>9. MayDrive(t, s, u)
  BY <1>0, <1>6 DEF MayDrive, ManagerEdges, Lane
<1>10. Moved(r, Applied(t, s, u), s, u)
  BY <1>0, <1>1, <1>5, <1>8, <1>9, MoveColumns
<1>11. Applied(t, s, u).is_emergency = e
  BY <1>0, <1>1, <1>5, <1>6, AppliedColumns
<1>12. Applied(t, s, u).classification = r.classification
  <2>1. classification_after(t, s) = r.classification
    BY <1>0, <1>6 DEF classification_after, Lane
  <2> QED
    BY <1>5, <2>1 DEF Applied, Stamped, Ticket
<1> HIDE DEF s
<1> QED
  BY <1>1, <1>2, <1>10, <1>11, <1>12 DEF r, s

\* The flag of the group set on a member.
LEMMA ReassessKeeps ==
    ASSUME NEW r \in Ticket, Sound(r), NEW e \in BOOLEAN
    PROVE  LET n == [r EXCEPT !.is_emergency = e] IN
           /\ Kept(r, n)
           /\ n.is_emergency = e
           /\ n.classification = r.classification
<1> DEFINE n == [r EXCEPT !.is_emergency = e]
<1>1. /\ n \in Ticket
      /\ n.status = r.status
      /\ n.t1_route = r.t1_route
      /\ n.assigned_admin = r.assigned_admin
      /\ n.escalated_to_t2 = r.escalated_to_t2
      /\ n.has_been_monitored = r.has_been_monitored
      /\ n.verified_by = r.verified_by
      /\ n.approved_by = r.approved_by
      /\ n.is_emergency = e
      /\ n.classification = r.classification
  BY DEF Ticket
<1> HIDE DEF n
<1>2. Sound(n)
  BY <1>1, SameColumns
<1>3. Kept(r, n)
  BY <1>1, <1>2 DEF Kept
<1> QED
  BY <1>1, <1>3 DEF n

\* A member that changes by itself stays in the invariant, if it reaches the lanes
\* only after Project Review and keeps its flag in them.
LEMMA BecomesInv ==
    ASSUME ProjectInv, NEW m \in Reported, NEW n \in Ticket, Sound(n), Becomes(m, n),
           n.status \in HandlingStatuses \cup {"APPROVED"} => decided,
           n.status \in HandlingStatuses =>
              \/ member[m].status = "PENDING_MGR_TRIAGE"
              \/ /\ member[m].status \in HandlingStatuses
                 /\ n.is_emergency = member[m].is_emergency
    PROVE  ProjectInv'
<1>1. /\ member' = [member EXCEPT ![m] = n]
      /\ project' = project /\ opened' = opened
      /\ apart \subseteq apart' /\ apart' \subseteq apart \cup {m}
  BY DEF Becomes
<1>2. m \in Members /\ member'[m] = n
  BY <1>1 DEF ProjectInv, Reported
<1>3. ASSUME NEW k \in Members, k # m
      PROVE  MemberOK(k)'
  <2>1. member'[k] = member[k] /\ (k \in apart' <=> k \in apart)
    BY <1>1, <1>3 DEF ProjectInv
  <2> QED
    BY <1>1, <2>1 DEF ProjectInv, MemberOK, decided
<1>4. MemberOK(m)'
  <2>1. ASSUME m \notin apart', n.status \in HandlingStatuses \cup {"PENDING_MGR_TRIAGE"}
        PROVE  n.classification = "INCIDENT"
    BY <2>1 DEF Becomes
  <2>2. ASSUME m \notin apart', n.status \in HandlingStatuses
        PROVE  n.is_emergency = project.is_emergency
    <3>1. member[m].status # "PENDING_MGR_TRIAGE"
      BY <2>2 DEF Becomes
    <3>2. /\ member[m].status \in HandlingStatuses
          /\ n.is_emergency = member[m].is_emergency
          /\ m \notin apart
      BY <1>1, <2>2, <3>1
    <3> QED
      BY <3>2 DEF ProjectInv, MemberOK, Reported
  <2> QED
    BY <1>1, <1>2, <2>1, <2>2 DEF MemberOK, decided
<1>5. member' \in [Members -> Ticket \cup {Absent}]
  BY <1>1 DEF ProjectInv
<1> QED
  BY <1>1, <1>3, <1>4, <1>5 DEF ProjectInv

LEMMA InitProjectInv == ProjectInit => ProjectInv
<1> SUFFICES ASSUME ProjectInit PROVE ProjectInv
  OBVIOUS
<1>1. ASSUME NEW m \in Members, member[m] # Absent
      PROVE  /\ member[m] \in Ticket /\ Sound(member[m])
             /\ \/ member[m].status = "ESCALATED_T2"
                \/ member[m].status = "PENDING_MGR_TRIAGE" /\ member[m].classification = "INCIDENT"
  <2>1. member[m] \in {EventMember} \cup IncidentMembers
    BY <1>1 DEF ProjectInit
  <2> QED
    BY <2>1, NewMembers
<1>2. \A m \in Members : MemberOK(m)
  BY <1>1 DEF MemberOK, HandlingStatuses
<1>3. member \in [Members -> Ticket \cup {Absent}]
  BY NewMembers DEF ProjectInit
<1> QED
  BY <1>2, <1>3 DEF ProjectInit, ProjectInv

LEMMA NextProjectInv == ProjectInv /\ [ProjectNext]_project_vars => ProjectInv'
<1> SUFFICES ASSUME ProjectInv, [ProjectNext]_project_vars PROVE ProjectInv'
  OBVIOUS
<1>0. Managers \cup Superusers \subseteq Users /\ Absent \notin Ticket /\ NoUser \notin Users
  BY AccountsAssumption, ProjectAssumption
<1>1. ASSUME NEW u \in Users, OpensReview(u)
      PROVE  ProjectInv'
  BY <1>1 DEF OpensReview, is_soc_manager, ProjectInv, MemberOK, decided
<1>2. ASSUME NEW u \in Users, ReviewRefused(u)
      PROVE  ProjectInv'
  BY <1>2 DEF ReviewRefused, ProjectInv, MemberOK, decided
<1>3. ASSUME NEW u \in Users, ForwardProjectReview(u)
      PROVE  ProjectInv'
  <2>1. PICK e \in BOOLEAN :
          /\ project' = [is_emergency |-> e, emergency_decided_by |-> u]
          /\ member' = [k \in Members |->
                IF k \in Pending
                THEN Applied(Assessed(member[k], e, u), Lane(member[k]), u)
                ELSE member[k]]
    BY <1>3 DEF ForwardProjectReview
  <2>2. /\ u \in opened
        /\ opened' = opened \ {u}
        /\ apart' = (apart \cup (Reported \ Pending))
                       \ {m \in Pending : member[m].classification = "INCIDENT"}
    BY <1>3 DEF ForwardProjectReview
  <2>3. decided'
    BY <1>0, <2>1 DEF decided
  <2>4. ASSUME NEW m \in Pending
        PROVE  /\ m \in Members
               /\ member'[m] \in Ticket /\ Sound(member'[m])
               /\ member'[m].status \in HandlingStatuses
               /\ member'[m].is_emergency = e
               /\ member'[m].classification = member[m].classification
    <3> DEFINE n == Applied(Assessed(member[m], e, u), Lane(member[m]), u)
    <3>1. /\ Lane(member[m]) \in HandlingStatuses
          /\ Moved(member[m], n, Lane(member[m]), u)
          /\ n.is_emergency = e
          /\ n.classification = member[m].classification
      BY <2>2, ReviewMoves
    <3>2. m \in Members /\ member'[m] = n
      BY <2>1 DEF Pending, Reported
    <3> HIDE DEF n
    <3> QED
      BY <3>1, <3>2 DEF Moved
  <2>5. ASSUME NEW m \in Members, m \notin Pending
        PROVE  member'[m] = member[m] /\ (member[m] # Absent => m \in apart')
    BY <2>1, <2>2, <2>5 DEF Reported
  <2>6. ASSUME NEW m \in Pending
        PROVE  MemberOK(m)'
    <3>1. m \notin apart' => member'[m].classification = "INCIDENT"
      BY <2>2, <2>4 DEF ProjectInv, MemberOK, Pending, Reported
    <3>2. member'[m] # Absent
      BY <1>0, <2>4
    <3> QED
      BY <2>1, <2>3, <2>4, <3>1 DEF MemberOK
  <2>7. ASSUME NEW m \in Members, m \notin Pending
        PROVE  MemberOK(m)'
    BY <2>3, <2>5, <2>7 DEF ProjectInv, MemberOK
  <2>8. member' \in [Members -> Ticket \cup {Absent}]
    BY <2>1, <2>4 DEF ProjectInv
  <2>9. project' \in [is_emergency : BOOLEAN, emergency_decided_by : Users \cup {NoUser}]
    BY <2>1
  <2> QED
    BY <2>2, <2>6, <2>7, <2>8, <2>9 DEF ProjectInv
<1>4. ASSUME NEW u \in Users, ReassessProjectEmergency(u)
      PROVE  ProjectInv'
  <2>1. PICK v \in BOOLEAN :
          /\ project' = [project EXCEPT !.is_emergency = v]
          /\ member' = [m \in Members |->
                IF m \in Reassessable THEN [member[m] EXCEPT !.is_emergency = v]
                ELSE member[m]]
    BY <1>4 DEF ReassessProjectEmergency
  <2>2. decided /\ apart' = apart \ Reassessable /\ opened' = opened
    BY <1>4 DEF ReassessProjectEmergency
  <2>3. /\ project' \in [is_emergency : BOOLEAN, emergency_decided_by : Users \cup {NoUser}]
        /\ project'.is_emergency = v
        /\ decided'
    BY <2>1, <2>2 DEF ProjectInv, decided
  <2>4. ASSUME NEW m \in Reassessable
        PROVE  MemberOK(m)' /\ m \in Members /\ member'[m] \in Ticket
    <3>1. /\ m \in Members /\ member[m] # Absent /\ member[m] \in Ticket
          /\ Sound(member[m]) /\ member[m].classification = "INCIDENT"
      BY DEF Reassessable, Open, Reported, ProjectInv, MemberOK
    <3> DEFINE n == [member[m] EXCEPT !.is_emergency = v]
    <3>2. Kept(member[m], n) /\ n.is_emergency = v /\ n.classification = "INCIDENT"
      BY <3>1, ReassessKeeps
    <3>3. member'[m] = n
      BY <2>1, <3>1
    <3> HIDE DEF n
    <3> QED
      BY <2>3, <3>1, <3>2, <3>3 DEF MemberOK, Kept
  <2>5. ASSUME NEW m \in Members, m \notin Reassessable
        PROVE  MemberOK(m)' /\ member'[m] = member[m]
    <3>1. member'[m] = member[m] /\ (m \in apart' <=> m \in apart)
      BY <2>1, <2>2, <2>5
    <3>2. ASSUME member[m] # Absent, m \notin apart,
                 member[m].status \in HandlingStatuses
          PROVE  FALSE
      <4>1. member[m].classification = "INCIDENT"
        BY <3>2 DEF ProjectInv, MemberOK
      <4> QED
        BY <2>5, <3>2, <4>1 DEF Reassessable, Open, Pending, Reported, HandlingStatuses,
                                TERMINAL_STATUSES, RESOLVED_STATUSES
    <3> QED
      BY <2>3, <3>1, <3>2 DEF ProjectInv, MemberOK
  <2>6. member' \in [Members -> Ticket \cup {Absent}]
    BY <2>1, <2>4, <2>5 DEF ProjectInv
  <2> QED
    BY <2>2, <2>3, <2>4, <2>5, <2>6 DEF ProjectInv
<1>5. ASSUME NEW m \in Members, AddProjectMember(m)
      PROVE  ProjectInv'
  <2>1. PICK t \in {EventMember} \cup IncidentMembers :
          member' = [member EXCEPT ![m] = Placed(t)]
    BY <1>5 DEF AddProjectMember
  <2>2. project' = project /\ apart' = apart /\ opened' = opened
    BY <1>5 DEF AddProjectMember
  <2> DEFINE n == Placed(t)
  <2>3. /\ n \in Ticket
        /\ Sound(n)
        /\ \/ n.status = "ESCALATED_T2"
           \/ n.status = "PENDING_MGR_TRIAGE" /\ n.classification = "INCIDENT"
           \/ /\ n.status \in {"AWAITING_OWNER", "AWAITING_CONTAINMENT"}
              /\ n.classification = "INCIDENT"
              /\ decided /\ n.is_emergency = project.is_emergency
    BY PlacedMembers DEF ProjectInv
  <2>4. member' = [member EXCEPT ![m] = n]
    BY <2>1
  <2> HIDE DEF n
  <2>5. MemberOK(m)'
    <3>1. member'[m] = n
      BY <2>4 DEF ProjectInv
    <3> QED
      BY <2>2, <2>3, <3>1 DEF MemberOK, decided, HandlingStatuses
  <2>6. ASSUME NEW k \in Members, k # m
        PROVE  MemberOK(k)'
    <3>1. member'[k] = member[k]
      BY <2>4, <2>6 DEF ProjectInv
    <3> QED
      BY <2>2, <3>1 DEF ProjectInv, MemberOK, decided
  <2>7. member' \in [Members -> Ticket \cup {Absent}]
    BY <2>3, <2>4 DEF ProjectInv
  <2> QED
    BY <2>2, <2>5, <2>6, <2>7 DEF ProjectInv
<1>6. ASSUME NEW m \in Reported, NEW u \in Users, MemberActs(m, u)
      PROVE  ProjectInv'
  <2>1. PICK s \in Statuses, n \in Ticket :
          /\ Becomes(m, n)
          /\ Moved(member[m], n, s, u)
          /\ member[m].status = "PENDING_MGR_TRIAGE" => decided
          /\ member[m].status # "PENDING_MGR_TRIAGE" => n.is_emergency = member[m].is_emergency
    BY <1>6, ActsMove DEF MemberMoved
  <2>2. <<member[m].status, s>> \in ALLOWED_TRANSITIONS /\ Sound(n) /\ n.status = s
    BY <2>1 DEF Moved
  <2>3. s \in HandlingStatuses =>
          member[m].status \in HandlingStatuses \cup {"PENDING_MGR_TRIAGE"}
    BY <2>2, EdgeCases DEF HandlingStatuses
  <2>4. s = "APPROVED" => member[m].status \in HandlingStatuses
    BY <2>2, EdgeCases DEF HandlingStatuses
  <2>5. s \in HandlingStatuses \cup {"APPROVED"} => decided
    BY <2>1, <2>3, <2>4 DEF ProjectInv, MemberOK, Reported
  <2> QED
    BY <2>1, <2>2, <2>3, <2>5, BecomesInv
<1>7. ASSUME NEW m \in Reported, MemberEdited(m)
      PROVE  ProjectInv'
  <2>1. PICK n \in Ticket : /\ Becomes(m, n)
                            /\ Kept(member[m], n)
                            /\ n.is_emergency = member[m].is_emergency
    BY <1>7, EditKeeps
  <2>2. n.status \in HandlingStatuses \cup {"APPROVED"} => decided
    BY <2>1 DEF Kept, ProjectInv, MemberOK, Reported
  <2> QED
    BY <2>1, <2>2, BecomesInv DEF Kept
<1>8. ASSUME NEW m \in Reported, MemberCancelled(m)
      PROVE  ProjectInv'
  <2>1. PICK n \in Ticket : Becomes(m, n) /\ EndsAs(member[m], n)
    BY <1>8, CancelEnds
  <2> QED
    BY <2>1, BecomesInv DEF EndsAs, HandlingStatuses
<1>9. CASE UNCHANGED project_vars
  BY <1>9 DEF project_vars, ProjectInv, MemberOK, decided
<1> QED
  BY <1>1, <1>2, <1>3, <1>4, <1>5, <1>6, <1>7, <1>8, <1>9 DEF ProjectNext

LEMMA ProjectInvariance == ProjectSpec => []ProjectInv
  BY InitProjectInv, NextProjectInv, PTL DEF ProjectSpec

-----------------------------------------------------------------------------
(***************************************************************************)
(* Project Incidents: the theorems                                         *)
(***************************************************************************)

\* No member is handled, verified or approved before the group's verdict.
THEOREM ReviewComesFirst == ProjectSpec => []ReviewBeforeHandling
<1>1. ProjectInv => ReviewBeforeHandling
  BY DEF ProjectInv, MemberOK, Reported, ReviewBeforeHandling
<1> QED
  BY <1>1, ProjectInvariance, PTL

\* The group's verdict is on every member that did not leave it.
THEOREM VerdictIsShared == ProjectSpec => []VerdictShared
<1>1. ProjectInv => VerdictShared
  BY DEF ProjectInv, MemberOK, Reported, VerdictShared
<1> QED
  BY <1>1, ProjectInvariance, PTL

\* Project Review can forward every waiting member, and each member in handling has
\* a forward move.
THEOREM MembersGoForward == ProjectSpec => []NoMemberStranded
<1>1. ASSUME ProjectInv, NEW m \in Pending
      PROVE  can_transition_to(member[m], Lane(member[m]), FALSE, "done")
  <2>1. /\ member[m].status = "PENDING_MGR_TRIAGE"
        /\ member[m].t1_route \in {"ADMIN", "OWNER"}
    BY <1>1 DEF ProjectInv, MemberOK, Pending, Reported, Sound, LaneOK, has_handling_lane
  <2> QED
    BY <2>1, ForwardIsLegal DEF Lane, ForwardEdges, VerificationStatuses
<1>2. ASSUME ProjectInv, NEW m \in Reported, member[m].status \in HandlingStatuses
      PROVE  \E s \in Statuses :
                /\ <<member[m].status, s>> \notin STEP_BACK_EDGES
                /\ can_transition_to(member[m], s, FALSE, Review)
  <2>1. member[m] \in Ticket /\ LaneOK(member[m])
    BY <1>2 DEF ProjectInv, MemberOK, Reported, Sound
  <2>2. member[m].status \in Routed /\ member[m].status # "PENDING_MGR_TRIAGE"
    BY <1>2 DEF HandlingStatuses, Routed, Handling, AdminLane, OwnerLane
  <2>3. PICK s \in Statuses : /\ <<member[m].status, s>> \in ForwardEdges
                              /\ can_transition_to(member[m], s, FALSE, Review)
    BY <2>1, <2>2, WayForward
  <2>4. <<member[m].status, s>> \notin STEP_BACK_EDGES
    BY <2>3 DEF ForwardEdges, STEP_BACK_EDGES
  <2> QED
    BY <2>3, <2>4
<1>3. ProjectInv => NoMemberStranded
  BY <1>1, <1>2 DEF NoMemberStranded
<1> QED
  BY <1>3, ProjectInvariance, PTL

\* What a step does to one member.
LEMMA MemberSteps ==
    ASSUME ProjectInv, [ProjectNext]_project_vars, NEW m \in Members
    PROVE  \/ member'[m] = member[m]
           \/ /\ member[m] = Absent
              /\ \E t \in {EventMember} \cup IncidentMembers : member'[m] = Placed(t)
           \/ /\ member[m] # Absent
              /\ \/ \E u \in Users, s \in Statuses : Moved(member[m], member'[m], s, u)
                 \/ Kept(member[m], member'[m])
                 \/ EndsAs(member[m], member'[m])
<1> DEFINE Own == /\ member[m] # Absent
                  /\ \/ \E u \in Users, s \in Statuses : Moved(member[m], member'[m], s, u)
                     \/ Kept(member[m], member'[m])
                     \/ EndsAs(member[m], member'[m])
           Joins == /\ member[m] = Absent
                    /\ \E t \in {EventMember} \cup IncidentMembers : member'[m] = Placed(t)
           Stays == member'[m] = member[m]
<1>1. ASSUME NEW k \in Reported, NEW n \in Ticket, Becomes(k, n)
      PROVE  IF k = m THEN member'[m] = n /\ member[m] # Absent ELSE Stays
  BY <1>1 DEF Becomes, ProjectInv, Reported
<1>2. ASSUME NEW u \in Users, ForwardProjectReview(u)
      PROVE  Own \/ Stays
  <2>1. PICK e \in BOOLEAN :
          member' = [k \in Members |->
            IF k \in Pending THEN Applied(Assessed(member[k], e, u), Lane(member[k]), u)
            ELSE member[k]]
    BY <1>2 DEF ForwardProjectReview
  <2>2. u \in opened
    BY <1>2 DEF ForwardProjectReview
  <2>3. CASE m \in Pending
    <3> DEFINE n == Applied(Assessed(member[m], e, u), Lane(member[m]), u)
    <3>1. Lane(member[m]) \in Statuses /\ Moved(member[m], n, Lane(member[m]), u)
      BY <2>2, <2>3, ReviewMoves
    <3>2. member'[m] = n /\ member[m] # Absent
      BY <2>1, <2>3 DEF Pending, Reported
    <3> HIDE DEF n
    <3> QED
      BY <3>1, <3>2
  <2>4. CASE m \notin Pending
    BY <2>1, <2>4
  <2> QED
    BY <2>3, <2>4
<1>3. ASSUME NEW u \in Users, ReassessProjectEmergency(u)
      PROVE  Own \/ Stays
  <2>1. PICK v \in BOOLEAN :
          member' = [k \in Members |->
            IF k \in Reassessable THEN [member[k] EXCEPT !.is_emergency = v]
            ELSE member[k]]
    BY <1>3 DEF ReassessProjectEmergency
  <2>2. CASE m \in Reassessable
    <3> DEFINE n == [member[m] EXCEPT !.is_emergency = v]
    <3>1. member[m] \in Ticket /\ Sound(member[m]) /\ member[m] # Absent
      BY <2>2 DEF Reassessable, Open, Reported, ProjectInv, MemberOK
    <3>2. Kept(member[m], n)
      BY <3>1, ReassessKeeps
    <3>3. member'[m] = n
      BY <2>1, <2>2
    <3> HIDE DEF n
    <3> QED
      BY <3>1, <3>2, <3>3
  <2>3. CASE m \notin Reassessable
    BY <2>1, <2>3
  <2> QED
    BY <2>2, <2>3
<1>4. ASSUME NEW k \in Members, AddProjectMember(k)
      PROVE  Joins \/ Stays
  BY <1>4 DEF AddProjectMember, ProjectInv
<1>5. ASSUME NEW k \in Reported, NEW u \in Users, MemberActs(k, u)
      PROVE  Own \/ Stays
  <2>1. PICK s \in Statuses, n \in Ticket : Becomes(k, n) /\ Moved(member[k], n, s, u)
    BY <1>5, ActsMove DEF MemberMoved
  <2> QED
    BY <1>1, <2>1
<1>6. ASSUME NEW k \in Reported, MemberEdited(k)
      PROVE  Own \/ Stays
  <2>1. PICK n \in Ticket : Becomes(k, n) /\ Kept(member[k], n)
    BY <1>6, EditKeeps
  <2> QED
    BY <1>1, <2>1
<1>7. ASSUME NEW k \in Reported, MemberCancelled(k)
      PROVE  Own \/ Stays
  <2>1. PICK n \in Ticket : Becomes(k, n) /\ EndsAs(member[k], n)
    BY <1>7, CancelEnds
  <2> QED
    BY <1>1, <2>1
<1>8. ASSUME NEW u \in Users, OpensReview(u) \/ ReviewRefused(u)
      PROVE  Stays
  BY <1>8 DEF OpensReview, ReviewRefused
<1>9. ASSUME UNCHANGED project_vars
      PROVE  Stays
  BY <1>9 DEF project_vars
<1> HIDE DEF Own, Joins, Stays
<1>10. Own \/ Joins \/ Stays
  <2>1. CASE \E u \in Users : \/ OpensReview(u)
                             \/ ForwardProjectReview(u)
                             \/ ReviewRefused(u)
                             \/ ReassessProjectEmergency(u)
                             \/ \E k \in Reported : MemberActs(k, u)
    BY <1>2, <1>3, <1>5, <1>8, <2>1
  <2>2. CASE \E k \in Members : AddProjectMember(k)
    BY <1>4, <2>2
  <2>3. CASE \E k \in Reported : MemberEdited(k) \/ MemberCancelled(k)
    BY <1>6, <1>7, <2>3
  <2>4. CASE ProjectNext
    BY <2>1, <2>2, <2>3, <2>4 DEF ProjectNext
  <2> QED
    BY <1>9, <2>4
<1> QED
  BY <1>10 DEF Own, Joins, Stays

\* A step between tickets is a step of the contract of the member.
LEMMA StepsOfMember ==
    ASSUME NEW m \in Members
    PROVE  /\ ContractStep(TicketOf(m), TicketOf(m)') => MemberContract(m)!Next
           /\ SameContract(TicketOf(m), TicketOf(m)') =>
                UNCHANGED MemberContract(m)!contract
<1> DEFINE r == TicketOf(m)
           n == TicketOf(m)'
<1>1. /\ StageOf(TicketOf(m))' = StageOf(n)
      /\ LaneOf(TicketOf(m))' = LaneOf(n)
      /\ SignedOn(TicketOf(m))' = SignedOn(n)
      /\ TicketOf(m).escalated_to_t2' = n.escalated_to_t2
  BY DEF StageOf, LaneOf, SignedOn
<1> HIDE DEF n
<1>2. ASSUME NEW a, NEW b, StageMoves(r, n, a, b)
      PROVE  MemberContract(m)!Moves(a, b)
  BY <1>1, <1>2
  DEF StageMoves, MemberContract!Moves, Contract!RoutedStages, MemberContract!RoutedStages
<1>3. ASSUME NEW e \in KeepingMoves, StageMoves(r, n, e[1], e[2]), SignedOn(n) = SignedOn(r)
      PROVE  MemberContract(m)!Next
  <2>1. MemberContract(m)!Moves(e[1], e[2]) /\ MemberContract(m)!Keeps
    BY <1>1, <1>2, <1>3 DEF MemberContract!Keeps
  <2>2. CASE e[1] \in Contract!OpenStages /\ e[2] = "cancelled"
    BY <2>1, <2>2
    DEF MemberContract!Next, MemberContract!Cancels, Contract!OpenStages,
        Contract!RoutedStages, MemberContract!OpenStages, MemberContract!RoutedStages
  <2>3. CASE e[1] \in {"tier2", "event_review", "verification"} /\ e[2] = "closed_event"
    BY <2>1, <2>3 DEF MemberContract!Next, MemberContract!ClosesAsEvent
  <2> QED
    BY <2>1, <2>2, <2>3
    DEF KeepingMoves, MemberContract!Next, MemberContract!Submits,
        MemberContract!Downgrades, MemberContract!RejectsDowngrade,
        MemberContract!Forwards, MemberContract!Reports, MemberContract!SendsBack,
        MemberContract!StepsBack
<1>4. ASSUME NEW e \in SigningMoves, StageMoves(r, n, e[1], e[2]),
             SignedOn(n) = SignedOn(r) \cup e[3]
      PROVE  MemberContract(m)!Next
  <2>1. MemberContract(m)!Moves(e[1], e[2]) /\ SignedOn(TicketOf(m))' = SignedOn(r) \cup e[3]
    BY <1>1, <1>2, <1>4
  <2> QED
    BY <2>1
    DEF SigningMoves, MemberContract!Next, MemberContract!Verifies, MemberContract!Signs,
        MemberContract!VerifiesAndApproves, MemberContract!Approves
<1>5. ContractStep(r, n) => MemberContract(m)!Next
  BY <1>1, <1>2, <1>3, <1>4
  DEF ContractStep, MemberContract!Next, MemberContract!Returns, MemberContract!Keeps,
      MemberContract!Routes, MemberContract!Submits
<1>6. SameContract(r, n) => UNCHANGED MemberContract(m)!contract
  BY <1>1 DEF SameContract, MemberContract!contract
<1> QED
  BY <1>5, <1>6 DEF n

\* A member as it enters is an opening of the contract.
LEMMA MembersOpen ==
    ASSUME NEW t \in Ticket, Sound(t), t.verified_by = NoUser, t.approved_by = NoUser,
           \/ t.status = "ESCALATED_T2" /\ t.escalated_to_t2
           \/ /\ t.status \in {"PENDING_MGR_TRIAGE", "AWAITING_OWNER", "AWAITING_CONTAINMENT"}
              /\ ~t.escalated_to_t2
    PROVE  /\ SignedOn(t) = {}
           /\ \/ StageOf(t) = "tier2" /\ LaneOf(t) = NoLane /\ t.escalated_to_t2
              \/ /\ StageOf(t) \in {"manager", "handling"} /\ LaneOf(t) \in HandlingLanes
                 /\ ~t.escalated_to_t2
<1>1. SignedOn(t) = {}
  BY DEF SignedOn
<1>2. CASE t.status = "ESCALATED_T2" /\ t.escalated_to_t2
  <2>1. StageOf(t) = "tier2"
    BY <1>2, Stages
  <2> QED
    BY <1>1, <1>2, <2>1 DEF LaneOf
<1>3. CASE /\ t.status \in {"PENDING_MGR_TRIAGE", "AWAITING_OWNER", "AWAITING_CONTAINMENT"}
           /\ ~t.escalated_to_t2
  <2>1. StageOf(t) \in {"manager", "handling"}
    BY <1>3, Stages
  <2>2. <<t.t1_route, t.assigned_admin>> \in HandlingLanes
    BY <1>3 DEF Sound, LaneOK, has_handling_lane, HandlingLanes, AdminLane, OwnerLane
  <2> QED
    BY <1>1, <1>3, <2>1, <2>2 DEF LaneOf
<1> QED
  BY <1>2, <1>3

\* A member not reported yet, as the contract sees it.
LEMMA Unseen ==
    ASSUME NEW m \in Members, member[m] = Absent
    PROVE  /\ StageOf(TicketOf(m)) = "none"
           /\ LaneOf(TicketOf(m)) = NoLane
           /\ TicketOf(m).escalated_to_t2 = FALSE
           /\ SignedOn(TicketOf(m)) = {}
<1>1. /\ TicketOf(m).status = "none"
      /\ TicketOf(m).escalated_to_t2 = FALSE
      /\ TicketOf(m).verified_by = NoUser
      /\ TicketOf(m).approved_by = NoUser
  BY DEF TicketOf, BlankMember
<1>2. StageOf(TicketOf(m)) = "none"
  BY <1>1 DEF StageOf, VerificationStatuses
<1> QED
  BY <1>1, <1>2 DEF LaneOf, SignedOn

\* Each member keeps the contract of a ticket, moved by its group or on its own.
THEOREM MembersKeepTheContract == ProjectSpec => MembersKeepContract
<1> DEFINE Begins == \A m \in Members : MemberContract(m)!Init
           Steps == \A m \in Members :
                      [MemberContract(m)!Next]_(MemberContract(m)!contract)
<1>0. Absent \notin Ticket
  BY ProjectAssumption
<1>1. ASSUME ProjectInit
      PROVE  Begins
  <2> SUFFICES ASSUME NEW m \in Members PROVE MemberContract(m)!Init
    OBVIOUS
  <2>1. CASE member[m] = Absent
    BY <2>1, Unseen DEF MemberContract!Init, MemberContract!Unreported
  <2>2. CASE member[m] # Absent
    <3>1. member[m] \in {EventMember} \cup IncidentMembers /\ TicketOf(m) = member[m]
      BY <1>1, <2>2 DEF ProjectInit, TicketOf
    <3>2. /\ SignedOn(member[m]) = {}
          /\ \/ /\ StageOf(member[m]) = "tier2" /\ LaneOf(member[m]) = NoLane
                /\ member[m].escalated_to_t2
             \/ /\ StageOf(member[m]) \in {"manager", "handling"}
                /\ LaneOf(member[m]) \in HandlingLanes
                /\ ~member[m].escalated_to_t2
      BY <3>1, NewMembers, MembersOpen
    <3> QED
      BY <3>1, <3>2 DEF MemberContract!Init, MemberContract!Opening
  <2> QED
    BY <2>1, <2>2
<1>2. ASSUME ProjectInv, [ProjectNext]_project_vars
      PROVE  Steps
  <2> SUFFICES ASSUME NEW m \in Members
               PROVE  [MemberContract(m)!Next]_(MemberContract(m)!contract)
    OBVIOUS
  <2>1. CASE member'[m] = member[m]
    <3>1. TicketOf(m)' = TicketOf(m)
      BY <2>1 DEF TicketOf
    <3>2. SameContract(TicketOf(m), TicketOf(m)')
      BY <3>1 DEF SameContract
    <3> QED
      BY <3>2, StepsOfMember
  <2>2. ASSUME member[m] = Absent, NEW t \in {EventMember} \cup IncidentMembers,
               member'[m] = Placed(t)
        PROVE  MemberContract(m)!Next
    <3> DEFINE n == Placed(t)
    <3>1. /\ n \in Ticket /\ SignedOn(n) = {}
          /\ \/ StageOf(n) = "tier2" /\ LaneOf(n) = NoLane /\ n.escalated_to_t2
             \/ /\ StageOf(n) \in {"manager", "handling"} /\ LaneOf(n) \in HandlingLanes
                /\ ~n.escalated_to_t2
      BY <1>2, PlacedMembers, MembersOpen DEF ProjectInv
    <3>2. TicketOf(m)' = n
      BY <1>0, <2>2, <3>1 DEF TicketOf
    <3> HIDE DEF n
    <3>3. /\ StageOf(TicketOf(m))' = StageOf(n)
          /\ LaneOf(TicketOf(m))' = LaneOf(n)
          /\ SignedOn(TicketOf(m))' = SignedOn(n)
          /\ TicketOf(m).escalated_to_t2' = n.escalated_to_t2
      BY <3>2 DEF StageOf, LaneOf, SignedOn
    <3> QED
      BY <2>2, <3>1, <3>3, Unseen
      DEF MemberContract!Next, MemberContract!Opens, MemberContract!Unreported,
          MemberContract!Opening
  <2>3. CASE /\ member[m] # Absent
             /\ \/ \E u \in Users, s \in Statuses : Moved(member[m], member'[m], s, u)
                \/ Kept(member[m], member'[m])
                \/ EndsAs(member[m], member'[m])
    <3>1. member[m] \in Ticket /\ Sound(member[m]) /\ member'[m] \in Ticket
      BY <1>2, <2>3 DEF ProjectInv, MemberOK, Moved, Kept, EndsAs
    <3>2. TicketOf(m) = member[m] /\ TicketOf(m)' = member'[m]
      BY <1>0, <2>3, <3>1 DEF TicketOf
    <3>3. \/ ContractStep(member[m], member'[m])
          \/ SameContract(member[m], member'[m])
      BY <2>3, <3>1, MoveSteps, SameColumnsSameContract, CancelSteps DEF Kept, EndsAs
    <3> QED
      BY <3>2, <3>3, StepsOfMember
  <2> QED
    BY <1>2, <2>1, <2>2, <2>3, MemberSteps
<1>3. MembersKeepContract <=> Begins /\ [][Steps]_project_vars
  BY DEF MembersKeepContract
<1>4. ProjectInv /\ [ProjectNext]_project_vars => [Steps]_project_vars
  BY <1>2
<1> HIDE DEF Begins, Steps
<1> QED
  BY <1>1, <1>3, <1>4, ProjectInvariance, PTL DEF ProjectSpec
=============================================================================
