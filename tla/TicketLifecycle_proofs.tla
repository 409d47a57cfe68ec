----------------------- MODULE TicketLifecycle_proofs -----------------------
(***************************************************************************)
(* Theorems about TicketLifecycle, and about the pages (Worklists) and the *)
(* letters (Notices) around it, for every set of accounts, every set of    *)
(* concurrent requests and every choice of Races.                          *)
(*                                                                         *)
(* The argument: a write is either Applied to some instance of the ticket, *)
(* current or outdated, or changes columns of the locked row.  So it is    *)
(* enough that every instance in existence, the row and the copies the     *)
(* requests hold, is Sound, and that Applied takes Sound to Sound along a  *)
(* legal edge.  That an outdated copy may overwrite a newer row does not   *)
(* matter to these properties.                                             *)
(*                                                                         *)
(* A step of Notices is a step of TicketLifecycle by a request that holds  *)
(* the row itself, so the same invariant holds there; with it the rules of *)
(* the pages are compared with the rules of the services one by one, and   *)
(* the letters of a service with the edges it can take.                    *)
(***************************************************************************)
EXTENDS Notices, TLAPS

\* The lane of a routed case is complete.
LaneOK(t) ==
    /\ t.status \in {"PENDING_MGR_TRIAGE", "PENDING_MANAGER"} => has_handling_lane(t)
    /\ t.status \in AdminLane => t.t1_route = "ADMIN" /\ t.assigned_admin # NoUser
    /\ t.status \in OwnerLane => t.t1_route = "OWNER"
    /\ t.assigned_admin \in SysAdmins \cup {NoUser}

\* What has happened to the case agrees with where it is.
HistoryOK(t) ==
    /\ t.status = "NEW" => ~t.escalated_to_t2
    /\ t.status \in {"ESCALATED_T2", "MONITORING", "PENDING_MGR_EVENT_REVIEW"} =>
            t.escalated_to_t2
    /\ t.has_been_monitored => t.escalated_to_t2

\* The signatures agree with where the case is.
SignaturesOK(t) ==
    /\ t.status = "APPROVED" <=> t.approved_by # NoUser
    /\ t.status \in {"APPROVED", "PENDING_MANAGER"} => t.verified_by # NoUser
    /\ t.verified_by \in Tier2 \cup Superusers \cup {NoUser}
    /\ t.approved_by \in Tier2 \cup Managers \cup Superusers \cup {NoUser}

Sound(t) == LaneOK(t) /\ HistoryOK(t) /\ SignaturesOK(t)

-----------------------------------------------------------------------------
(***************************************************************************)
(* Lemmas about the rules of TicketRules                                   *)
(***************************************************************************)

\* What Applied does to each column the properties read, and to nothing else.
LEMMA AppliedColumns ==
    ASSUME NEW t \in Ticket, NEW s \in Statuses, NEW u \in Users
    PROVE  LET n == Applied(t, s, u) IN
           /\ n \in Ticket
           /\ n.status = s
           /\ n.t1_route = t.t1_route
           /\ n.assigned_admin = t.assigned_admin
           /\ n.is_emergency = t.is_emergency
           /\ n.escalated_to_t2 <=> \/ t.escalated_to_t2
                                    \/ s = "ESCALATED_T2"
                                    \/ t.status \in {"ESCALATED_T2", "MONITORING"}
           /\ n.has_been_monitored <=> (t.has_been_monitored \/ s = "MONITORING")
           /\ n.verified_by = verified_by_after(t, s, u)
           /\ n.approved_by = IF t.approved_by = NoUser /\ s = "APPROVED" THEN u
                              ELSE t.approved_by
           /\ n.t2_claimed_by = NoUser
<1>1. classification_after(t, s) \in Classifications
  BY DEF classification_after, Classifications, Ticket
<1>2. verified_by_after(t, s, u) \in Users \cup {NoUser}
  BY DEF verified_by_after, Ticket
<1> DEFINE c == classification_after(t, s)
           e == IF s = "ESCALATED_T2" THEN c ELSE t.classification_at_escalation
           f == t.first_submitted \/ t.status = "NEW"
           h == \/ t.escalated_to_t2
                \/ s = "ESCALATED_T2"
                \/ t.status \in {"ESCALATED_T2", "MONITORING"}
           m == t.has_been_monitored \/ s = "MONITORING"
           v == verified_by_after(t, s, u)
           a == IF t.approved_by = NoUser /\ s = "APPROVED" THEN u ELSE t.approved_by
           n == [t EXCEPT !.status = s, !.first_submitted = f, !.escalated_to_t2 = h,
                          !.classification = c, !.classification_at_escalation = e,
                          !.has_been_monitored = m, !.verified_by = v,
                          !.approved_by = a, !.t2_claimed_by = NoUser]
<1>3. Applied(t, s, u) = n
  BY DEF Applied, Stamped
<1>4. /\ c \in Classifications
      /\ e \in Classifications
      /\ f \in BOOLEAN
      /\ h \in BOOLEAN
      /\ m \in BOOLEAN
      /\ v \in Users \cup {NoUser}
      /\ a \in Users \cup {NoUser}
  BY <1>1, <1>2 DEF Ticket
<1> HIDE DEF c, e, f, h, m, v, a
<1>5. n \in Ticket
  BY ZenonT(30), <1>4 DEF Ticket
<1>6. /\ n.status = s
      /\ n.t1_route = t.t1_route
      /\ n.assigned_admin = t.assigned_admin
      /\ n.is_emergency = t.is_emergency
      /\ n.escalated_to_t2 = h
      /\ n.has_been_monitored = m
      /\ n.verified_by = v
      /\ n.approved_by = a
      /\ n.t2_claimed_by = NoUser
  BY DEF Ticket
<1> HIDE DEF n
<1> QED
  BY <1>3, <1>5, <1>6 DEF c, e, f, h, m, v, a

\* The edges, status by status.
LEMMA EdgeCases ==
    ASSUME NEW s, NEW n, <<s, n>> \in ALLOWED_TRANSITIONS
    PROVE  \/ s = "NEW" /\ n \in {"PENDING_MGR_TRIAGE", "ESCALATED_T2"}
           \/ s = "ESCALATED_T2" /\ n \in {"PENDING_MGR_TRIAGE", "CLOSED_EVENT",
                                           "PENDING_MGR_EVENT_REVIEW", "MONITORING"}
           \/ s = "MONITORING" /\ n \in {"PENDING_MGR_TRIAGE", "CLOSED_EVENT"}
           \/ s = "PENDING_MGR_EVENT_REVIEW" /\ n \in {"CLOSED_EVENT", "ESCALATED_T2"}
           \/ s = "PENDING_MGR_TRIAGE" /\ n \in {"ESCALATED_T2", "NEW",
                                                 "AWAITING_CONTAINMENT", "AWAITING_OWNER"}
           \/ s = "AWAITING_CONTAINMENT" /\ n \in {"CONTAINMENT_REPORTED",
                                                   "PENDING_MGR_TRIAGE"}
           \/ s = "AWAITING_OWNER" /\ n \in {"PENDING_T2_REVIEW", "PENDING_MGR_TRIAGE"}
           \/ s = "OWNER_REMEDIATED" /\ n \in {"PENDING_T2_REVIEW", "AWAITING_OWNER"}
           \/ s = "CONTAINMENT_REPORTED" /\ n \in {"AWAITING_CONTAINMENT",
                                       "PENDING_MANAGER", "APPROVED", "CLOSED_EVENT"}
           \/ s = "PENDING_T2_REVIEW" /\ n \in {"AWAITING_OWNER", "PENDING_MANAGER",
                                                "APPROVED", "CLOSED_EVENT"}
           \/ s = "PENDING_MANAGER" /\ n \in {"APPROVED", "CONTAINMENT_REPORTED",
                                              "PENDING_T2_REVIEW"}
  BY DEF ALLOWED_TRANSITIONS, CreatorEdges, Tier2Edges, ManagerEdges,
         MANAGER_RETURN_EDGES, STEP_BACK_EDGES, AssignedAdminEdges

\* Only Tier 2 (or a superuser) takes a verified case forward.
LEMMA VerifierRole ==
    ASSUME NEW t, NEW n, NEW u, MayDrive(t, n, u),
           t.status \in VerificationStatuses, n \in {"PENDING_MANAGER", "APPROVED"}
    PROVE  u \in Tier2 \cup Superusers
  BY DEF MayDrive, VerificationStatuses, CreatorEdges, Tier2Edges, ManagerEdges,
         MANAGER_RETURN_EDGES, STEP_BACK_EDGES, AssignedAdminEdges

\* Only a manager (or a superuser) approves what was sent to the manager.
LEMMA ApproverRole ==
    ASSUME NEW t, NEW u, MayDrive(t, "APPROVED", u), t.status = "PENDING_MANAGER"
    PROVE  u \in Managers \cup Superusers
  BY DEF MayDrive, CreatorEdges, Tier2Edges, ManagerEdges,
         MANAGER_RETURN_EDGES, STEP_BACK_EDGES, AssignedAdminEdges

\* A legal move by a permitted user takes a sound instance to a sound one.
LEMMA MoveSound ==
    ASSUME NEW t \in Ticket, Sound(t), NEW s \in Statuses, NEW u \in Users,
           NEW openWork, NEW group, can_transition_to(t, s, openWork, group),
           MayDrive(t, s, u)
    PROVE  /\ Applied(t, s, u) \in Ticket
           /\ Sound(Applied(t, s, u))
           /\ Applied(t, s, u).t2_claimed_by = NoUser
<1> DEFINE n == Applied(t, s, u)
<1> HIDE DEF n
<1>1. /\ n \in Ticket
      /\ n.status = s
      /\ n.t1_route = t.t1_route
      /\ n.assigned_admin = t.assigned_admin
      /\ n.is_emergency = t.is_emergency
      /\ n.escalated_to_t2 <=> \/ t.escalated_to_t2
                               \/ s = "ESCALATED_T2"
                               \/ t.status \in {"ESCALATED_T2", "MONITORING"}
      /\ n.has_been_monitored <=> (t.has_been_monitored \/ s = "MONITORING")
      /\ n.verified_by = verified_by_after(t, s, u)
      /\ n.approved_by = IF t.approved_by = NoUser /\ s = "APPROVED" THEN u
                         ELSE t.approved_by
      /\ n.t2_claimed_by = NoUser
  BY AppliedColumns DEF n
<1>2. <<t.status, s>> \in ALLOWED_TRANSITIONS
  BY DEF can_transition_to
<1>3. NoUser \notin Users
  BY AccountsAssumption
<1>4. LaneOK(n)
  <2>1. s = "PENDING_MGR_TRIAGE" => has_handling_lane(t)
    <3>1. CASE <<t.status, s>> \in LANE_ROUTING_EDGES
      BY <3>1 DEF can_transition_to
    <3>2. CASE <<t.status, s>> \notin LANE_ROUTING_EDGES
      BY <1>2, <3>2, EdgeCases
      DEF LANE_ROUTING_EDGES, Sound, LaneOK, has_handling_lane, AdminLane, OwnerLane
    <3> QED
      BY <3>1, <3>2
  <2>2. s = "PENDING_MANAGER" => has_handling_lane(t)
    BY <1>2, EdgeCases DEF Sound, LaneOK, has_handling_lane, AdminLane, OwnerLane
  <2>3. s \in AdminLane => t.t1_route = "ADMIN" /\ t.assigned_admin # NoUser
    <3>1. CASE <<t.status, s>> \in AdminLaneEdges
      BY <3>1 DEF AdminLaneEdges, can_transition_to, Sound, LaneOK, has_handling_lane
    <3>2. CASE <<t.status, s>> \notin AdminLaneEdges
      BY <1>2, <3>2, EdgeCases DEF AdminLaneEdges, Sound, LaneOK, AdminLane
    <3> QED
      BY <3>1, <3>2
  <2>4. s \in OwnerLane => t.t1_route = "OWNER"
    <3>1. CASE <<t.status, s>> \in OwnerLaneEdges
      BY <3>1 DEF OwnerLaneEdges, can_transition_to
    <3>2. CASE <<t.status, s>> \notin OwnerLaneEdges
      BY <1>2, <3>2, EdgeCases DEF OwnerLaneEdges, Sound, LaneOK, OwnerLane
    <3> QED
      BY <3>1, <3>2
  <2> QED
    BY <1>1, <2>1, <2>2, <2>3, <2>4 DEF Sound, LaneOK, has_handling_lane
<1>5. HistoryOK(n)
  <2>1. s = "NEW" => ~t.escalated_to_t2 /\ t.status = "PENDING_MGR_TRIAGE"
    BY <1>2, EdgeCases
    DEF can_transition_to, MANAGER_RETURN_EDGES, manager_return_target
  <2>2. s \in {"MONITORING", "PENDING_MGR_EVENT_REVIEW"} => t.status = "ESCALATED_T2"
    BY <1>2, EdgeCases
  <2>3. t.has_been_monitored => t.escalated_to_t2
    BY DEF Sound, HistoryOK
  <2> QED
    BY <1>1, <2>1, <2>2, <2>3 DEF HistoryOK
<1>6. SignaturesOK(n)
  <2>1. t.status # "APPROVED"
    BY <1>2, EdgeCases
  <2>2. t.approved_by = NoUser
    BY <2>1 DEF Sound, SignaturesOK
  <2>3. s \in {"APPROVED", "PENDING_MANAGER"} =>
          t.status \in VerificationStatuses \cup {"PENDING_MANAGER"}
    BY <1>2, EdgeCases DEF VerificationStatuses
  <2>4. n.status \in {"APPROVED", "PENDING_MANAGER"} => n.verified_by # NoUser
    BY <1>1, <1>3, <2>3 DEF verified_by_after, Sound, SignaturesOK
  <2>5. n.verified_by \in Tier2 \cup Superusers \cup {NoUser}
    BY <1>1, VerifierRole DEF verified_by_after, Sound, SignaturesOK
  <2>6. s = "APPROVED" => u \in Tier2 \cup Managers \cup Superusers
    BY <2>3, VerifierRole, ApproverRole
  <2>7. n.status = "APPROVED" <=> n.approved_by # NoUser
    BY <1>1, <1>3, <2>2
  <2>8. n.approved_by \in Tier2 \cup Managers \cup Superusers \cup {NoUser}
    BY <1>1, <2>2, <2>6
  <2> QED
    BY <2>4, <2>5, <2>7, <2>8 DEF SignaturesOK
<1> QED
  BY <1>1, <1>4, <1>5, <1>6 DEF Sound, n

\* Soundness reads seven columns.
LEMMA SameColumns ==
    ASSUME NEW t \in Ticket, Sound(t), NEW n \in Ticket,
           n.status = t.status,
           n.escalated_to_t2 = t.escalated_to_t2,
           n.has_been_monitored = t.has_been_monitored,
           n.verified_by = t.verified_by,
           n.approved_by = t.approved_by,
           \/ n.t1_route = t.t1_route /\ n.assigned_admin = t.assigned_admin
           \/ /\ n.status \in {"NEW", "ESCALATED_T2", "MONITORING"}
              /\ n.assigned_admin \in SysAdmins \cup {NoUser}
    PROVE  Sound(n)
<1>1. LaneOK(n)
  BY DEF Sound, LaneOK, has_handling_lane, AdminLane, OwnerLane
<1>2. HistoryOK(n)
  BY DEF Sound, HistoryOK, Ticket
<1>3. SignaturesOK(n)
  BY DEF Sound, SignaturesOK
<1> QED
  BY <1>1, <1>2, <1>3 DEF Sound

\* What Tier 2 and the manager's form set on an instance before it moves.
LEMMA ReclassifiedTyped ==
    ASSUME NEW t \in Ticket, NEW k \in Classifications
    PROVE  [t EXCEPT !.classification = k] \in Ticket
           /\ [t EXCEPT !.classification = k].status = t.status
  BY DEF Ticket

LEMMA AssessedTyped ==
    ASSUME NEW t \in Ticket, NEW e \in BOOLEAN, NEW by \in Users \cup {NoUser}
    PROVE  [t EXCEPT !.is_emergency = e, !.emergency_decided_by = by] \in Ticket
  BY DEF Ticket

\* A classification set on the instance before it moves, or by an edit.
LEMMA ReclassifiedSound ==
    ASSUME NEW t \in Ticket, Sound(t), NEW k \in Classifications
    PROVE  LET n == [t EXCEPT !.classification = k] IN
           /\ n \in Ticket
           /\ n.status = t.status
           /\ n.t2_claimed_by = t.t2_claimed_by
           /\ n.is_emergency = t.is_emergency
           /\ Sound(n)
<1> DEFINE n == [t EXCEPT !.classification = k]
<1>1. /\ n \in Ticket
      /\ n.status = t.status
      /\ n.t1_route = t.t1_route
      /\ n.assigned_admin = t.assigned_admin
      /\ n.escalated_to_t2 = t.escalated_to_t2
      /\ n.has_been_monitored = t.has_been_monitored
      /\ n.verified_by = t.verified_by
      /\ n.approved_by = t.approved_by
      /\ n.t2_claimed_by = t.t2_claimed_by
      /\ n.is_emergency = t.is_emergency
  BY DEF Ticket
<1> HIDE DEF n
<1>2. Sound(n)
  BY <1>1, SameColumns
<1> QED
  BY <1>1, <1>2 DEF n

\* Tier 2's choice of a lane while the case is on its desk or on the watch.
LEMMA RelanedSound ==
    ASSUME NEW t \in Ticket, Sound(t), t.status \in {"ESCALATED_T2", "MONITORING"},
           NEW d \in WithLane(t)
    PROVE  /\ d \in Ticket
           /\ d.status = t.status
           /\ d.is_emergency = t.is_emergency
           /\ Sound(d)
<1>1. SysAdmins \subseteq Users
  BY AccountsAssumption
<1>2. /\ d \in Ticket
      /\ d.status = t.status
      /\ d.is_emergency = t.is_emergency
      /\ d.escalated_to_t2 = t.escalated_to_t2
      /\ d.has_been_monitored = t.has_been_monitored
      /\ d.verified_by = t.verified_by
      /\ d.approved_by = t.approved_by
      /\ d.assigned_admin \in SysAdmins \cup {NoUser}
  <2>1. t.assigned_admin \in SysAdmins \cup {NoUser}
    BY DEF Sound, LaneOK
  <2>2. CASE d = [t EXCEPT !.t1_route = "OWNER"]
    BY <2>1, <2>2 DEF Ticket, Routes
  <2>3. ASSUME NEW a \in SysAdmins,
               d = [t EXCEPT !.t1_route = "ADMIN", !.assigned_admin = a]
        PROVE  <1>2
    BY <1>1, <2>3 DEF Ticket, Routes
  <2> QED
    BY <2>2, <2>3 DEF WithLane
<1> QED
  BY <1>2, SameColumns

\* The manager's assessment, written on the instance before it moves.
LEMMA AssessedSound ==
    ASSUME NEW t \in Ticket, Sound(t), NEW e \in BOOLEAN, NEW m \in Users \cup {NoUser}
    PROVE  /\ [t EXCEPT !.is_emergency = e, !.emergency_decided_by = m] \in Ticket
           /\ Sound([t EXCEPT !.is_emergency = e, !.emergency_decided_by = m])
<1> DEFINE n == [t EXCEPT !.is_emergency = e, !.emergency_decided_by = m]
<1>1. /\ n \in Ticket
      /\ n.status = t.status
      /\ n.t1_route = t.t1_route
      /\ n.assigned_admin = t.assigned_admin
      /\ n.escalated_to_t2 = t.escalated_to_t2
      /\ n.has_been_monitored = t.has_been_monitored
      /\ n.verified_by = t.verified_by
      /\ n.approved_by = t.approved_by
  BY DEF Ticket
<1> HIDE DEF n
<1>2. Sound(n)
  BY <1>1, SameColumns
<1> QED
  BY <1>1, <1>2 DEF n

\* A preparation save, on a NEW row.
LEMMA PreparedColumns ==
    ASSUME NEW t \in Ticket, NEW blankOk \in BOOLEAN, NEW n \in Prepared(t, blankOk)
    PROVE  /\ n \in Ticket
           /\ n.status = t.status
           /\ n.escalated_to_t2 = t.escalated_to_t2
           /\ n.has_been_monitored = t.has_been_monitored
           /\ n.verified_by = t.verified_by
           /\ n.approved_by = t.approved_by
           /\ n.t2_claimed_by = t.t2_claimed_by
           /\ n.is_emergency = t.is_emergency
           /\ n.assigned_admin \in SysAdmins \cup {NoUser}
<1>1. PICK k \in Classifications, l \in Routes, a \in SysAdmins \cup {NoUser} :
        n = With(t, k, l, a)
  BY DEF Prepared, Classifications, Routes
<1>2. a \in Users \cup {NoUser}
  BY <1>1, AccountsAssumption
<1> QED
  BY <1>1, <1>2 DEF With, Ticket

-----------------------------------------------------------------------------
(***************************************************************************)
(* Every action of Transitions is a legal move of some sound instance      *)
(***************************************************************************)

\* The row is overwritten with the outcome of a legal move of a sound instance t.
\* Only a Tier 2 review moves the row from a status it has left.
LegalMove(q) ==
    \E t \in Ticket, s \in Statuses :
        /\ Sound(t)
        /\ can_transition_to(t, s, hasOpenWork, "none")
        /\ MayDrive(t, s, q.user)
        /\ row' = Applied(t, s, q.user)
        /\ work' = work
        /\ row.status # "CANCELLED"
        /\ t.status = row.status \/ (CompleteT2Review(q) /\ q.copy.status # row.status)

\* A successful Ticket.transition_to is a legal move of the instance it wrote.
LEMMA TransitionToIsLegal ==
    ASSUME row \in Ticket, NEW q \in Request, NEW c \in Ticket, Sound(c),
           NEW s \in Statuses, TransitionTo(q, c, s)
    PROVE  LegalMove(q)
<1> DEFINE locked == [c EXCEPT !.t2_claimed_by = row.t2_claimed_by]
<1>1. /\ locked \in Ticket
      /\ locked.status = c.status
      /\ locked.t1_route = c.t1_route
      /\ locked.assigned_admin = c.assigned_admin
      /\ locked.escalated_to_t2 = c.escalated_to_t2
      /\ locked.has_been_monitored = c.has_been_monitored
      /\ locked.verified_by = c.verified_by
      /\ locked.approved_by = c.approved_by
  BY DEF Ticket
<1>2. /\ can_transition_to(locked, s, hasOpenWork, "none")
      /\ MayDrive(locked, s, q.user)
      /\ row' = Applied(locked, s, q.user)
      /\ work' = work
      /\ row.status # "CANCELLED"
      /\ c.status = row.status
  BY DEF TransitionTo
<1> HIDE DEF locked
<1>3. Sound(locked)
  BY <1>1, SameColumns
<1> QED
  BY <1>1, <1>2, <1>3 DEF LegalMove

\* So is complete_t2_review, of the reviewer's copy with the decision on it.
LEMMA ReviewIsLegal ==
    ASSUME row \in Ticket, NEW q \in Request, Sound(q.copy), CompleteT2Review(q)
    PROVE  LegalMove(q)
<1>1. q.copy \in Ticket
  BY DEF Request
<1>2. q.copy.status = "ESCALATED_T2"
  BY DEF CompleteT2Review
<1>3. PICK d \in T2Decisions(q.copy) :
        /\ can_transition_to(d[1], d[2], hasOpenWork, "none")
        /\ MayDrive(d[1], d[2], q.user)
        /\ row' = Applied(d[1], d[2], q.user)
  BY DEF CompleteT2Review
<1>4. /\ row.status # "CANCELLED"
      /\ work' = work
  BY DEF CompleteT2Review
<1>5. /\ d[1] \in Ticket
      /\ d[1].status = q.copy.status
      /\ Sound(d[1])
      /\ d[2] \in Statuses
  <2>1. CASE /\ d[1] = [q.copy EXCEPT !.classification = "EVENT"]
             /\ d[2] \in {"PENDING_MGR_EVENT_REVIEW", "CLOSED_EVENT"}
    <3>1. "EVENT" \in Classifications
      BY DEF Classifications
    <3> QED
      BY <1>1, <2>1, <3>1, ReclassifiedSound
      DEF Statuses, TERMINAL_STATUSES, RESOLVED_STATUSES, MANAGER_QUEUE_STATUSES
  <2>2. ASSUME NEW e \in WithLane(q.copy),
               d = <<[e EXCEPT !.classification = "INCIDENT"], "PENDING_MGR_TRIAGE">>
        PROVE  <1>5
    <3>1. "INCIDENT" \in Classifications
      BY DEF Classifications
    <3>2. e \in Ticket /\ e.status = q.copy.status /\ Sound(e)
      BY <1>1, <1>2, RelanedSound
    <3> DEFINE n == [e EXCEPT !.classification = "INCIDENT"]
    <3>3. n \in Ticket /\ n.status = e.status /\ Sound(n)
      BY <3>1, <3>2, ReclassifiedSound
    <3> HIDE DEF n
    <3>4. d[1] = n /\ d[2] = "PENDING_MGR_TRIAGE"
      BY <2>2 DEF n
    <3> QED
      BY <3>2, <3>3, <3>4 DEF Statuses, MANAGER_QUEUE_STATUSES
  <2> QED
    BY <2>1, <2>2 DEF T2Decisions
<1> QED
  BY <1>3, <1>4, <1>5 DEF LegalMove

\* So is every handler that moves the ticket along an edge.
LEMMA TransitionsAreLegal ==
    ASSUME row \in Ticket, NEW q \in Request, Sound(q.copy), Transitions(q)
    PROVE  LegalMove(q)
<1>1. q.copy \in Ticket
  BY DEF Request
<1>2. {"EVENT", "INCIDENT"} \subseteq Classifications
  BY DEF Classifications
<1> USE <1>1 DEF Statuses, TERMINAL_STATUSES, RESOLVED_STATUSES, TIER2_QUEUE_STATUSES,
                MANAGER_QUEUE_STATUSES
<1>3. CASE SubmitPreparation(q)
  <2>1. submission_target(q.copy) \in Statuses
    BY DEF submission_target
  <2> QED
    BY <1>3, <2>1, TransitionToIsLegal DEF SubmitPreparation
<1>4. CASE ReturnForCompletion(q)
  <2>1. manager_return_target(q.copy) \in Statuses
    BY DEF manager_return_target
  <2> QED
    BY <1>4, <2>1, TransitionToIsLegal DEF ReturnForCompletion
<1>5. CASE ManagerForward(q)
  <2>1. PICK emergency \in BOOLEAN, s \in {"AWAITING_OWNER", "AWAITING_CONTAINMENT"} :
          TransitionTo(q, [q.copy EXCEPT
                             !.is_emergency = emergency,
                             !.emergency_decided_by = IF @ = NoUser THEN q.user ELSE @], s)
    BY <1>5 DEF ManagerForward
  <2> DEFINE by == IF q.copy.emergency_decided_by = NoUser THEN q.user
                   ELSE q.copy.emergency_decided_by
  <2>2. by \in Users \cup {NoUser}
    BY DEF Ticket, Request
  <2>3. TransitionTo(q, [q.copy EXCEPT !.is_emergency = emergency,
                                       !.emergency_decided_by = by], s)
    BY <2>1
  <2> HIDE DEF by
  <2> QED
    BY <2>2, <2>3, AssessedSound, TransitionToIsLegal
<1>6. CASE StepBack(q)
  <2>1. step_back_target(q.copy) \in Statuses
    BY DEF step_back_target
  <2> QED
    BY <1>6, <2>1, TransitionToIsLegal DEF StepBack
<1>7. CASE CompleteT2Review(q)
  BY <1>7, ReviewIsLegal
<1>8. CASE StartMonitoring(q)
  BY <1>8, TransitionToIsLegal DEF StartMonitoring
<1>9. CASE ConcludeAsIncident(q)
  <2>1. /\ q.copy.status = "MONITORING"
        /\ \E d \in WithLane(q.copy) :
             TransitionTo(q, [d EXCEPT !.classification = "INCIDENT"], "PENDING_MGR_TRIAGE")
    BY <1>9 DEF ConcludeAsIncident
  <2> QED
    BY <1>2, <2>1, RelanedSound, ReclassifiedSound, TransitionToIsLegal
<1>10. ASSUME NEW s \in Statuses,
              TransitionTo(q, [q.copy EXCEPT !.classification = "EVENT"], s)
       PROVE  LegalMove(q)
  BY <1>2, <1>10, ReclassifiedSound, TransitionToIsLegal
<1>11. CASE ConcludeAsEvent(q)
  BY <1>10, <1>11 DEF ConcludeAsEvent
<1>12. CASE ReclassifyAsEvent(q)
  BY <1>10, <1>12 DEF ReclassifyAsEvent
<1>13. CASE SubmitContainment(q)
  BY <1>13, TransitionToIsLegal DEF SubmitContainment
<1>14. CASE WorkflowAction(q)
  BY <1>14, TransitionToIsLegal DEF WorkflowAction
<1> QED
  BY <1>3, <1>4, <1>5, <1>6, <1>7, <1>8, <1>9, <1>11, <1>12, <1>13, <1>14 DEF Transitions

-----------------------------------------------------------------------------
(***************************************************************************)
(* The inductive invariant                                                 *)
(***************************************************************************)

\* What is committed.
RowOK ==
    /\ row \in Ticket
    /\ work \in {"none", "open", "done"}
    /\ Sound(row)
    /\ ClaimsInQueue

\* What the requests in flight hold, fresh or outdated.
CopiesOK ==
    /\ req \in [Requests -> Request \cup {Idle}]
    /\ \A r \in Requests : req[r] # Idle => Sound(req[r].copy)

IInv == RowOK /\ CopiesOK

\* A legal move leaves a sound row, with the claim cleared.
LEMMA LegalMoveKeepsRow ==
    ASSUME RowOK, NEW q \in Request, LegalMove(q)
    PROVE  RowOK'
<1>1. PICK t \in Ticket, s \in Statuses :
        /\ Sound(t)
        /\ can_transition_to(t, s, hasOpenWork, "none")
        /\ MayDrive(t, s, q.user)
        /\ row' = Applied(t, s, q.user)
        /\ work' = work
  BY DEF LegalMove
<1>2. row' \in Ticket /\ Sound(row') /\ row'.t2_claimed_by = NoUser
  <2>1. q.user \in Users
    BY DEF Request
  <2> QED
    BY <1>1, <2>1, MoveSound
<1>3. Sound(row)'
  BY <1>2 DEF Sound, LaneOK, HistoryOK, SignaturesOK
<1> QED
  BY <1>1, <1>2, <1>3 DEF RowOK, ClaimsInQueue

\* Changes of the row that stay in its status and keep its history and signatures.
LEMMA SameStatusKeepsRow ==
    ASSUME RowOK, row' \in Ticket, work' \in {"none", "open", "done"},
           Sound(row'), row'.status = row.status, row'.t2_claimed_by = row.t2_claimed_by
    PROVE  RowOK'
<1>1. Sound(row)'
  BY DEF Sound, LaneOK, HistoryOK, SignaturesOK
<1> QED
  BY <1>1 DEF RowOK, ClaimsInQueue

\* Reassessing the emergency flag of the row touches nothing Sound reads.
LEMMA FlagSound ==
    ASSUME NEW t \in Ticket, Sound(t), NEW e \in BOOLEAN
    PROVE  LET n == [t EXCEPT !.is_emergency = e] IN
           /\ n \in Ticket
           /\ n.status = t.status
           /\ n.t2_claimed_by = t.t2_claimed_by
           /\ Sound(n)
<1> DEFINE n == [t EXCEPT !.is_emergency = e]
<1>1. /\ n \in Ticket
      /\ n.status = t.status
      /\ n.t1_route = t.t1_route
      /\ n.assigned_admin = t.assigned_admin
      /\ n.escalated_to_t2 = t.escalated_to_t2
      /\ n.has_been_monitored = t.has_been_monitored
      /\ n.verified_by = t.verified_by
      /\ n.approved_by = t.approved_by
      /\ n.t2_claimed_by = t.t2_claimed_by
  BY DEF Ticket
<1> HIDE DEF n
<1>2. Sound(n)
  BY <1>1, SameColumns
<1> QED
  BY <1>1, <1>2 DEF n

\* A service called with instance q.copy.
LEMMA ServeKeepsRow ==
    ASSUME RowOK, NEW q \in Request, Sound(q.copy), NEW done, Serve(q, done)
    PROVE  RowOK' /\ req' \in {Outdated(done), Ended(done)}
<1>1. q.copy \in Ticket /\ q.user \in Users
  BY DEF Request
<1>2. req' \in {Outdated(done), Ended(done)}
  BY DEF Serve
<1> SUFFICES RowOK'
  BY <1>2
<1>3. CASE Transitions(q)
  BY <1>1, <1>3, TransitionsAreLegal, LegalMoveKeepsRow DEF RowOK
<1>4. CASE ReassessEmergency(q)
  <2>1. row' = [row EXCEPT !.is_emergency = ~q.copy.is_emergency] /\ work' = work
    BY <1>4 DEF ReassessEmergency
  <2>2. (~q.copy.is_emergency) \in BOOLEAN
    OBVIOUS
  <2> DEFINE e == ~q.copy.is_emergency
  <2> HIDE DEF e
  <2>3. row' = [row EXCEPT !.is_emergency = e] /\ e \in BOOLEAN
    BY <2>1, <2>2 DEF e
  <2> QED
    BY <2>1, <2>3, FlagSound, SameStatusKeepsRow DEF RowOK
<1>5. CASE CreateResponseRequest(q) \/ UpdateSubtask(q)
  BY <1>5, SameStatusKeepsRow
  DEF CreateResponseRequest, UpdateSubtask, SavesSubtask, RowOK
<1> QED
  BY <1>3, <1>4, <1>5 DEF Serve

\* edit_ticket keeps the row sound: it re-routes only a NEW ticket.
LEMMA EditKeepsRow ==
    ASSUME RowOK, NEW u \in Users, EditTicket(u)
    PROVE  RowOK'
<1>1. row \in Ticket /\ Sound(row) /\ work' \in {"none", "open", "done"}
  BY DEF RowOK, EditTicket
<1>2. CASE row.status = "NEW" /\ row' \in Prepared(row, TRUE)
  <2>1. /\ row' \in Ticket
        /\ row'.status = row.status
        /\ row'.escalated_to_t2 = row.escalated_to_t2
        /\ row'.has_been_monitored = row.has_been_monitored
        /\ row'.verified_by = row.verified_by
        /\ row'.approved_by = row.approved_by
        /\ row'.t2_claimed_by = row.t2_claimed_by
        /\ row'.assigned_admin \in SysAdmins \cup {NoUser}
    BY <1>1, <1>2, PreparedColumns
  <2>2. Sound(row')
    BY <1>1, <1>2, <2>1, SameColumns
  <2> QED
    BY <1>1, <2>1, <2>2, SameStatusKeepsRow
<1>3. CASE \E k \in Classifications : row' = [row EXCEPT !.classification = k]
  BY <1>1, <1>3, ReclassifiedSound, SameStatusKeepsRow
<1> QED
  BY <1>2, <1>3 DEF EditTicket

\* A direct cancellation keeps the row sound and leaves no claim on it.
LEMMA CancelKeepsRow ==
    ASSUME RowOK, NEW u \in Users, CancelDirectly(u)
    PROVE  RowOK'
<1>0. row \in Ticket
  BY DEF RowOK
<1>1. /\ row' = [row EXCEPT !.status = "CANCELLED", !.t2_claimed_by = NoUser]
      /\ row.status \notin {"APPROVED", "CANCELLED"}
      /\ work' \in {"none", "open", "done"}
  BY DEF CancelDirectly, can_cancel_directly, TERMINAL_STATUSES, RESOLVED_STATUSES, RowOK
<1>2. "CANCELLED" \in Statuses
  BY DEF Statuses, TERMINAL_STATUSES
<1>3. /\ row' \in Ticket
      /\ row'.status = "CANCELLED"
      /\ row'.t2_claimed_by = NoUser
      /\ row'.assigned_admin = row.assigned_admin
      /\ row'.escalated_to_t2 = row.escalated_to_t2
      /\ row'.has_been_monitored = row.has_been_monitored
      /\ row'.verified_by = row.verified_by
      /\ row'.approved_by = row.approved_by
  BY <1>0, <1>1, <1>2 DEF Ticket
<1>4. Sound(row')
  <2>1. LaneOK(row')
    BY <1>3 DEF RowOK, Sound, LaneOK, AdminLane, OwnerLane
  <2>2. HistoryOK(row')
    BY <1>3 DEF RowOK, Sound, HistoryOK
  <2>3. SignaturesOK(row')
    BY <1>1, <1>3 DEF RowOK, Sound, SignaturesOK
  <2> QED
    BY <2>1, <2>2, <2>3 DEF Sound
<1>5. Sound(row)'
  BY <1>4 DEF Sound, LaneOK, HistoryOK, SignaturesOK
<1> QED
  BY <1>1, <1>3, <1>5 DEF RowOK, ClaimsInQueue

\* Claiming happens in the queue only, by Tier 2; releasing removes the claim.
LEMMA ClaimKeepsRow ==
    ASSUME RowOK, NEW u \in Users, ClaimTier2Ticket(u) \/ ReleaseEscalation(u)
    PROVE  RowOK'
<1>0. row \in Ticket /\ u \in Users \cup {NoUser} /\ NoUser \in Users \cup {NoUser}
  BY DEF RowOK
<1>1. \E c \in Users \cup {NoUser} :
        /\ row' = [row EXCEPT !.t2_claimed_by = c]
        /\ c # NoUser => row.status \in TIER2_QUEUE_STATUSES /\ works_tier2(c)
        /\ work' = work
  <2>1. CASE ClaimTier2Ticket(u)
    BY <1>0, <2>1 DEF ClaimTier2Ticket
  <2>2. CASE ReleaseEscalation(u)
    BY <1>0, <2>2 DEF ReleaseEscalation
  <2> QED
    BY <2>1, <2>2
<1> PICK c \in Users \cup {NoUser} :
        /\ row' = [row EXCEPT !.t2_claimed_by = c]
        /\ c # NoUser => row.status \in TIER2_QUEUE_STATUSES /\ works_tier2(c)
        /\ work' = work
  BY <1>1
<1>2. /\ row' \in Ticket
      /\ row'.status = row.status
      /\ row'.t2_claimed_by = c
      /\ row'.t1_route = row.t1_route
      /\ row'.assigned_admin = row.assigned_admin
      /\ row'.escalated_to_t2 = row.escalated_to_t2
      /\ row'.has_been_monitored = row.has_been_monitored
      /\ row'.verified_by = row.verified_by
      /\ row'.approved_by = row.approved_by
  BY <1>0 DEF Ticket
<1>3. Sound(row')
  BY <1>2, SameColumns DEF RowOK
<1>4. Sound(row)'
  BY <1>3 DEF Sound, LaneOK, HistoryOK, SignaturesOK
<1>5. ClaimsInQueue'
  BY <1>2 DEF ClaimsInQueue, works_tier2
<1> QED
  BY <1>2, <1>4, <1>5 DEF RowOK

\* Outdating the copies, or ending a request, leaves the copies typed and sound.
LEMMA OutdatedCopies ==
    ASSUME CopiesOK, NEW done, req' \in {Outdated(done), Ended(done)}
    PROVE  CopiesOK'
<1>1. ASSUME NEW r \in Requests
      PROVE  /\ req'[r] \in Request \cup {Idle}
             /\ req'[r] # Idle => Sound(req'[r].copy)
  <2>1. CASE req'[r] = Idle \/ req'[r] = req[r]
    BY <2>1 DEF CopiesOK
  <2>2. CASE req[r] # Idle /\ req'[r] = [req[r] EXCEPT !.fresh = FALSE]
    <3>1. req[r] \in Request /\ Sound(req[r].copy)
      BY <2>2 DEF CopiesOK
    <3> QED
      BY <2>2, <3>1 DEF Request
  <2> QED
    BY <2>1, <2>2 DEF Outdated, Ended
<1>2. req' \in [Requests -> Request \cup {Idle}]
  BY <1>1 DEF Outdated, Ended
<1>3. ASSUME NEW r \in Requests, req'[r] # Idle
      PROVE  Sound(req[r].copy)'
  BY <1>1, <1>3 DEF Sound, LaneOK, HistoryOK, SignaturesOK
<1> QED
  BY <1>2, <1>3 DEF CopiesOK

\* Whatever a user does preserves the inductive invariant.
LEMMA ActsAsKeepsIInv ==
    ASSUME IInv, NEW u \in Users, ActsAs(u)
    PROVE  IInv'
<1>1. Prompt(u) \in Request /\ Prompt(u).copy = row
  BY DEF Prompt, Request, IInv, RowOK
<1>2. CASE Serve(Prompt(u), {})
  <2>1. Sound(Prompt(u).copy)
    BY <1>1 DEF IInv, RowOK
  <2>2. RowOK' /\ req' \in {Outdated({}), Ended({})}
    BY <1>1, <1>2, <2>1, ServeKeepsRow DEF IInv
  <2> QED
    BY <2>2, OutdatedCopies DEF IInv
<1>3. ASSUME NEW r \in InFlight, Serve(req[r], {r})
      PROVE  IInv'
  <2>1. req[r] \in Request /\ Sound(req[r].copy)
    BY DEF InFlight, IInv, CopiesOK
  <2>2. RowOK' /\ req' \in {Outdated({r}), Ended({r})}
    BY <1>3, <2>1, ServeKeepsRow DEF IInv
  <2> QED
    BY <2>2, OutdatedCopies DEF IInv
<1>4. CASE EditTicket(u) /\ req' = Outdated({})
  BY <1>4, EditKeepsRow, OutdatedCopies DEF IInv
<1>5. CASE CancelDirectly(u) /\ req' = Outdated({})
  BY <1>5, CancelKeepsRow, OutdatedCopies DEF IInv
<1>6. CASE (ClaimTier2Ticket(u) \/ ReleaseEscalation(u)) /\ UNCHANGED req
  BY <1>6, ClaimKeepsRow DEF IInv, CopiesOK, Sound, LaneOK, HistoryOK, SignaturesOK
<1> QED
  BY <1>2, <1>3, <1>4, <1>5, <1>6 DEF ActsAs

\* A new preparation, and a legacy owner-lane ticket, satisfy it.
LEMMA InitIInv == Init => IInv
<1> SUFFICES ASSUME Init PROVE IInv
  OBVIOUS
<1> USE DEF Statuses, Classifications, Routes
<1>1. /\ BlankTicket \in Ticket
      /\ Sound(BlankTicket)
  BY DEF BlankTicket, Ticket, Sound, LaneOK, HistoryOK, SignaturesOK, AdminLane, OwnerLane
<1>2. row \in Ticket /\ Sound(row) /\ row.t2_claimed_by = NoUser
  <2>1. CASE row \in Prepared(BlankTicket, FALSE)
    <3>1. /\ row \in Ticket
          /\ row.status = BlankTicket.status
          /\ row.escalated_to_t2 = BlankTicket.escalated_to_t2
          /\ row.has_been_monitored = BlankTicket.has_been_monitored
          /\ row.verified_by = BlankTicket.verified_by
          /\ row.approved_by = BlankTicket.approved_by
          /\ row.t2_claimed_by = BlankTicket.t2_claimed_by
          /\ row.assigned_admin \in SysAdmins \cup {NoUser}
      BY <1>1, <2>1, PreparedColumns
    <3>2. Sound(row)
      BY <1>1, <3>1, SameColumns DEF BlankTicket
    <3> QED
      BY <3>1, <3>2 DEF BlankTicket
  <2>2. ASSUME NEW emergency \in BOOLEAN, NEW m \in Managers,
               row = LegacyTicket(emergency, m)
        PROVE  <1>2
    <3>1. m \in Users
      BY AccountsAssumption
    <3>2. row = [status |-> "OWNER_REMEDIATED", classification |-> "INCIDENT",
                 classification_at_escalation |-> "", t1_route |-> "OWNER",
                 assigned_admin |-> NoUser, is_emergency |-> emergency,
                 emergency_decided_by |-> m, first_submitted |-> TRUE,
                 escalated_to_t2 |-> FALSE, has_been_monitored |-> FALSE,
                 t2_claimed_by |-> NoUser, verified_by |-> NoUser,
                 approved_by |-> NoUser]
      BY <2>2 DEF LegacyTicket, BlankTicket
    <3>3. row \in Ticket /\ row.t2_claimed_by = NoUser
      BY <3>1, <3>2 DEF Ticket
    <3>4. Sound(row)
      BY <3>2 DEF Sound, LaneOK, HistoryOK, SignaturesOK, AdminLane, OwnerLane
    <3> QED
      BY <3>3, <3>4
  <2> QED
    BY <2>1, <2>2 DEF Init
<1>3. RowOK
  BY <1>2 DEF Init, RowOK, ClaimsInQueue
<1>4. CopiesOK
  BY DEF Init, CopiesOK
<1> QED
  BY <1>3, <1>4 DEF IInv

\* It is inductive.
LEMMA NextIInv == IInv /\ [Next]_vars => IInv'
<1> SUFFICES ASSUME IInv, [Next]_vars PROVE IInv'
  OBVIOUS
<1> USE DEF IInv
<1>1. ASSUME NEW u \in Users, ActsAs(u)
      PROVE  IInv'
  BY <1>1, ActsAsKeepsIInv
<1>2. ASSUME UNCHANGED <<row, work>>
      PROVE  RowOK'
  BY <1>2 DEF RowOK, ClaimsInQueue, Sound, LaneOK, HistoryOK, SignaturesOK
<1>3. ASSUME NEW r \in Requests, NEW u \in Users, Load(r, u)
      PROVE  IInv'
  <2>1. req' = [req EXCEPT ![r] = Prompt(u)] /\ UNCHANGED <<row, work>>
    BY <1>3 DEF Load
  <2>2. Prompt(u) \in Request /\ Sound(Prompt(u).copy)
    BY DEF Prompt, Request, RowOK
  <2>3. req' \in [Requests -> Request \cup {Idle}]
    BY <2>1, <2>2 DEF CopiesOK
  <2>4. ASSUME NEW x \in Requests, req'[x] # Idle
        PROVE  Sound(req'[x].copy)
    BY <2>1, <2>2, <2>4 DEF CopiesOK
  <2>5. CopiesOK'
    BY <2>3, <2>4 DEF CopiesOK, Sound, LaneOK, HistoryOK, SignaturesOK
  <2> QED
    BY <1>2, <2>1, <2>5
<1>4. ASSUME NEW r \in Requests, Refused(r)
      PROVE  IInv'
  BY <1>2, <1>4, OutdatedCopies DEF Refused
<1>5. CASE UNCHANGED vars
  <2>1. CopiesOK'
    BY <1>5 DEF vars, CopiesOK, Sound, LaneOK, HistoryOK, SignaturesOK
  <2> QED
    BY <1>2, <1>5, <2>1 DEF vars
<1> QED
  BY <1>1, <1>3, <1>4, <1>5 DEF Next

\* IInv holds in every reachable state.
LEMMA Invariance == Spec => []IInv
<1> QED
  BY InitIInv, NextIInv, PTL DEF Spec

-----------------------------------------------------------------------------
(***************************************************************************)
(* Theorems                                                                *)
(***************************************************************************)

\* Every column of the row, and of every copy a request holds, keeps its type.
THEOREM TypeCorrect == Spec => []TypeOK
<1>1. IInv => TypeOK
  BY DEF IInv, RowOK, CopiesOK, TypeOK
<1> QED
  BY <1>1, Invariance, PTL

\* A case Tier 2 has handled is never handed back to the creator's preparation,
\* not even by the save of an outdated Tier 2 review.
THEOREM PreparationFirst == Spec => []PreparationIsBeforeTier2
<1>1. IInv => PreparationIsBeforeTier2
  BY DEF IInv, RowOK, Sound, HistoryOK, Ticket, PreparationIsBeforeTier2
<1> QED
  BY <1>1, Invariance, PTL

\* An approved case carries Tier 2's verification and an approver of the right
\* role, and no other case carries an approver.
THEOREM SignedOff == Spec => []SignOffs
<1>1. IInv => SignOffs
  BY DEF IInv, RowOK, Sound, SignaturesOK, SignOffs
<1> QED
  BY <1>1, Invariance, PTL

\* A claim lives only in the Tier 2 queue, held by someone who works that queue.
THEOREM ClaimsStayInQueue == Spec => []ClaimsInQueue
<1>1. IInv => ClaimsInQueue
  BY DEF IInv, RowOK
<1> QED
  BY <1>1, Invariance, PTL

\* A forward edge is legal when it follows the lane and the emergency split.
LEMMA ForwardIsLegal ==
    ASSUME NEW t, NEW s, <<t.status, s>> \in ForwardEdges,
           s = "AWAITING_CONTAINMENT" => t.t1_route = "ADMIN",
           s = "AWAITING_OWNER" => t.t1_route = "OWNER",
           t.status \in VerificationStatuses => (s = "PENDING_MANAGER" <=> t.is_emergency),
           NEW group, t.status = "PENDING_MGR_TRIAGE" => group # "pending"
    PROVE  can_transition_to(t, s, FALSE, group)
<1>1. \/ /\ t.status = "PENDING_MGR_TRIAGE"
         /\ s \in {"AWAITING_CONTAINMENT", "AWAITING_OWNER"}
      \/ t.status = "AWAITING_CONTAINMENT" /\ s = "CONTAINMENT_REPORTED"
      \/ t.status \in {"AWAITING_OWNER", "OWNER_REMEDIATED"} /\ s = "PENDING_T2_REVIEW"
      \/ t.status = "PENDING_MANAGER" /\ s = "APPROVED"
      \/ t.status \in VerificationStatuses /\ s \in {"PENDING_MANAGER", "APPROVED"}
  BY DEF ForwardEdges
<1>2. <<t.status, s>> \in ALLOWED_TRANSITIONS
  BY <1>1 DEF ALLOWED_TRANSITIONS, CreatorEdges, Tier2Edges, ManagerEdges,
              AssignedAdminEdges, VerificationStatuses
<1>3. /\ <<t.status, s>> \notin LANE_ROUTING_EDGES
      /\ <<t.status, s>> \notin MANAGER_RETURN_EDGES
      /\ <<t.status, s>> \notin EVENT_CLOSE_TRANSITIONS
      /\ <<t.status, s>> \notin INCIDENT_TRANSITIONS
  BY <1>1 DEF LANE_ROUTING_EDGES, MANAGER_RETURN_EDGES, EVENT_CLOSE_TRANSITIONS,
              INCIDENT_TRANSITIONS, VerificationStatuses
<1>4. /\ <<t.status, s>> \in AdminLaneEdges => t.t1_route = "ADMIN"
      /\ <<t.status, s>> \in OwnerLaneEdges => t.t1_route = "OWNER"
  BY <1>1 DEF AdminLaneEdges, OwnerLaneEdges, VerificationStatuses
<1>5. /\ s # "MONITORING"
      /\ t.status # "ESCALATED_T2"
  BY <1>1 DEF VerificationStatuses
<1>6. t.status \in VerificationStatuses =>
        /\ s = "APPROVED" => ~requires_manager_verification(t)
        /\ s = "PENDING_MANAGER" => requires_manager_verification(t)
  BY DEF requires_manager_verification
<1> QED
  BY <1>2, <1>3, <1>4, <1>5, <1>6 DEF can_transition_to

\* A routed ticket has a legal forward edge; one of a Project Incident has it after
\* Project Review.
LEMMA WayForward ==
    ASSUME NEW t \in Ticket, LaneOK(t), t.status \in Routed,
           NEW group, t.status = "PENDING_MGR_TRIAGE" => group # "pending"
    PROVE  \E s \in Statuses : /\ <<t.status, s>> \in ForwardEdges
                               /\ can_transition_to(t, s, FALSE, group)
<1> DEFINE Forward(s) == /\ <<t.status, s>> \in ForwardEdges
                         /\ can_transition_to(t, s, FALSE, group)
           lane == IF t.t1_route = "OWNER" THEN "AWAITING_OWNER"
                   ELSE "AWAITING_CONTAINMENT"
           verdict == IF t.is_emergency THEN "PENDING_MANAGER" ELSE "APPROVED"
<1>1. {"AWAITING_CONTAINMENT", "AWAITING_OWNER", "CONTAINMENT_REPORTED",
       "PENDING_T2_REVIEW", "PENDING_MANAGER", "APPROVED"} \subseteq Statuses
  BY DEF Statuses, TERMINAL_STATUSES, RESOLVED_STATUSES, TIER2_QUEUE_STATUSES,
         MANAGER_QUEUE_STATUSES
<1>2. CASE t.status = "PENDING_MGR_TRIAGE"
  <2>1. t.t1_route \in {"ADMIN", "OWNER"}
    BY <1>2 DEF LaneOK, has_handling_lane
  <2>2. <<t.status, lane>> \in ForwardEdges
    BY <1>2 DEF ForwardEdges
  <2>3. Forward(lane)
    BY <1>2, <2>1, <2>2, ForwardIsLegal DEF VerificationStatuses
  <2> QED
    BY <1>1, <2>3
<1>3. CASE t.status = "AWAITING_CONTAINMENT"
  <2>1. Forward("CONTAINMENT_REPORTED")
    BY <1>3, ForwardIsLegal DEF ForwardEdges, VerificationStatuses
  <2> QED
    BY <1>1, <2>1
<1>4. CASE t.status \in {"AWAITING_OWNER", "OWNER_REMEDIATED"}
  <2>1. Forward("PENDING_T2_REVIEW")
    BY <1>4, ForwardIsLegal DEF ForwardEdges, VerificationStatuses
  <2> QED
    BY <1>1, <2>1
<1>5. CASE t.status \in VerificationStatuses
  <2>1. <<t.status, verdict>> \in ForwardEdges
    BY <1>5 DEF ForwardEdges
  <2>2. Forward(verdict)
    BY <1>5, <2>1, ForwardIsLegal DEF VerificationStatuses
  <2> QED
    BY <1>1, <2>2
<1>6. CASE t.status = "PENDING_MANAGER"
  <2>1. Forward("APPROVED")
    BY <1>6, ForwardIsLegal DEF ForwardEdges, VerificationStatuses
  <2> QED
    BY <1>1, <2>1
<1> QED
  BY <1>2, <1>3, <1>4, <1>5, <1>6
  DEF Routed, Handling, AdminLane, OwnerLane, VerificationStatuses

\* A routed case can always go forward: its lane is complete, the edge of its
\* lane is legal, and an approval is one legal edge or two away.
THEOREM AlwaysAWayForward == Spec => []NeverStranded
<1>1. ASSUME IInv, row.status \in Routed
      PROVE  \E s \in Statuses : /\ <<row.status, s>> \in ForwardEdges
                                 /\ can_transition_to(row, s, FALSE, "none")
  <2>1. row \in Ticket /\ LaneOK(row)
    BY <1>1 DEF IInv, RowOK, Sound
  <2> QED
    BY <1>1, <2>1, WayForward
<1>2. ASSUME IInv, row.status = "PENDING_MANAGER"
      PROVE  can_transition_to(row, step_back_target(row), FALSE, "none")
  <2>1. row.t1_route \in {"ADMIN", "OWNER"}
    BY <1>2 DEF IInv, RowOK, Sound, LaneOK, has_handling_lane
  <2>2. CASE row.t1_route = "ADMIN"
    BY <1>2, <2>2
    DEF step_back_target, can_transition_to, ALLOWED_TRANSITIONS, STEP_BACK_EDGES,
        LANE_ROUTING_EDGES, MANAGER_RETURN_EDGES, EVENT_CLOSE_TRANSITIONS,
        INCIDENT_TRANSITIONS, AdminLaneEdges, OwnerLaneEdges, VerificationStatuses
  <2>3. CASE row.t1_route = "OWNER"
    BY <1>2, <2>3
    DEF step_back_target, can_transition_to, ALLOWED_TRANSITIONS, STEP_BACK_EDGES,
        LANE_ROUTING_EDGES, MANAGER_RETURN_EDGES, EVENT_CLOSE_TRANSITIONS,
        INCIDENT_TRANSITIONS, AdminLaneEdges, OwnerLaneEdges, VerificationStatuses
  <2> QED
    BY <2>1, <2>2, <2>3
<1>3. ASSUME IInv, row.status \in AdminLane
      PROVE  row.assigned_admin \in SysAdmins
  BY <1>3 DEF IInv, RowOK, Sound, LaneOK
<1>4. IInv => NeverStranded
  BY <1>1, <1>2, <1>3 DEF NeverStranded
<1> QED
  BY <1>4, Invariance, PTL

\* Nothing happens to a cancelled ticket or its response requests any more.  That
\* releasing a claim changes nothing rests on ClaimsInQueue.
THEOREM CancelledStaysCancelled == Spec => CancelledIsFinal
<1> DEFINE Final == row.status = "CANCELLED" => UNCHANGED <<row, work>>
<1>1. ASSUME IInv, row.status = "CANCELLED", NEW q \in Request, Sound(q.copy),
             NEW done, Serve(q, done)
      PROVE  FALSE
  <2>1. ~Transitions(q)
    BY <1>1, TransitionsAreLegal DEF LegalMove, IInv, RowOK
  <2> QED
    BY <1>1, <2>1 DEF Serve, ReassessEmergency, CreateResponseRequest, UpdateSubtask,
                      SavesSubtask
<1>2. ASSUME IInv, row.status = "CANCELLED", NEW u \in Users, ActsAs(u)
      PROVE  FALSE
  <2>1. ~Serve(Prompt(u), {})
    BY <1>1, <1>2 DEF Prompt, Request, IInv, RowOK
  <2>2. ASSUME NEW r \in InFlight, Serve(req[r], {r})
        PROVE  FALSE
    BY <1>1, <1>2, <2>2 DEF InFlight, IInv, CopiesOK
  <2>3. ~EditTicket(u) /\ ~CancelDirectly(u)
    BY <1>2 DEF EditTicket, can_edit_ticket, CancelDirectly, can_cancel_directly,
                TERMINAL_STATUSES
  <2>4. ~ClaimTier2Ticket(u) /\ ~ReleaseEscalation(u)
    BY <1>2, AccountsAssumption
    DEF ClaimTier2Ticket, ReleaseEscalation, IInv, RowOK, ClaimsInQueue,
        TIER2_QUEUE_STATUSES
  <2> QED
    BY <1>2, <2>1, <2>2, <2>3, <2>4 DEF ActsAs
<1>3. IInv /\ [Next]_vars => [Final]_vars
  BY <1>2 DEF Next, Load, Refused, vars
<1> QED
  BY <1>3, Invariance, PTL DEF Spec, CancelledIsFinal

-----------------------------------------------------------------------------
(***************************************************************************)
(* What only an overtaken request breaks                                   *)
(*                                                                         *)
(* Three promises are broken by a request that saves without a lock what   *)
(* it decided before the case moved on.  For any choice of Races, that     *)
(* request is the only step that breaks them: each handler served on the   *)
(* current row, and every handler that locks and compares, keeps them.     *)
(***************************************************************************)

\* The case has left the status request r decided on.
Overtaken(r) == r \in InFlight /\ req[r].copy.status # row.status

\* The requests a step may serve.
Serving(q) == (\E u \in Users : q = Prompt(u)) \/ (\E r \in InFlight : q = req[r])

\* A request decided on another status than the row's is one in flight.
LEMMA OnlyLoadedIsOvertaken ==
    ASSUME NEW q, Serving(q), q.copy.status # row.status
    PROVE  \E r \in Requests : q = req[r] /\ Overtaken(r)
BY DEF Serving, Prompt, InFlight, Overtaken

\* What a step does to the approval, and which request does it.
LEMMA OtherSteps ==
    ASSUME IInv, [Next]_vars
    PROVE  \/ \E q \in Request : Serving(q) /\ LegalMove(q)
           \/ \E q \in Request : Serving(q) /\ ReassessEmergency(q)
           \/ \E q \in Request : /\ Serving(q)
                                 /\ CreateResponseRequest(q) \/ UpdateSubtask(q)
           \/ row'.status = "CANCELLED" /\ row.status \notin RESOLVED_STATUSES
           \/ /\ row'.status = row.status
              /\ row'.is_emergency = row.is_emergency
              /\ row'.approved_by = row.approved_by
              /\ work' = work
<1> DEFINE Same == /\ row'.status = row.status
                   /\ row'.is_emergency = row.is_emergency
                   /\ row'.approved_by = row.approved_by
                   /\ work' = work
           Goal == \/ \E q \in Request : Serving(q) /\ LegalMove(q)
                   \/ \E q \in Request : Serving(q) /\ ReassessEmergency(q)
                   \/ \E q \in Request : /\ Serving(q)
                                         /\ CreateResponseRequest(q) \/ UpdateSubtask(q)
                   \/ row'.status = "CANCELLED" /\ row.status \notin RESOLVED_STATUSES
                   \/ Same
<1> SUFFICES Goal
  OBVIOUS
<1>0. row \in Ticket
  BY DEF IInv, RowOK
<1>1. ASSUME NEW q \in Request, Serving(q), Sound(q.copy), NEW done, Serve(q, done)
      PROVE  Goal
  <2>1. CASE Transitions(q)
    BY <1>0, <1>1, <2>1, TransitionsAreLegal
  <2>2. CASE ReassessEmergency(q)
    BY <1>1, <2>2
  <2>3. CASE CreateResponseRequest(q) \/ UpdateSubtask(q)
    BY <1>1, <2>3
  <2> QED
    BY <1>1, <2>1, <2>2, <2>3 DEF Serve
<1>2. ASSUME NEW u \in Users, ActsAs(u)
      PROVE  Goal
  <2>1. CASE Serve(Prompt(u), {})
    <3>1. Prompt(u) \in Request /\ Sound(Prompt(u).copy)
      BY DEF Prompt, Request, IInv, RowOK
    <3>2. Serving(Prompt(u))
      BY DEF Serving
    <3> HIDE DEF Goal
    <3> QED
      BY <1>1, <2>1, <3>1, <3>2
  <2>2. ASSUME NEW r \in InFlight, Serve(req[r], {r})
        PROVE  Goal
    <3>1. req[r] \in Request /\ Sound(req[r].copy)
      BY DEF InFlight, IInv, CopiesOK
    <3>2. Serving(req[r])
      BY DEF Serving
    <3> HIDE DEF Goal
    <3> QED
      BY <1>1, <2>2, <3>1, <3>2
  <2>3. CASE EditTicket(u)
    <3>1. CASE row' \in Prepared(row, TRUE)
      BY <1>0, <2>3, <3>1, PreparedColumns DEF EditTicket
    <3>2. ASSUME NEW k \in Classifications, row' = [row EXCEPT !.classification = k]
          PROVE  Goal
      <4>1. Same
        BY <1>0, <2>3, <3>2 DEF Ticket, EditTicket
      <4> QED
        BY <4>1
    <3> QED
      BY <2>3, <3>1, <3>2 DEF EditTicket
  <2>4. CASE CancelDirectly(u)
    BY <1>0, <2>4 DEF CancelDirectly, can_cancel_directly, TERMINAL_STATUSES, Ticket
  <2>5. CASE ClaimTier2Ticket(u) \/ ReleaseEscalation(u)
    <3>1. Same
      BY <1>0, <2>5 DEF ClaimTier2Ticket, ReleaseEscalation, Ticket
    <3> QED
      BY <3>1
  <2> QED
    BY <1>2, <2>1, <2>2, <2>3, <2>4, <2>5 DEF ActsAs
<1>3. ASSUME UNCHANGED <<row, work>>
      PROVE  Same
  BY <1>3
<1> HIDE DEF Goal
<1>4. ASSUME UNCHANGED <<row, work>>
      PROVE  Goal
  BY <1>3, <1>4 DEF Goal
<1> QED
  BY <1>2, <1>4 DEF Next, Load, Refused, vars

\* An emergency is approved only with a manager's signature, and stays so: the one
\* step that makes an emergency of a case approved without it is a reassessment the
\* approval has overtaken (views/tickets.py checks the copy and saves the flag).
THEOREM EmergencyApproval ==
    Spec => /\ EmergencyNeedsManager
            /\ [][EmergencyNeedsManager =>
                    \/ EmergencyNeedsManager'
                    \/ \E r \in Requests : Overtaken(r) /\ ReassessEmergency(req[r])]_vars
<1>1. Init => EmergencyNeedsManager
  <2>1. ASSUME NEW emergency \in BOOLEAN, NEW m \in Managers
        PROVE  LegacyTicket(emergency, m).status = "OWNER_REMEDIATED"
    BY DEF LegacyTicket, BlankTicket
  <2>2. BlankTicket \in Ticket /\ BlankTicket.status = "NEW"
    BY DEF BlankTicket, Ticket, Statuses, Classifications, Routes
  <2>3. \A n \in Prepared(BlankTicket, FALSE) : n.status = "NEW"
    BY <2>2, PreparedColumns
  <2> QED
    BY <2>1, <2>3 DEF Init, EmergencyNeedsManager
<1>2. ASSUME IInv, EmergencyNeedsManager, [Next]_vars
      PROVE  \/ EmergencyNeedsManager'
             \/ \E r \in Requests : Overtaken(r) /\ ReassessEmergency(req[r])
  <2>1. ASSUME NEW q \in Request, LegalMove(q), row'.status = "APPROVED", row'.is_emergency
        PROVE  row'.approved_by \in Managers \cup Superusers
    <3>1. PICK t \in Ticket, s \in Statuses :
            /\ Sound(t)
            /\ can_transition_to(t, s, hasOpenWork, "none")
            /\ MayDrive(t, s, q.user)
            /\ row' = Applied(t, s, q.user)
      BY <2>1 DEF LegalMove
    <3>2. q.user \in Users
      BY DEF Request
    <3>3. /\ row'.status = s
          /\ row'.is_emergency = t.is_emergency
          /\ row'.approved_by = IF t.approved_by = NoUser /\ s = "APPROVED" THEN q.user
                                ELSE t.approved_by
      BY <3>1, <3>2, AppliedColumns
    <3>4. <<t.status, "APPROVED">> \in ALLOWED_TRANSITIONS
      BY <2>1, <3>1, <3>3 DEF can_transition_to
    <3>5. t.status \in VerificationStatuses \cup {"PENDING_MANAGER"}
      BY <3>4, EdgeCases DEF VerificationStatuses
    <3>6. t.status \notin VerificationStatuses
      BY <2>1, <3>1, <3>3 DEF can_transition_to, requires_manager_verification
    <3>7. q.user \in Managers \cup Superusers
      BY <2>1, <3>1, <3>2, <3>3, <3>5, <3>6, ApproverRole
    <3>8. t.approved_by = NoUser
      BY <3>1, <3>5, <3>6 DEF Sound, SignaturesOK
    <3> QED
      BY <2>1, <3>3, <3>7, <3>8
  <2>2. ASSUME NEW q \in Request, Serving(q), ReassessEmergency(q)
        PROVE  \/ row'.status # "APPROVED"
               \/ \E r \in Requests : Overtaken(r) /\ ReassessEmergency(req[r])
    <3>1. row'.status = row.status /\ q.copy.status # "APPROVED"
      BY <2>2 DEF ReassessEmergency, can_reassess_emergency, TERMINAL_STATUSES,
                  RESOLVED_STATUSES, IInv, RowOK, Ticket
    <3> QED
      BY <2>2, <3>1, OnlyLoadedIsOvertaken
  <2>3. ASSUME NEW q \in Request, CreateResponseRequest(q) \/ UpdateSubtask(q)
        PROVE  row' = row
    BY <2>3 DEF CreateResponseRequest, UpdateSubtask, SavesSubtask
  <2> QED
    BY <1>2, <2>1, <2>2, <2>3, OtherSteps DEF EmergencyNeedsManager
<1> QED
  BY <1>1, <1>2, Invariance, PTL DEF Spec

\* No incident is approved over unfinished response work, and the one step that
\* leaves an approved one with such work is a response request raised, or reopened,
\* by a request the approval has overtaken (views/response.py locks nothing).
THEOREM ApprovalWaitsForResponders ==
    Spec => /\ NoOpenWorkAtApproval
            /\ [][NoOpenWorkAtApproval =>
                    \/ NoOpenWorkAtApproval'
                    \/ \E r \in Requests :
                          /\ Overtaken(r)
                          /\ CreateResponseRequest(req[r]) \/ UpdateSubtask(req[r])]_vars
<1>1. Init => NoOpenWorkAtApproval
  BY DEF Init, NoOpenWorkAtApproval
<1>2. ASSUME IInv, NoOpenWorkAtApproval, [Next]_vars
      PROVE  \/ NoOpenWorkAtApproval'
             \/ \E r \in Requests : /\ Overtaken(r)
                                    /\ CreateResponseRequest(req[r]) \/ UpdateSubtask(req[r])
  <2>1. ASSUME NEW q \in Request, LegalMove(q), row'.status = "APPROVED"
        PROVE  work' # "open"
    <3>1. PICK t \in Ticket, s \in Statuses :
            /\ can_transition_to(t, s, hasOpenWork, "none")
            /\ row' = Applied(t, s, q.user)
            /\ work' = work
      BY <2>1 DEF LegalMove
    <3>2. q.user \in Users
      BY DEF Request
    <3>3. s = "APPROVED"
      BY <2>1, <3>1, <3>2, AppliedColumns
    <3> QED
      BY <3>1, <3>3 DEF can_transition_to, hasOpenWork
  <2>2. ASSUME NEW q \in Request, ReassessEmergency(q)
        PROVE  row'.status = row.status /\ work' = work
    BY <2>2 DEF ReassessEmergency, IInv, RowOK, Ticket
  <2>3. ASSUME NEW q \in Request, Serving(q), CreateResponseRequest(q) \/ UpdateSubtask(q)
        PROVE  \/ row'.status # "APPROVED"
               \/ \E r \in Requests : /\ Overtaken(r)
                                      /\ CreateResponseRequest(req[r]) \/ UpdateSubtask(req[r])
    <3>1. row' = row /\ q.copy.status # "APPROVED"
      BY <2>3 DEF CreateResponseRequest, UpdateSubtask, SavesSubtask, TERMINAL_STATUSES,
                  RESOLVED_STATUSES
    <3> QED
      BY <2>3, <3>1, OnlyLoadedIsOvertaken
  <2> QED
    BY <1>2, <2>1, <2>2, <2>3, OtherSteps DEF NoOpenWorkAtApproval
<1> QED
  BY <1>1, <1>2, Invariance, PTL DEF Spec

\* The one step that takes a case out of an approved or event-closed status is a
\* Tier 2 review the closing has overtaken (run reopened_by_review has its trace).
THEOREM ResolvedStaysResolved ==
    Spec => [][row.status \in RESOLVED_STATUSES =>
                 \/ row'.status = row.status
                 \/ \E r \in Requests : Overtaken(r) /\ CompleteT2Review(req[r])]_vars
<1> DEFINE Final == row.status \in RESOLVED_STATUSES =>
                        \/ row'.status = row.status
                        \/ \E r \in Requests : Overtaken(r) /\ CompleteT2Review(req[r])
<1>1. ASSUME IInv, [Next]_vars, row.status \in RESOLVED_STATUSES
      PROVE  \/ row'.status = row.status
             \/ \E r \in Requests : Overtaken(r) /\ CompleteT2Review(req[r])
  <2>1. ASSUME NEW q \in Request, Serving(q), LegalMove(q)
        PROVE  \E r \in Requests : Overtaken(r) /\ CompleteT2Review(req[r])
    <3>1. PICK t \in Ticket, s \in Statuses :
            /\ can_transition_to(t, s, hasOpenWork, "none")
            /\ t.status = row.status \/ (CompleteT2Review(q) /\ q.copy.status # row.status)
      BY <2>1 DEF LegalMove
    <3>2. t.status # row.status
      <4>1. ASSUME t.status = row.status PROVE FALSE
        <5>1. <<row.status, s>> \in ALLOWED_TRANSITIONS
          BY <3>1, <4>1 DEF can_transition_to
        <5> QED
          BY <1>1, <5>1, EdgeCases DEF RESOLVED_STATUSES
      <4> QED
        BY <4>1
    <3> QED
      BY <2>1, <3>1, <3>2, OnlyLoadedIsOvertaken
  <2>2. ASSUME NEW q \in Request, ReassessEmergency(q)
        PROVE  row'.status = row.status
    BY <2>2 DEF ReassessEmergency, IInv, RowOK, Ticket
  <2>3. ASSUME NEW q \in Request, CreateResponseRequest(q) \/ UpdateSubtask(q)
        PROVE  row' = row
    BY <2>3 DEF CreateResponseRequest, UpdateSubtask, SavesSubtask
  <2> QED
    BY <1>1, <2>1, <2>2, <2>3, OtherSteps
<1>2. IInv /\ [Next]_vars => [Final]_vars
  BY <1>1
<1> QED
  BY <1>2, Invariance, PTL DEF Spec

-----------------------------------------------------------------------------
(***************************************************************************)
(* Worklists and Notices: the pages and the letters                        *)
(*                                                                         *)
(* Every step of Notices is a step of TicketLifecycle by a request that    *)
(* nothing overtakes, so its row is sound too; the pages need one thing    *)
(* more of it, that a preparation which may be submitted as an Incident    *)
(* carries a complete lane.                                                *)
(***************************************************************************)

FormComplete(t) ==
    t.status = "NEW" /\ t.classification = "INCIDENT" /\ t.t1_route # "" =>
        has_handling_lane(t)

FormOK == FormComplete(row)

NInv == IInv /\ FormOK /\ req = [r \in Requests |-> Idle]

\* With no slow request in flight there is none to outdate.
LEMMA NoneOutdated ==
    ASSUME req = [r \in Requests |-> Idle]
    PROVE  Outdated({}) = req /\ Ended({}) = req
  BY DEF Outdated, Ended

\* What a request does here, it does in TicketLifecycle.
LEMMA RespondedActs ==
    ASSUME req = [r \in Requests |-> Idle], UNCHANGED req, NEW u \in Users, Responded(u)
    PROVE  ActsAs(u)
<1>1. req' = Outdated({}) /\ req' = Ended({})
  BY NoneOutdated
<1> DEFINE q == Prompt(u)
<1>2. q.copy = row /\ q.user = u
  BY DEF Prompt
<1> HIDE DEF q
<1>3. ASSUME VisibleTo(row, u), Mailed(q) \/ Unmailed(q)
      PROVE  Serve(q, {})
  <2>1. \/ Transitions(q) \/ ReassessEmergency(q)
        \/ CreateResponseRequest(q) \/ UpdateSubtask(q)
    BY <1>3 DEF Mailed, Unmailed, Transitions, complete_t2_review, conclude_monitoring,
                transition_ticket
  <2> QED
    BY <1>1, <1>2, <1>3, <2>1 DEF Serve
<1> QED
  BY <1>1, <1>3 DEF Responded, ActsAs, q

\* A move leaves the lane as it was.
LEMMA AppliedLane ==
    ASSUME NEW t \in Ticket, NEW s \in Statuses, NEW u \in Users
    PROVE  /\ Applied(t, s, u).status = s
           /\ Applied(t, s, u).t1_route = t.t1_route
           /\ Applied(t, s, u).assigned_admin = t.assigned_admin
  BY AppliedColumns

\* A preparation comes back from the manager's review with the lane it went with.
LEMMA FormKept ==
    ASSUME NInv, NEW u \in Users, Responded(u), UNCHANGED req
    PROVE  FormOK'
<1>0. row \in Ticket /\ Sound(row)
  BY DEF NInv, IInv, RowOK
<1>1. ActsAs(u)
  BY RespondedActs DEF NInv
<1> SUFFICES ASSUME row'.status = "NEW", row'.classification = "INCIDENT",
                    row'.t1_route # ""
             PROVE  has_handling_lane(row)'
  BY DEF FormOK, FormComplete
<1>2. ASSUME LegalMove(Prompt(u))
      PROVE  has_handling_lane(row)'
  <2>1. PICK t \in Ticket, s \in Statuses :
          /\ Sound(t)
          /\ can_transition_to(t, s, hasOpenWork, "none")
          /\ row' = Applied(t, s, u)
    BY <1>2 DEF LegalMove, Prompt
  <2>2. /\ row'.status = s
        /\ row'.t1_route = t.t1_route
        /\ row'.assigned_admin = t.assigned_admin
    BY <2>1, AppliedLane
  <2>3. <<t.status, "NEW">> \in ALLOWED_TRANSITIONS
    BY <2>1, <2>2 DEF can_transition_to
  <2>4. t.status = "PENDING_MGR_TRIAGE"
    BY <2>3, EdgeCases
  <2> QED
    BY <2>1, <2>2, <2>4 DEF Sound, LaneOK, has_handling_lane
<1>3. CASE Serve(Prompt(u), {})
  <2>1. Prompt(u) \in Request /\ Prompt(u).copy = row /\ Prompt(u).user = u
    BY <1>0 DEF Prompt, Request
  <2>2. CASE Transitions(Prompt(u))
    BY <1>0, <1>2, <2>1, <2>2, TransitionsAreLegal
  <2>3. CASE ReassessEmergency(Prompt(u))
    <3>1. row' = [row EXCEPT !.is_emergency = ~row.is_emergency]
      BY <2>1, <2>3 DEF ReassessEmergency
    <3>2. /\ row'.status = row.status
          /\ row'.classification = row.classification
          /\ row'.t1_route = row.t1_route
          /\ row'.assigned_admin = row.assigned_admin
      BY <1>0, <3>1 DEF Ticket
    <3> QED
      BY <3>2 DEF NInv, FormOK, FormComplete, has_handling_lane
  <2>4. CASE CreateResponseRequest(Prompt(u)) \/ UpdateSubtask(Prompt(u))
    BY <2>4 DEF CreateResponseRequest, UpdateSubtask, SavesSubtask, NInv, FormOK,
                FormComplete, has_handling_lane
  <2> QED
    BY <1>3, <2>2, <2>3, <2>4 DEF Serve
<1>4. CASE EditTicket(u)
  <2>1. row.status = "NEW" => row' \in Prepared(row, TRUE)
    BY <1>4 DEF EditTicket
  <2>2. row.status # "NEW" =>
          \E k \in Classifications : row' = [row EXCEPT !.classification = k]
    BY <1>4 DEF EditTicket
  <2>3. row.status = "NEW"
    BY <1>0, <2>2 DEF Ticket
  <2>4. PICK k \in Classifications, l \in Routes, a \in SysAdmins \cup {NoUser} :
          /\ row' = With(row, k, l, a)
          /\ k = "INCIDENT" /\ l = "ADMIN" => a \in SysAdmins
    BY <2>1, <2>3 DEF Prepared, Classifications, Routes
  <2>5. row'.classification = k /\ row'.t1_route = l /\ row'.assigned_admin = a
    BY <1>0, <2>4 DEF With, Ticket
  <2> QED
    BY <2>4, <2>5, AccountsAssumption DEF has_handling_lane, Routes
<1>5. CASE CancelDirectly(u)
  BY <1>0, <1>5 DEF CancelDirectly, Ticket
<1>6. CASE ClaimTier2Ticket(u) \/ ReleaseEscalation(u)
  <2>1. /\ row'.status = row.status
        /\ row'.classification = row.classification
        /\ row'.t1_route = row.t1_route
        /\ row'.assigned_admin = row.assigned_admin
    BY <1>0, <1>6 DEF ClaimTier2Ticket, ReleaseEscalation, Ticket
  <2> QED
    BY <2>1 DEF NInv, FormOK, FormComplete, has_handling_lane
<1>7. InFlight = {}
  BY DEF InFlight, NInv
<1> QED
  BY <1>1, <1>3, <1>4, <1>5, <1>6, <1>7 DEF ActsAs

\* A new preparation has its lane; the legacy ticket is past it.
LEMMA InitNInv == NoticesInit => NInv
<1> SUFFICES ASSUME NoticesInit PROVE NInv
  OBVIOUS
<1>1. IInv /\ req = [r \in Requests |-> Idle]
  BY InitIInv DEF NoticesInit, Init
<1>2. CASE row \in Prepared(BlankTicket, FALSE)
  <2>1. BlankTicket \in Ticket
    BY DEF BlankTicket, Ticket, Statuses, Classifications, Routes
  <2>2. PICK k \in Classifications, l \in Routes, a \in SysAdmins \cup {NoUser} :
          /\ row = With(BlankTicket, k, l, a)
          /\ k = "INCIDENT" /\ l = "ADMIN" => a \in SysAdmins
    BY <1>2 DEF Prepared, Classifications, Routes
  <2>3. row.classification = k /\ row.t1_route = l /\ row.assigned_admin = a
    BY <2>1, <2>2 DEF With, Ticket
  <2>4. FormOK
    BY <2>2, <2>3, AccountsAssumption DEF FormOK, FormComplete, has_handling_lane, Routes
  <2> QED
    BY <1>1, <2>4 DEF NInv
<1>3. CASE \E emergency \in BOOLEAN, m \in Managers : row = LegacyTicket(emergency, m)
  <2>1. row.status = "OWNER_REMEDIATED"
    BY <1>3 DEF LegacyTicket, BlankTicket
  <2> QED
    BY <1>1, <2>1 DEF NInv, FormOK, FormComplete
<1> QED
  BY <1>2, <1>3 DEF NoticesInit, Init

\* It is inductive.
LEMMA NextNInv == NInv /\ [NoticesNext]_nvars => NInv'
<1> SUFFICES ASSUME NInv, [NoticesNext]_nvars PROVE NInv'
  OBVIOUS
<1>1. ASSUME NEW u \in Users, Responded(u), UNCHANGED req
      PROVE  NInv'
  <2>1. ActsAs(u)
    BY <1>1, RespondedActs DEF NInv
  <2>2. IInv'
    BY <2>1, ActsAsKeepsIInv DEF NInv
  <2> QED
    BY <1>1, <2>2, FormKept DEF NInv
<1>2. CASE UNCHANGED nvars
  <2>1. UNCHANGED vars
    BY <1>2 DEF nvars, vars
  <2>2. IInv'
    BY <2>1, NextIInv DEF NInv
  <2>3. UNCHANGED <<row, req>>
    BY <2>1 DEF vars
  <2>4. FormOK'
    BY <2>3 DEF NInv, FormOK, FormComplete, has_handling_lane
  <2> QED
    BY <2>2, <2>3, <2>4 DEF NInv
<1> QED
  BY <1>1, <1>2 DEF NoticesNext

\* NInv holds in every reachable state.
LEMMA NInvariance == NoticesSpec => []NInv
<1> QED
  BY InitNInv, NextNInv, PTL DEF NoticesSpec

\* Ticket.can_transition_to and the gates of _transition_to, written apart, are the
\* same rules.
LEMMA PageRules ==
    ASSUME NEW t \in Ticket, NEW s \in Statuses, NEW openWork \in BOOLEAN, NEW project
    PROVE  page_allows(t, s, openWork, project) <=> can_transition_to(t, s, openWork, project)
<1> DEFINE edge == <<t.status, s>>
<1>1. EdgeGate(t, s) <=>
        /\ edge \in AdminLaneEdges => t.t1_route = "ADMIN"
        /\ edge \in OwnerLaneEdges => t.t1_route = "OWNER"
        /\ t.status = "ESCALATED_T2" =>
            /\ s = "CLOSED_EVENT" => ~is_t2_event_downgrade(t)
            /\ s = "PENDING_MGR_EVENT_REVIEW" => is_t2_event_downgrade(t)
  <2>1. edge \in AdminLaneEdges <=>
          edge \in {<<"PENDING_MGR_TRIAGE", "AWAITING_CONTAINMENT">>,
                    <<"PENDING_MANAGER", "CONTAINMENT_REPORTED">>}
    BY DEF AdminLaneEdges
  <2>2. edge \in OwnerLaneEdges <=>
          edge \in {<<"PENDING_MGR_TRIAGE", "AWAITING_OWNER">>,
                    <<"PENDING_MANAGER", "PENDING_T2_REVIEW">>}
    BY DEF OwnerLaneEdges
  <2>3. CASE edge \in AdminLaneEdges
    BY <2>3 DEF EdgeGate, AdminLaneEdges, OwnerLaneEdges
  <2>4. CASE edge \in OwnerLaneEdges
    BY <2>4 DEF EdgeGate, AdminLaneEdges, OwnerLaneEdges
  <2>5. CASE edge \notin AdminLaneEdges \cup OwnerLaneEdges
    <3>1. CASE edge = <<"ESCALATED_T2", "CLOSED_EVENT">>
      BY <2>5, <3>1 DEF EdgeGate
    <3>2. CASE edge = <<"ESCALATED_T2", "PENDING_MGR_EVENT_REVIEW">>
      BY <2>5, <3>2 DEF EdgeGate
    <3>3. CASE edge \notin {<<"ESCALATED_T2", "CLOSED_EVENT">>,
                            <<"ESCALATED_T2", "PENDING_MGR_EVENT_REVIEW">>}
      BY <2>1, <2>2, <2>5, <3>3 DEF EdgeGate
    <3> QED
      BY <3>1, <3>2, <3>3
  <2> QED
    BY <2>3, <2>4, <2>5
<1>2. t.has_been_monitored \in BOOLEAN
  BY DEF Ticket
<1> HIDE DEF edge
<1>3. PageGates(t, s, openWork, project) <=>
        /\ edge \in ALLOWED_TRANSITIONS
        /\ edge \in LANE_ROUTING_EDGES => has_handling_lane(t)
        /\ edge \in MANAGER_RETURN_EDGES => s = manager_return_target(t)
        /\ s = "APPROVED" => ~openWork
        /\ edge \in EVENT_CLOSE_TRANSITIONS => t.classification = "EVENT"
        /\ edge \in INCIDENT_TRANSITIONS => t.classification = "INCIDENT"
        /\ s = "MONITORING" => ~t.has_been_monitored /\ project = "none"
        /\ t.status = "PENDING_MGR_TRIAGE" => project # "pending"
  BY <1>2, Zenon DEF PageGates, edge
<1>4. can_transition_to(t, s, openWork, project) <=>
        /\ PageGates(t, s, openWork, project)
        /\ EdgeGate(t, s)
        /\ t.status \in VerificationStatuses =>
            /\ s = "APPROVED" => ~requires_manager_verification(t)
            /\ s = "PENDING_MANAGER" => requires_manager_verification(t)
  BY <1>1, <1>3, Zenon DEF can_transition_to, edge
<1> QED
  BY <1>4 DEF page_allows, VerificationStatuses

\* The menu knows who may drive what it offers.
LEMMA MenuRights ==
    ASSUME NEW t, NEW s, NEW u, InMenu(t, s)
    PROVE  user_can_drive(t, s, u) <=> MayDrive(t, s, u)
  BY DEF user_can_drive, MayDrive, InMenu

\* The decisions of the review form, and the rights to them.
LEMMA ReviewRules ==
    ASSUME NEW t \in Ticket, t.status = "ESCALATED_T2", NEW openWork
    PROVE  /\ can_transition_to(t, "PENDING_MGR_TRIAGE", openWork, "none") <=>
                has_handling_lane(t) /\ t.classification = "INCIDENT"
           /\ can_transition_to(t, "CLOSED_EVENT", openWork, "none") <=>
                t.classification = "EVENT" /\ ~is_t2_event_downgrade(t)
           /\ can_transition_to(t, "PENDING_MGR_EVENT_REVIEW", openWork, "none") <=>
                t.classification = "EVENT" /\ is_t2_event_downgrade(t)
           /\ \A s \in Statuses : can_transition_to(t, s, openWork, "none") =>
                s \in {"PENDING_MGR_TRIAGE", "CLOSED_EVENT", "PENDING_MGR_EVENT_REVIEW",
                       "MONITORING"}
<1>1. \A s \in {"PENDING_MGR_TRIAGE", "CLOSED_EVENT", "PENDING_MGR_EVENT_REVIEW"} :
        /\ <<t.status, s>> \in ALLOWED_TRANSITIONS
        /\ <<t.status, s>> \notin MANAGER_RETURN_EDGES \cup AdminLaneEdges \cup OwnerLaneEdges
        /\ <<t.status, s>> \in LANE_ROUTING_EDGES <=> s = "PENDING_MGR_TRIAGE"
        /\ <<t.status, s>> \in INCIDENT_TRANSITIONS <=> s = "PENDING_MGR_TRIAGE"
        /\ <<t.status, s>> \in EVENT_CLOSE_TRANSITIONS <=> s # "PENDING_MGR_TRIAGE"
  BY DEF ALLOWED_TRANSITIONS, Tier2Edges, MANAGER_RETURN_EDGES, AdminLaneEdges,
         OwnerLaneEdges, LANE_ROUTING_EDGES, INCIDENT_TRANSITIONS, EVENT_CLOSE_TRANSITIONS
<1>2. t.status \notin VerificationStatuses
  BY DEF VerificationStatuses
<1>3. \A s \in Statuses : can_transition_to(t, s, openWork, "none") =>
        s \in {"PENDING_MGR_TRIAGE", "CLOSED_EVENT", "PENDING_MGR_EVENT_REVIEW",
               "MONITORING"}
  BY EdgeCases DEF can_transition_to
<1>4. can_transition_to(t, "PENDING_MGR_TRIAGE", openWork, "none") <=>
        has_handling_lane(t) /\ t.classification = "INCIDENT"
  BY <1>1, <1>2 DEF can_transition_to
<1>5. can_transition_to(t, "CLOSED_EVENT", openWork, "none") <=>
        t.classification = "EVENT" /\ ~is_t2_event_downgrade(t)
  BY <1>1, <1>2 DEF can_transition_to
<1>6. can_transition_to(t, "PENDING_MGR_EVENT_REVIEW", openWork, "none") <=>
        t.classification = "EVENT" /\ is_t2_event_downgrade(t)
  BY <1>1, <1>2 DEF can_transition_to
<1> QED
  BY <1>3, <1>4, <1>5, <1>6

\* What the page proposes to Tier 2 and what the review form then decides.
LEMMA ProposedDecisions ==
    ASSUME NEW t \in Ticket, t.status = "ESCALATED_T2", NEW openWork \in BOOLEAN
    PROVE  LET event == [t EXCEPT !.classification = "EVENT"]
               routed == Proposed(t, "PENDING_MGR_TRIAGE")
           IN /\ event \in Ticket /\ event.status = t.status
              /\ routed \in Ticket /\ routed.status = t.status
              /\ \A s \in {"CLOSED_EVENT", "PENDING_MGR_EVENT_REVIEW"} :
                    Proposed(t, s) = event
              /\ can_transition_to(routed, "PENDING_MGR_TRIAGE", openWork, "none")
              /\ can_transition_to(event, "CLOSED_EVENT", openWork, "none") <=>
                    ~is_t2_event_downgrade(event)
              /\ can_transition_to(event, "PENDING_MGR_EVENT_REVIEW", openWork, "none") <=>
                    is_t2_event_downgrade(event)
<1> DEFINE event == [t EXCEPT !.classification = "EVENT"]
           routed == [t EXCEPT !.classification = "INCIDENT", !.t1_route = "OWNER"]
<1>1. event \in Ticket /\ event.status = t.status /\ event.classification = "EVENT"
  BY DEF Ticket, Classifications
<1>2. /\ routed \in Ticket
      /\ routed.status = t.status
      /\ routed.classification = "INCIDENT"
      /\ routed.t1_route = "OWNER"
  BY DEF Ticket, Classifications, Routes
<1>3. /\ Proposed(t, "PENDING_MGR_TRIAGE") = routed
      /\ \A s \in {"CLOSED_EVENT", "PENDING_MGR_EVENT_REVIEW"} : Proposed(t, s) = event
  BY DEF Proposed
<1> HIDE DEF event, routed
<1>4. can_transition_to(routed, "PENDING_MGR_TRIAGE", openWork, "none")
  BY <1>2, ReviewRules DEF has_handling_lane
<1>5. /\ can_transition_to(event, "CLOSED_EVENT", openWork, "none") <=>
            ~is_t2_event_downgrade(event)
      /\ can_transition_to(event, "PENDING_MGR_EVENT_REVIEW", openWork, "none") <=>
            is_t2_event_downgrade(event)
  BY <1>1, ReviewRules
<1> QED
  BY <1>1, <1>2, <1>3, <1>4, <1>5 DEF event

\* Whether u may drive a move is a question of the edge only, outside containment.
LEMMA DriveByEdge ==
    ASSUME NEW t, NEW n, NEW s, NEW u, t.status = n.status, t.status # "AWAITING_CONTAINMENT"
    PROVE  /\ MayDrive(t, s, u) <=> MayDrive(n, s, u)
           /\ InMenu(t, s) <=> InMenu(n, s)
  BY DEF MayDrive, InMenu, AssignedAdminEdges

\* The moves on the page are the moves the services carry out.
LEMMA MenuIsAccepted ==
    ASSUME NEW t \in Ticket, NEW u, hasOpenWork \in BOOLEAN
    PROVE  transition_actions(t, u) = AcceptedMenu(t, u)
<1>1. CASE t.status # "ESCALATED_T2"
  <2>1. \A s \in Statuses : Proposed(t, s) = t
    BY <1>1 DEF Proposed
  <2>2. \A s \in Statuses : InMenu(t, s) =>
          ((page_allows(t, s, hasOpenWork, "none") /\ user_can_drive(t, s, u))
             <=> Accepted(t, s, u))
    BY PageRules, MenuRights DEF Accepted
  <2>3. transition_actions(t, u) = {s \in Statuses : InMenu(t, s) /\ Accepted(t, s, u)}
    BY <2>1, <2>2 DEF transition_actions
  <2>4. {d[2] : d \in {e \in T2Decisions(t) :
                         t.status = "ESCALATED_T2" /\ Accepted(e[1], e[2], u)}} = {}
    BY <1>1
  <2> QED
    BY <2>3, <2>4 DEF AcceptedMenu
<1>2. CASE t.status = "ESCALATED_T2"
  <2> DEFINE event == [t EXCEPT !.classification = "EVENT"]
             routed == Proposed(t, "PENDING_MGR_TRIAGE")
             reviews == {"PENDING_MGR_TRIAGE", "CLOSED_EVENT", "PENDING_MGR_EVENT_REVIEW"}
             form == {d[2] : d \in {e \in T2Decisions(t) :
                                      t.status = "ESCALATED_T2" /\ Accepted(e[1], e[2], u)}}
             drives == u \in Superusers \cup Tier2
  <2>1. /\ event \in Ticket /\ event.status = t.status
        /\ routed \in Ticket /\ routed.status = t.status
        /\ \A s \in {"CLOSED_EVENT", "PENDING_MGR_EVENT_REVIEW"} : Proposed(t, s) = event
        /\ can_transition_to(routed, "PENDING_MGR_TRIAGE", hasOpenWork, "none")
        /\ can_transition_to(event, "CLOSED_EVENT", hasOpenWork, "none") <=>
              ~is_t2_event_downgrade(event)
        /\ can_transition_to(event, "PENDING_MGR_EVENT_REVIEW", hasOpenWork, "none") <=>
              is_t2_event_downgrade(event)
    BY <1>2, ProposedDecisions
  <2>2. \A s \in reviews : s \in Statuses /\ InMenu(t, s) /\ (MayDrive(t, s, u) <=> drives)
    BY <1>2
    DEF InMenu, MayDrive, Statuses, TERMINAL_STATUSES, RESOLVED_STATUSES,
        MANAGER_QUEUE_STATUSES, CreatorEdges, Tier2Edges, ManagerEdges,
        MANAGER_RETURN_EDGES, STEP_BACK_EDGES, AssignedAdminEdges, MONITORING_EDGES
  <2>3. ASSUME NEW n \in Ticket, n.status = t.status, NEW s \in reviews
        PROVE  InMenu(n, s) /\ (MayDrive(n, s, u) <=> drives)
    BY <1>2, <2>2, <2>3, DriveByEdge
  <2>4. routed.classification = "INCIDENT" /\ routed.t1_route = "OWNER"
    BY <1>2 DEF Proposed, Ticket
  <2>5. event.classification = "EVENT"
    BY DEF Ticket
  <2> DEFINE close == IF is_t2_event_downgrade(event) THEN "PENDING_MGR_EVENT_REVIEW"
                      ELSE "CLOSED_EVENT"
             relaned == [[t EXCEPT !.t1_route = "OWNER"] EXCEPT !.classification = "INCIDENT"]
  <2>6. <<event, close>> \in T2Decisions(t) /\ <<relaned, "PENDING_MGR_TRIAGE">> \in T2Decisions(t)
    BY DEF T2Decisions, WithLane
  <2>7. /\ relaned \in Ticket /\ relaned.status = t.status
        /\ relaned.classification = "INCIDENT" /\ relaned.t1_route = "OWNER"
    BY DEF Ticket, Classifications, Routes
  <2>8. can_transition_to(relaned, "PENDING_MGR_TRIAGE", hasOpenWork, "none")
    BY <1>2, <2>7, ReviewRules DEF has_handling_lane
  <2>9. can_transition_to(event, close, hasOpenWork, "none")
    BY <2>1
  <2> HIDE DEF event, routed, relaned
  <2>10. \A d \in T2Decisions(t) :
            \/ d = <<event, close>>
            \/ d[2] = "PENDING_MGR_TRIAGE" /\ d[1].status = t.status
    <3>1. \A c \in WithLane(t) : [c EXCEPT !.classification = "INCIDENT"].status = t.status
      BY DEF WithLane, Ticket
    <3> QED
      BY <3>1 DEF T2Decisions, event
  <2>11. form = IF drives THEN {close, "PENDING_MGR_TRIAGE"} ELSE {}
    <3>1. ASSUME drives
          PROVE  Accepted(event, close, u) /\ Accepted(relaned, "PENDING_MGR_TRIAGE", u)
      BY <2>1, <2>3, <2>7, <2>8, <2>9, <3>1 DEF Accepted
    <3>2. ASSUME ~drives, NEW d \in T2Decisions(t)
          PROVE  ~Accepted(d[1], d[2], u)
      <4>1. d[2] \in reviews /\ d[1].status = t.status
        BY <2>1, <2>10
      <4>2. MayDrive(t, d[2], u) <=> drives
        BY <2>2, <4>1
      <4> QED
        BY <1>2, <3>2, <4>1, <4>2, DriveByEdge DEF Accepted
    <3>3. CASE drives
      <4>1. {close, "PENDING_MGR_TRIAGE"} \subseteq form
        BY <1>2, <2>6, <3>1, <3>3
      <4>2. form \subseteq {close, "PENDING_MGR_TRIAGE"}
        BY <2>10
      <4> QED
        BY <3>3, <4>1, <4>2
    <3>4. CASE ~drives
      BY <3>2, <3>4
    <3> QED
      BY <3>3, <3>4
  <2>12. ASSUME NEW s \in Statuses
         PROVE  s \in transition_actions(t, u) <=> drives /\ s \in {close, "PENDING_MGR_TRIAGE"}
    <3>1. CASE s \in reviews
      <4>1. Proposed(t, s) \in Ticket /\ Proposed(t, s).status = t.status
        BY <2>1, <3>1 DEF routed
      <4>2. user_can_drive(t, s, u) <=> drives
        BY <2>2, <3>1, MenuRights
      <4>3. page_allows(Proposed(t, s), s, hasOpenWork, "none") <=>
              s \in {close, "PENDING_MGR_TRIAGE"}
        BY <2>1, <3>1, <4>1, PageRules DEF routed
      <4> QED
        BY <2>2, <3>1, <4>2, <4>3 DEF transition_actions
    <3>2. CASE s \notin reviews
      <4>1. s \in transition_actions(t, u) =>
              InMenu(t, s) /\ page_allows(t, s, hasOpenWork, "none")
        BY <1>2, <3>2 DEF transition_actions, Proposed
      <4>2. page_allows(t, s, hasOpenWork, "none") => s = "MONITORING"
        BY <1>2, <3>2, PageRules, ReviewRules
      <4>3. ~InMenu(t, "MONITORING")
        BY <1>2 DEF InMenu, MONITORING_EDGES
      <4> QED
        BY <3>2, <4>1, <4>2, <4>3
    <3> QED
      BY <3>1, <3>2
  <2>13. \A s \in Statuses : InMenu(t, s) /\ Accepted(t, s, u) =>
            drives /\ s \in {close, "PENDING_MGR_TRIAGE"}
    <3> SUFFICES ASSUME NEW s \in Statuses, InMenu(t, s), Accepted(t, s, u)
                 PROVE  drives /\ s \in {close, "PENDING_MGR_TRIAGE"}
      OBVIOUS
    <3>1. s \in reviews
      BY <1>2, ReviewRules DEF Accepted, InMenu, MONITORING_EDGES
    <3>2. drives
      BY <2>2, <3>1 DEF Accepted
    <3>3. s \in {"CLOSED_EVENT", "PENDING_MGR_EVENT_REVIEW"} =>
            (is_t2_event_downgrade(t) <=> is_t2_event_downgrade(event))
      <4>1. s \in {"CLOSED_EVENT", "PENDING_MGR_EVENT_REVIEW"} => t.classification = "EVENT"
        BY <1>2, ReviewRules DEF Accepted
      <4>2. event.classification_at_escalation = t.classification_at_escalation
        BY DEF event, Ticket
      <4> QED
        BY <2>5, <4>1, <4>2 DEF is_t2_event_downgrade
    <3>4. s = "CLOSED_EVENT" => ~is_t2_event_downgrade(t)
      BY <1>2, ReviewRules DEF Accepted
    <3>5. s = "PENDING_MGR_EVENT_REVIEW" => is_t2_event_downgrade(t)
      BY <1>2, ReviewRules DEF Accepted
    <3> QED
      BY <3>1, <3>2, <3>3, <3>4, <3>5
  <2>14. AcceptedMenu(t, u) = {s \in Statuses : InMenu(t, s) /\ Accepted(t, s, u)} \cup form
    BY DEF AcceptedMenu
  <2>15. close \in Statuses /\ "PENDING_MGR_TRIAGE" \in Statuses
    BY <2>2
  <2>16. transition_actions(t, u) \subseteq Statuses
    BY DEF transition_actions
  <2> HIDE DEF close, form, drives
  <2> QED
    BY <2>11, <2>12, <2>13, <2>14, <2>15, <2>16
<1> QED
  BY <1>1, <1>2

\* Each form the page opens leads to a move its service makes.
LEMMA ControlsAreAccepted ==
    ASSUME NEW t \in Ticket, Sound(t), NEW u, hasOpenWork \in BOOLEAN,
           FormComplete(t), NEW moves \in Controls(t, u)
    PROVE  \E m \in moves : Accepted(m[1], m[2], u)
<1> DEFINE manager == u \in Superusers \cup Managers
           tier2 == u \in Superusers \cup Tier2
           Offered(c, s) == \E m \in moves : m = <<c, s>>
<1>0. ASSUME NEW c, NEW s, Offered(c, s), Accepted(c, s, u)
      PROVE  \E m \in moves : Accepted(m[1], m[2], u)
  <2>1. <<c, s>> \in moves
    BY <1>0
  <2>2. <<c, s>>[1] = c /\ <<c, s>>[2] = s
    OBVIOUS
  <2>3. Accepted(<<c, s>>[1], <<c, s>>[2], u)
    BY <1>0, <2>2
  <2> QED
    BY <2>1, <2>3
<1>1. ASSUME t.status = "NEW", is_creator_analyst(u), t.classification # ""
      PROVE  Accepted(t, submission_target(t), u)
  <2>1. submission_target(t) = "PENDING_MGR_TRIAGE" =>
          has_handling_lane(t) /\ t.classification = "INCIDENT"
    BY <1>1 DEF submission_target, FormComplete, Ticket, Classifications
  <2>2. submission_target(t) \in {"PENDING_MGR_TRIAGE", "ESCALATED_T2"}
    BY DEF submission_target
  <2>3. can_transition_to(t, submission_target(t), hasOpenWork, "none")
    BY <1>1, <2>1, <2>2
    DEF can_transition_to, ALLOWED_TRANSITIONS, CreatorEdges, LANE_ROUTING_EDGES,
        MANAGER_RETURN_EDGES, EVENT_CLOSE_TRANSITIONS, INCIDENT_TRANSITIONS,
        AdminLaneEdges, OwnerLaneEdges, VerificationStatuses
  <2>4. MayDrive(t, submission_target(t), u)
    BY <1>1, <2>2 DEF MayDrive, CreatorEdges
  <2> QED
    BY <2>3, <2>4 DEF Accepted
<1>2. ASSUME t.status = "AWAITING_CONTAINMENT",
             u \in Superusers \/ (u \in SysAdmins /\ t.assigned_admin = u)
      PROVE  Accepted(t, "CONTAINMENT_REPORTED", u)
  <2>1. can_transition_to(t, "CONTAINMENT_REPORTED", hasOpenWork, "none")
    BY <1>2
    DEF can_transition_to, ALLOWED_TRANSITIONS, AssignedAdminEdges, LANE_ROUTING_EDGES,
        MANAGER_RETURN_EDGES, EVENT_CLOSE_TRANSITIONS, INCIDENT_TRANSITIONS,
        AdminLaneEdges, OwnerLaneEdges, VerificationStatuses
  <2>2. MayDrive(t, "CONTAINMENT_REPORTED", u)
    BY <1>2 DEF MayDrive, AssignedAdminEdges
  <2> QED
    BY <2>1, <2>2 DEF Accepted
<1>3. ASSUME t.status = "PENDING_MGR_TRIAGE", manager
      PROVE  Accepted(t, IF t.t1_route = "OWNER" THEN "AWAITING_OWNER"
                         ELSE "AWAITING_CONTAINMENT", u)
  <2> DEFINE s == IF t.t1_route = "OWNER" THEN "AWAITING_OWNER" ELSE "AWAITING_CONTAINMENT"
  <2>1. t.t1_route \in {"ADMIN", "OWNER"}
    BY <1>3 DEF Sound, LaneOK, has_handling_lane
  <2>2. can_transition_to(t, s, hasOpenWork, "none")
    BY <1>3, <2>1
    DEF can_transition_to, ALLOWED_TRANSITIONS, ManagerEdges, LANE_ROUTING_EDGES,
        MANAGER_RETURN_EDGES, EVENT_CLOSE_TRANSITIONS, INCIDENT_TRANSITIONS,
        AdminLaneEdges, OwnerLaneEdges, VerificationStatuses
  <2>3. MayDrive(t, s, u)
    BY <1>3 DEF MayDrive, ManagerEdges
  <2> QED
    BY <2>2, <2>3 DEF Accepted
<1>4. ASSUME t.status = "PENDING_MGR_TRIAGE", manager,
             page_allows(t, manager_return_target(t), hasOpenWork, "none")
      PROVE  Accepted(t, manager_return_target(t), u)
  <2>1. manager_return_target(t) \in {"ESCALATED_T2", "NEW"}
    BY DEF manager_return_target
  <2>2. manager_return_target(t) \in Statuses
    BY <2>1 DEF Statuses, TIER2_QUEUE_STATUSES
  <2>3. MayDrive(t, manager_return_target(t), u)
    BY <1>4, <2>1 DEF MayDrive, ManagerEdges, MANAGER_RETURN_EDGES
  <2> QED
    BY <1>4, <2>2, <2>3, PageRules DEF Accepted
<1>5. ASSUME t.status \in VerificationStatuses \cup {"MONITORING"}, tier2
      PROVE  Accepted([t EXCEPT !.classification = "EVENT"], "CLOSED_EVENT", u)
  <2> DEFINE c == [t EXCEPT !.classification = "EVENT"]
  <2>1. c \in Ticket /\ c.status = t.status /\ c.classification = "EVENT"
    BY DEF Ticket, Classifications
  <2> HIDE DEF c
  <2>2. can_transition_to(c, "CLOSED_EVENT", hasOpenWork, "none")
    BY <1>5, <2>1
    DEF can_transition_to, ALLOWED_TRANSITIONS, Tier2Edges, LANE_ROUTING_EDGES,
        MANAGER_RETURN_EDGES, EVENT_CLOSE_TRANSITIONS, INCIDENT_TRANSITIONS,
        AdminLaneEdges, OwnerLaneEdges, VerificationStatuses
  <2>3. MayDrive(c, "CLOSED_EVENT", u)
    BY <1>5, <2>1 DEF MayDrive, Tier2Edges, VerificationStatuses
  <2> QED
    BY <2>2, <2>3 DEF Accepted, c
<1>6. ASSUME t.status = "ESCALATED_T2", ~t.has_been_monitored, tier2
      PROVE  Accepted(t, "MONITORING", u)
  <2>1. can_transition_to(t, "MONITORING", hasOpenWork, "none")
    BY <1>6
    DEF can_transition_to, ALLOWED_TRANSITIONS, Tier2Edges, LANE_ROUTING_EDGES,
        MANAGER_RETURN_EDGES, EVENT_CLOSE_TRANSITIONS, INCIDENT_TRANSITIONS,
        AdminLaneEdges, OwnerLaneEdges, VerificationStatuses
  <2>2. MayDrive(t, "MONITORING", u)
    BY <1>6 DEF MayDrive, Tier2Edges
  <2> QED
    BY <2>1, <2>2 DEF Accepted
<1>7. ASSUME t.status = "MONITORING", tier2
      PROVE  \E c \in WithLane(t) :
                Accepted([c EXCEPT !.classification = "INCIDENT"], "PENDING_MGR_TRIAGE", u)
  <2> DEFINE d == [t EXCEPT !.t1_route = "OWNER"]
             c == [d EXCEPT !.classification = "INCIDENT"]
  <2>1. d \in WithLane(t)
    BY DEF WithLane
  <2>2. c \in Ticket /\ c.status = t.status /\ c.classification = "INCIDENT"
          /\ c.t1_route = "OWNER"
    BY DEF Ticket, Classifications, Routes
  <2> HIDE DEF c
  <2>3. can_transition_to(c, "PENDING_MGR_TRIAGE", hasOpenWork, "none")
    BY <1>7, <2>2
    DEF can_transition_to, ALLOWED_TRANSITIONS, Tier2Edges, LANE_ROUTING_EDGES,
        MANAGER_RETURN_EDGES, EVENT_CLOSE_TRANSITIONS, INCIDENT_TRANSITIONS,
        AdminLaneEdges, OwnerLaneEdges, VerificationStatuses, has_handling_lane
  <2>4. MayDrive(c, "PENDING_MGR_TRIAGE", u)
    BY <1>7, <2>2 DEF MayDrive, Tier2Edges
  <2>5. Accepted(c, "PENDING_MGR_TRIAGE", u)
    BY <2>3, <2>4 DEF Accepted
  <2> QED
    BY <2>1, <2>5 DEF c
<1>8. ASSUME t.status \in {"AWAITING_CONTAINMENT", "AWAITING_OWNER", "OWNER_REMEDIATED",
                           "PENDING_MANAGER"}, manager
      PROVE  Accepted(t, step_back_target(t), u)
  <2> DEFINE s == step_back_target(t)
  <2>1. <<t.status, s>> \in STEP_BACK_EDGES
    BY <1>8 DEF step_back_target, STEP_BACK_EDGES
  <2>2. t.status = "PENDING_MANAGER" => t.t1_route \in {"ADMIN", "OWNER"}
    BY DEF Sound, LaneOK, has_handling_lane
  <2>3. can_transition_to(t, s, hasOpenWork, "none")
    BY <1>8, <2>1, <2>2
    DEF step_back_target, can_transition_to, ALLOWED_TRANSITIONS, STEP_BACK_EDGES,
        LANE_ROUTING_EDGES, MANAGER_RETURN_EDGES, EVENT_CLOSE_TRANSITIONS,
        INCIDENT_TRANSITIONS, AdminLaneEdges, OwnerLaneEdges, VerificationStatuses
  <2>4. MayDrive(t, s, u)
    BY <1>8, <2>1 DEF MayDrive
  <2> QED
    BY <2>3, <2>4 DEF Accepted
<1>9. \/ /\ t.status = "NEW" /\ is_creator_analyst(u) /\ t.classification # ""
         /\ Offered(t, submission_target(t))
      \/ /\ t.status = "AWAITING_CONTAINMENT"
         /\ u \in Superusers \/ (u \in SysAdmins /\ t.assigned_admin = u)
         /\ Offered(t, "CONTAINMENT_REPORTED")
      \/ /\ t.status = "PENDING_MGR_TRIAGE" /\ manager
         /\ Offered(t, IF t.t1_route = "OWNER" THEN "AWAITING_OWNER"
                       ELSE "AWAITING_CONTAINMENT")
      \/ /\ t.status = "PENDING_MGR_TRIAGE" /\ manager
         /\ page_allows(t, manager_return_target(t), hasOpenWork, "none")
         /\ Offered(t, manager_return_target(t))
      \/ /\ t.status \in VerificationStatuses \cup {"MONITORING"} /\ tier2
         /\ Offered([t EXCEPT !.classification = "EVENT"], "CLOSED_EVENT")
      \/ /\ t.status = "ESCALATED_T2" /\ ~t.has_been_monitored /\ tier2
         /\ Offered(t, "MONITORING")
      \/ /\ t.status = "MONITORING" /\ tier2
         /\ \A c \in WithLane(t) :
              Offered([c EXCEPT !.classification = "INCIDENT"], "PENDING_MGR_TRIAGE")
      \/ /\ t.status \in {"AWAITING_CONTAINMENT", "AWAITING_OWNER", "OWNER_REMEDIATED",
                          "PENDING_MANAGER"}
         /\ manager
         /\ Offered(t, step_back_target(t))
  BY ZenonT(30) DEF Controls
<1> HIDE DEF Offered, manager, tier2
<1> QED
  BY <1>0, <1>1, <1>2, <1>3, <1>4, <1>5, <1>6, <1>7, <1>8, <1>9

\* For every set of accounts, the page offers exactly the moves the services accept.
THEOREM OffersStayTrue == NoticesSpec => []OffersAreKept
<1>1. ASSUME NInv, NEW u \in Users
      PROVE  /\ transition_actions(row, u) = AcceptedMenu(row, u)
             /\ \A moves \in Controls(row, u) : \E m \in moves : Accepted(m[1], m[2], u)
  <2>1. row \in Ticket /\ Sound(row) /\ hasOpenWork \in BOOLEAN
    BY <1>1 DEF NInv, IInv, RowOK, hasOpenWork
  <2>2. transition_actions(row, u) = AcceptedMenu(row, u)
    BY <2>1, MenuIsAccepted
  <2>3. FormComplete(row)
    BY <1>1 DEF NInv, FormOK
  <2>4. ASSUME NEW moves \in Controls(row, u)
        PROVE  \E m \in moves : Accepted(m[1], m[2], u)
    BY <2>1, <2>3, ControlsAreAccepted
  <2> QED
    BY <2>2, <2>4
<1>2. NInv => OffersAreKept
  BY <1>1 DEF OffersAreKept
<1> QED
  BY <1>2, NInvariance, PTL

\* Somebody who is not a superuser holds each role the workflow hands a case to.
Staffed ==
    /\ Creator \in Tier1 \ Superusers
    /\ Tier2 \ Superusers # {}
    /\ Managers \ Superusers # {}
    /\ SysAdmins \cap Superusers = {}

\* The holder of an open case finds it on a page, in its count and with a move.
AtHand(u) ==
    /\ holds_ticket_court(row, u)
    /\ OnDesk(row, u)
    /\ u \in SysAdmins \/ BadgeCounts(row, u, TRUE)
    /\ row.status # "MONITORING" =>
         \/ transition_actions(row, u) # {}
         \/ Controls(row, u) # {}
         \/ row.status = "NEW" /\ can_edit_ticket(row, u)

\* A move of the menu is offered when its rules hold and u may drive it.
LEMMA Offers ==
    ASSUME NEW t \in Ticket, NEW u, NEW s \in Statuses, t.status # "ESCALATED_T2",
           hasOpenWork \in BOOLEAN, InMenu(t, s),
           can_transition_to(t, s, hasOpenWork, "none"), MayDrive(t, s, u)
    PROVE  transition_actions(t, u) # {}
<1>1. s \in AcceptedMenu(t, u)
  BY DEF AcceptedMenu, Accepted
<1> QED
  BY <1>1, MenuIsAccepted

\* Where the case waits for its creator.
LEMMA CreatorHolds ==
    ASSUME Staffed, row \in Ticket, hasOpenWork \in BOOLEAN,
           row.status \in {"NEW", "MONITORING", "OWNER_REMEDIATED", "AWAITING_OWNER"}
    PROVE  Creator \in Users \ Superusers /\ AtHand(Creator)
<1>1. Creator \in Users \ Superusers
  BY AccountsAssumption DEF Staffed
<1>2. is_creator_analyst(Creator) /\ has_profile(Creator) /\ is_soc(Creator)
  BY DEF Staffed, is_creator_analyst, has_profile, is_soc
<1>3. holds_ticket_court(row, Creator)
  BY <1>2 DEF holds_ticket_court, HoldsBesideOwner
<1>4. triage_list(row, Creator)
  BY DEF triage_list, Staffed, TIER1_QUEUE_STATUSES, CREATOR_REVIEW_STATUSES
<1>5. row.status \in {"OWNER_REMEDIATED", "AWAITING_OWNER"} =>
        transition_actions(row, Creator) # {}
  <2> SUFFICES ASSUME row.status \in {"OWNER_REMEDIATED", "AWAITING_OWNER"}
               PROVE  transition_actions(row, Creator) # {}
    OBVIOUS
  <2>1. can_transition_to(row, "PENDING_T2_REVIEW", hasOpenWork, "none")
    BY DEF can_transition_to, ALLOWED_TRANSITIONS, CreatorEdges, LANE_ROUTING_EDGES,
           MANAGER_RETURN_EDGES, EVENT_CLOSE_TRANSITIONS, INCIDENT_TRANSITIONS,
           AdminLaneEdges, OwnerLaneEdges, VerificationStatuses
  <2>2. MayDrive(row, "PENDING_T2_REVIEW", Creator)
    BY <1>2 DEF MayDrive, CreatorEdges
  <2>3. InMenu(row, "PENDING_T2_REVIEW")
    BY DEF InMenu, STEP_BACK_EDGES, MONITORING_EDGES, MANAGER_RETURN_EDGES,
           AssignedAdminEdges
  <2>4. "PENDING_T2_REVIEW" \in Statuses
    BY DEF Statuses, TIER2_QUEUE_STATUSES
  <2> QED
    BY <2>1, <2>2, <2>3, <2>4, Offers
<1>6. row.status = "NEW" => can_edit_ticket(row, Creator)
  BY <1>2 DEF can_edit_ticket, RESOLVED_STATUSES
<1> QED
  BY <1>1, <1>3, <1>4, <1>5, <1>6 DEF AtHand, OnDesk, BadgeCounts

\* Where it waits for Tier 2: for the one who claimed it, or for any of them.
LEMMA Tier2Holds ==
    ASSUME Staffed, RowOK, ~HeldBySuperuser, row.status \in TIER2_QUEUE_STATUSES
    PROVE  \E u \in Users \ Superusers : AtHand(u)
<1>1. PICK u \in Tier2 \ Superusers : row.t2_claimed_by \in {NoUser, u}
  <2>1. CASE row.t2_claimed_by = NoUser
    BY <2>1 DEF Staffed
  <2>2. CASE row.t2_claimed_by # NoUser
    BY <2>2 DEF RowOK, ClaimsInQueue, works_tier2, HeldBySuperuser
  <2> QED
    BY <2>1, <2>2
<1>2. u \in Users \ Superusers
  BY <1>1, AccountsAssumption
<1>3. holds_ticket_court(row, u)
  BY <1>1 DEF holds_ticket_court, HoldsBesideOwner, has_profile, t2_claim_blocks
<1>4. escalation_queue(row, u)
  BY <1>1 DEF escalation_queue, works_tier2
<1>5. transition_actions(row, u) # {} \/ Controls(row, u) # {}
  <2>1. CASE row.status \in VerificationStatuses
    <3>1. {<<[row EXCEPT !.classification = "EVENT"], "CLOSED_EVENT">>} \in Controls(row, u)
      BY <1>1, <2>1 DEF Controls
    <3> QED
      BY <3>1
  <2>2. CASE row.status = "ESCALATED_T2"
    <3> DEFINE c == [[row EXCEPT !.t1_route = "OWNER"] EXCEPT !.classification = "INCIDENT"]
    <3>1. <<c, "PENDING_MGR_TRIAGE">> \in T2Decisions(row)
      BY DEF T2Decisions, WithLane
    <3>2. /\ c \in Ticket /\ c.status = "ESCALATED_T2"
          /\ c.classification = "INCIDENT" /\ c.t1_route = "OWNER"
      BY <2>2 DEF Ticket, Classifications, Routes, RowOK
    <3> HIDE DEF c
    <3>3. can_transition_to(c, "PENDING_MGR_TRIAGE", hasOpenWork, "none")
      BY <3>2, ReviewRules DEF has_handling_lane
    <3>4. MayDrive(c, "PENDING_MGR_TRIAGE", u)
      BY <1>1, <3>2 DEF MayDrive, Tier2Edges
    <3>5. "PENDING_MGR_TRIAGE" \in AcceptedMenu(row, u)
      BY <2>2, <3>1, <3>3, <3>4 DEF AcceptedMenu, Accepted
    <3> QED
      BY <3>5, MenuIsAccepted DEF RowOK, hasOpenWork
  <2> QED
    BY <2>1, <2>2 DEF TIER2_QUEUE_STATUSES, VerificationStatuses
<1>6. row.status # "NEW" /\ row.status # "MONITORING"
  BY DEF TIER2_QUEUE_STATUSES
<1> QED
  BY <1>2, <1>3, <1>4, <1>5, <1>6 DEF AtHand, OnDesk, BadgeCounts

\* Where it waits for the SOC Manager.
LEMMA ManagersHold ==
    ASSUME Staffed, RowOK, row.status \in MANAGER_QUEUE_STATUSES
    PROVE  \E u \in Users \ Superusers : AtHand(u)
<1>1. PICK u \in Managers \ Superusers : TRUE
  BY DEF Staffed
<1>2. u \in Users \ Superusers
  BY <1>1, AccountsAssumption
<1>3. holds_ticket_court(row, u)
  BY <1>1 DEF holds_ticket_court, HoldsBesideOwner, has_profile
<1>4. manager_queue(row, u)
  BY <1>1 DEF manager_queue, is_soc_manager
<1>5. transition_actions(row, u) # {} \/ Controls(row, u) # {}
  <2>1. CASE row.status = "PENDING_MGR_TRIAGE"
    <3>1. {<<row, IF row.t1_route = "OWNER" THEN "AWAITING_OWNER"
                  ELSE "AWAITING_CONTAINMENT">>} \in Controls(row, u)
      BY <1>1, <2>1 DEF Controls
    <3> QED
      BY <3>1
  <2>2. CASE row.status = "PENDING_MANAGER"
    <3>1. {<<row, step_back_target(row)>>} \in Controls(row, u)
      BY <1>1, <2>2 DEF Controls
    <3> QED
      BY <3>1
  <2>3. CASE row.status = "PENDING_MGR_EVENT_REVIEW"
    <3>1. can_transition_to(row, "ESCALATED_T2", hasOpenWork, "none")
      BY <2>3
      DEF can_transition_to, ALLOWED_TRANSITIONS, ManagerEdges, LANE_ROUTING_EDGES,
          MANAGER_RETURN_EDGES, EVENT_CLOSE_TRANSITIONS, INCIDENT_TRANSITIONS,
          AdminLaneEdges, OwnerLaneEdges, VerificationStatuses
    <3>2. MayDrive(row, "ESCALATED_T2", u)
      BY <1>1, <2>3 DEF MayDrive, ManagerEdges
    <3>3. InMenu(row, "ESCALATED_T2")
      BY <2>3 DEF InMenu, STEP_BACK_EDGES, MONITORING_EDGES, MANAGER_RETURN_EDGES,
                  AssignedAdminEdges
    <3>4. "ESCALATED_T2" \in Statuses /\ row \in Ticket /\ hasOpenWork \in BOOLEAN
      BY DEF Statuses, TIER2_QUEUE_STATUSES, RowOK, hasOpenWork
    <3> QED
      BY <2>3, <3>1, <3>2, <3>3, <3>4, Offers
  <2> QED
    BY <2>1, <2>2, <2>3 DEF MANAGER_QUEUE_STATUSES
<1> QED
  BY <1>2, <1>3, <1>4, <1>5 DEF AtHand, OnDesk, BadgeCounts

\* Where it waits for the System Admin it was assigned to.
LEMMA AdminHolds ==
    ASSUME Staffed, RowOK, row.status = "AWAITING_CONTAINMENT"
    PROVE  \E u \in Users \ Superusers : AtHand(u)
<1> DEFINE u == row.assigned_admin
<1>1. u \in SysAdmins
  BY DEF RowOK, Sound, LaneOK, AdminLane
<1> HIDE DEF u
<1>2. u \in Users \ Superusers
  BY <1>1, AccountsAssumption DEF Staffed
<1>3. holds_ticket_court(row, u)
  BY <1>1 DEF holds_ticket_court, HoldsBesideOwner, has_profile, u
<1>4. ticket_list(row, u)
  BY <1>1 DEF ticket_list, visible_to, VisibleTo, is_open, TERMINAL_STATUSES,
              RESOLVED_STATUSES, u
<1>5. {<<row, "CONTAINMENT_REPORTED">>} \in Controls(row, u)
  BY <1>1 DEF Controls, u
<1> QED
  BY <1>1, <1>2, <1>3, <1>4, <1>5 DEF AtHand, OnDesk

\* The label names the accounts that hold the case, and the analyst beside the owner.
LEMMA LabelIsRight ==
    ASSUME Staffed, RowOK, NEW u \in Users \ Superusers
    PROVE  holds_ticket_court(row, u) <=>
             \/ u \in court_holder_label(row)
             \/ row.status = "AWAITING_OWNER" /\ u = Creator
<1>1. u # NoUser /\ row \in Ticket
  BY AccountsAssumption DEF RowOK
<1>2. is_creator_analyst(u) <=> u = Creator
  BY DEF is_creator_analyst, Staffed
<1>3. u = Creator => has_profile(u)
  BY DEF Staffed, has_profile
<1>4. row.assigned_admin \in SysAdmins \cup {NoUser}
  BY DEF RowOK, Sound, LaneOK
<1>5. row.t2_claimed_by # NoUser => row.t2_claimed_by \in Tier2 \cup Superusers
  BY DEF RowOK, ClaimsInQueue, works_tier2
<1>6. SystemOwner \in Owners \cup {NoUser}
  BY OwnersAssumption
<1> USE DEF holds_ticket_court, HoldsBesideOwner, court_holder_label,
            TIER2_QUEUE_STATUSES, MANAGER_QUEUE_STATUSES
<1>7. CASE row.status \in {"NEW", "OWNER_REMEDIATED", "MONITORING"}
  BY <1>2, <1>3, <1>7
<1>8. CASE row.status \in TIER2_QUEUE_STATUSES
  BY <1>1, <1>5, <1>8 DEF t2_claim_blocks, has_profile
<1>9. CASE row.status \in MANAGER_QUEUE_STATUSES
  BY <1>9 DEF has_profile
<1>10. CASE row.status = "AWAITING_CONTAINMENT"
  BY <1>1, <1>4, <1>10 DEF has_profile
<1>11. CASE row.status = "AWAITING_OWNER"
  BY <1>1, <1>2, <1>3, <1>6, <1>11 DEF has_profile
<1>12. CASE row.status \in TERMINAL_STATUSES
  BY <1>12 DEF TERMINAL_STATUSES, RESOLVED_STATUSES
<1> QED
  BY <1>1, <1>7, <1>8, <1>9, <1>10, <1>11, <1>12 DEF Ticket, Statuses

\* No list shows a case its reader may not open.
LEMMA ListsAreVisible ==
    ASSUME Staffed, NEW u \in Users, OnDesk(row, u) \/ system_owner_dashboard(row, u)
    PROVE  visible_to(row, u)
  BY DEF OnDesk, triage_list, escalation_queue, works_tier2, manager_queue, is_soc_manager,
         ticket_list, system_owner_dashboard, visible_to, VisibleTo, is_soc, Staffed

\* With every role staffed, whatever the accounts are, no open case waits unseen.
THEOREM NothingWaitsUnseen ==
    ASSUME Staffed
    PROVE  NoticesSpec => []WaitsOnADesk
<1>1. ASSUME NInv, is_open(row), ~HeldBySuperuser
      PROVE  \E u \in Users \ Superusers : AtHand(u)
  <2>1. RowOK /\ row \in Ticket /\ hasOpenWork \in BOOLEAN
    BY <1>1 DEF NInv, IInv, RowOK, hasOpenWork
  <2>2. \/ row.status \in {"NEW", "MONITORING", "OWNER_REMEDIATED", "AWAITING_OWNER"}
        \/ row.status \in TIER2_QUEUE_STATUSES
        \/ row.status \in MANAGER_QUEUE_STATUSES
        \/ row.status = "AWAITING_CONTAINMENT"
    BY <1>1, <2>1 DEF is_open, Ticket, Statuses
  <2> QED
    BY <1>1, <2>1, <2>2, CreatorHolds, Tier2Holds, ManagersHold, AdminHolds
<1>2. NInv => RowOK
  BY DEF NInv, IInv
<1>3. NInv => WaitsOnADesk
  BY <1>1, <1>2, LabelIsRight, ListsAreVisible DEF WaitsOnADesk, AtHand
<1> QED
  BY <1>3, NInvariance, PTL

-----------------------------------------------------------------------------
(***************************************************************************)
(* The letters of a step                                                   *)
(***************************************************************************)

\* What HandoversAreAnnounced says of one step.
Announced ==
    LET begins(S) == row.status \notin S /\ row'.status \in S
        told(kind, u) == \E n \in mail' : n.kind = kind /\ n.to = {u} /\ n.arrived
    IN  /\ begins({"AWAITING_CONTAINMENT"}) =>
             told("containment_alert", row'.assigned_admin) \/ warned'
        /\ SystemOwner \in Addressed =>
             /\ begins(RESOLVED_STATUSES) => told("owner_closed", SystemOwner) \/ warned'
             /\ (row # row' /\ \E n \in mail' : n.kind = "owner_closed") =>
                  begins(RESOLVED_STATUSES)

\* The letters a step has to try.
Announces(L) ==
    /\ row.status # "AWAITING_CONTAINMENT" /\ row'.status = "AWAITING_CONTAINMENT" =>
            Letter("containment_alert", {row'.assigned_admin}, TRUE) \in L
    /\ row.status \notin RESOLVED_STATUSES /\ row'.status \in RESOLVED_STATUSES =>
            OwnerLetter("owner_closed") \subseteq L
    /\ \A n \in L : n.kind = "owner_closed" =>
            \/ row' = row
            \/ row.status \notin RESOLVED_STATUSES /\ row'.status \in RESOLVED_STATUSES

\* A letter that warns arrives at its only addressee, or the actor is told.
LEMMA LetterTold ==
    ASSUME NEW L, Post(L), NEW kind, NEW u, Letter(kind, {u}, TRUE) \in L
    PROVE  (\E n \in mail' : n.kind = kind /\ n.to = {u} /\ n.arrived) \/ warned'
<1> DEFINE x == Letter(kind, {u}, TRUE)
<1>1. x.kind = kind /\ x.to = {u} \cap Addressed /\ x.reported = TRUE
  BY DEF Letter
<1> HIDE DEF x
<1>2. x \in L
  BY DEF x
<1>3. PICK arrived \in SUBSET {n \in L : n.to # {}} :
        /\ mail' = {[kind |-> n.kind, to |-> n.to, arrived |-> n \in arrived] : n \in L}
        /\ warned' = \E n \in L \ arrived : n.reported
  BY DEF Post
<1>4. CASE x \in arrived
  <2> DEFINE y == [kind |-> x.kind, to |-> x.to, arrived |-> x \in arrived]
  <2>1. y \in mail'
    BY <1>2, <1>3
  <2>2. x.to = {u}
    BY <1>1, <1>3, <1>4
  <2>3. y.kind = kind /\ y.to = {u} /\ y.arrived
    BY <1>1, <1>4, <2>2
  <2> HIDE DEF y
  <2> QED
    BY <2>1, <2>3
<1>5. CASE x \notin arrived
  <2>1. \E n \in L \ arrived : n.reported
    BY <1>1, <1>2, <1>5
  <2> QED
    BY <1>3, <2>1, Zenon
<1> QED
  BY <1>4, <1>5

\* So of the owner's letter.
LEMMA OwnerTold ==
    ASSUME NEW L, Post(L), Letter("owner_closed", {SystemOwner}, TRUE) \in L
    PROVE  \/ \E n \in mail' : /\ n.kind = "owner_closed"
                               /\ n.to = {SystemOwner}
                               /\ n.arrived
           \/ warned'
<1> DEFINE Told(kind, u) ==
             (\E n \in mail' : n.kind = kind /\ n.to = {u} /\ n.arrived) \/ warned'
<1>1. \A kind, u : Letter(kind, {u}, TRUE) \in L => Told(kind, u)
  BY LetterTold
<1> HIDE DEF Told
<1>2. Told("owner_closed", SystemOwner)
  BY <1>1
<1> QED
  BY <1>2 DEF Told

\* A step that posts what it has to announces what it does.
LEMMA PostedAnnounced ==
    ASSUME NEW L, Post(L), Announces(L)
    PROVE  Announced
<1>1. ASSUME row.status # "AWAITING_CONTAINMENT", row'.status = "AWAITING_CONTAINMENT"
      PROVE  \/ \E n \in mail' : /\ n.kind = "containment_alert"
                                 /\ n.to = {row'.assigned_admin}
                                 /\ n.arrived
             \/ warned'
  BY <1>1, LetterTold DEF Announces
<1>2. ASSUME SystemOwner \in Addressed,
             row.status \notin RESOLVED_STATUSES, row'.status \in RESOLVED_STATUSES
      PROVE  \/ \E n \in mail' : /\ n.kind = "owner_closed"
                                 /\ n.to = {SystemOwner}
                                 /\ n.arrived
             \/ warned'
  <2>1. Letter("owner_closed", {SystemOwner}, TRUE) \in L
    BY <1>2 DEF Announces, OwnerLetter
  <2> QED
    BY <2>1, OwnerTold
<1>3. ASSUME row # row', NEW m \in mail', m.kind = "owner_closed"
      PROVE  row.status \notin RESOLVED_STATUSES /\ row'.status \in RESOLVED_STATUSES
  <2>1. PICK arrived \in SUBSET {n \in L : n.to # {}} :
          mail' = {[kind |-> n.kind, to |-> n.to, arrived |-> n \in arrived] : n \in L}
    BY DEF Post
  <2>2. PICK n \in L : m = [kind |-> n.kind, to |-> n.to, arrived |-> n \in arrived]
    BY <1>3, <2>1
  <2>3. n.kind = "owner_closed"
    BY <1>3, <2>2
  <2> QED
    BY <1>3, <2>3 DEF Announces
<1> QED
  BY <1>1, <1>2, <1>3 DEF Announced

\* A step along an edge, by a service of the current row.
Along(s) == row'.status = s /\ <<row.status, s>> \in ALLOWED_TRANSITIONS

\* Nothing leaves a resolved case, so an edge into one ends the case.
LEMMA EdgesIn ==
    ASSUME NEW s, Along(s)
    PROVE  row.status \notin RESOLVED_STATUSES /\ row'.status = s
  BY EdgeCases DEF Along, RESOLVED_STATUSES

\* transition_to of the row, whatever was set on the instance before.
LEMMA TransitionAlong ==
    ASSUME NEW q \in Request, NEW c \in Ticket, NEW s \in Statuses, row \in Ticket,
           TransitionTo(q, c, s)
    PROVE  Along(s) /\ row'.assigned_admin = c.assigned_admin
<1> DEFINE locked == [c EXCEPT !.t2_claimed_by = row.t2_claimed_by]
<1>1. /\ locked \in Ticket
      /\ locked.status = c.status
      /\ locked.assigned_admin = c.assigned_admin
  BY DEF Ticket
<1>2. /\ can_transition_to(locked, s, hasOpenWork, "none")
      /\ row' = Applied(locked, s, q.user)
      /\ row.status = c.status
  BY DEF TransitionTo
<1> HIDE DEF locked
<1>3. q.user \in Users
  BY DEF Request
<1>4. row'.status = s /\ row'.assigned_admin = locked.assigned_admin
  BY <1>1, <1>2, <1>3, AppliedLane
<1> QED
  BY <1>1, <1>2, <1>4 DEF can_transition_to, Along

\* The accounts that opened the case and that it was assigned to work in the SOC.
AnalystsOpenCases ==
    /\ is_soc(Creator)
    /\ assigned_to # NoUser => is_soc(assigned_to)

Readable(L) == \A n \in L : \A v \in n.to : visible_to(row', v)

\* A step that ends no case and hands none to the admin owes no letter.
LEMMA QuietStep ==
    ASSUME NEW L, \A n \in L : n.kind # "owner_closed",
           \/ row'.status \notin RESOLVED_STATUSES \cup {"AWAITING_CONTAINMENT"}
           \/ row'.status = row.status
    PROVE  Announces(L)
  BY DEF Announces

\* A step along an edge with the letters of its target, and others.
LEMMA AnnouncedStep ==
    ASSUME NEW s, Along(s), NEW L,
           s = "AWAITING_CONTAINMENT" => ContainmentLetters \subseteq L,
           s \in RESOLVED_STATUSES => ClosedLetters \subseteq L,
           \A n \in L : n.kind = "owner_closed" => s \in RESOLVED_STATUSES
    PROVE  Announces(L)
<1>1. row.status \notin RESOLVED_STATUSES /\ row'.status = s
  BY EdgesIn
<1>2. s = "AWAITING_CONTAINMENT" =>
        Letter("containment_alert", {row'.assigned_admin}, TRUE) \in L
  BY <1>1 DEF ContainmentLetters, notify_containment_alert
<1>3. s \in RESOLVED_STATUSES => OwnerLetter("owner_closed") \subseteq L
  BY <1>1 DEF ClosedLetters
<1> QED
  BY <1>1, <1>2, <1>3 DEF Announces

\* The kinds of the letters.
LEMMA Kinds ==
    /\ \A n \in TriageLetters : n.kind = "manager_triage_pending"
    /\ \A n \in ContainmentLetters : n.kind = "containment_alert"
    /\ \A n \in ClosedLetters : n.kind = "owner_closed" /\ row'.status \in RESOLVED_STATUSES
    /\ \A n \in OwnerLetter("owner_created") : n.kind = "owner_created"
    /\ notify_containment_submitted.kind = "containment_submitted"
    /\ notify_response_request_completed.kind = "response_request_completed"
    /\ \A u : notify_response_request_created(u).kind = "response_request_created"
    /\ \A t, u : notify_ticket_cancellation(t, u).kind = "cancellation"
  BY DEF TriageLetters, ContainmentLetters, ClosedLetters, OwnerLetter, Letter,
         notify_manager_triage_pending, notify_containment_alert,
         notify_containment_submitted, notify_response_request_completed,
         notify_response_request_created, notify_ticket_cancellation

\* Who gets them may open the case.
LEMMA Readers ==
    ASSUME RowOK'
    PROVE  /\ Readable(TriageLetters)
           /\ Readable(ContainmentLetters)
           /\ Readable(ClosedLetters)
           /\ \A kind : Readable(OwnerLetter(kind))
           /\ AnalystsOpenCases => Readable({notify_containment_submitted})
           /\ Readable({notify_response_request_completed})
           /\ \A u \in Responders : Readable({notify_response_request_created(u)})
<1>0. NoUser \notin Addressed
  BY AccountsAssumption, AddressesAssumption
<1>1. ASSUME NEW v, is_soc(v)
      PROVE  visible_to(row', v)
  BY <1>1 DEF visible_to, VisibleTo
<1>2. \A v \in Managers \cup Tier2 : visible_to(row', v)
  BY <1>1 DEF is_soc
<1>3. Readable(TriageLetters) /\ Readable({notify_response_request_completed})
  BY <1>2 DEF Readable, TriageLetters, notify_manager_triage_pending, Letter,
              notify_response_request_completed
<1>4. Readable(ContainmentLetters)
  <2> SUFFICES ASSUME row'.status = "AWAITING_CONTAINMENT",
                      NEW v \in {row'.assigned_admin} \cap Addressed
               PROVE  visible_to(row', v)
    BY DEF Readable, ContainmentLetters, notify_containment_alert, Letter
  <2>1. row'.assigned_admin \in SysAdmins
    BY DEF RowOK, Sound, LaneOK, AdminLane
  <2> QED
    BY <2>1 DEF visible_to, VisibleTo
<1>5. ASSUME NEW kind
      PROVE  Readable(OwnerLetter(kind))
  <2>1. SystemOwner \in Addressed => SystemOwner \in Owners
    BY <1>0, OwnersAssumption
  <2> QED
    BY <2>1 DEF Readable, OwnerLetter, Letter, visible_to
<1>6. Readable(ClosedLetters)
  BY <1>5 DEF ClosedLetters, Readable
<1>7. ASSUME AnalystsOpenCases
      PROVE  Readable({notify_containment_submitted})
  <2>1. assigned_to \in Addressed => visible_to(row', assigned_to)
    BY <1>0, <1>1, <1>7 DEF AnalystsOpenCases
  <2>2. \A v \in notify_containment_submitted.to : v \in Tier2 \/ v = assigned_to
    BY DEF notify_containment_submitted, Letter
  <2>3. notify_containment_submitted.to \subseteq Addressed
    BY DEF notify_containment_submitted, Letter
  <2> QED
    BY <1>2, <2>1, <2>2, <2>3 DEF Readable
<1>8. ASSUME NEW u \in Responders
      PROVE  Readable({notify_response_request_created(u)})
  BY DEF Readable, notify_response_request_created, Letter, visible_to, VisibleTo
<1> QED
  BY <1>3, <1>4, <1>5, <1>6, <1>7, <1>8

\* The letter about a cancellation, to everybody who had a part in the case.
LEMMA CancellationReaders ==
    ASSUME RowOK, NEW u \in Users, CancelDirectly(u), AnalystsOpenCases
    PROVE  Readable({notify_ticket_cancellation(row, u)})
<1>0. NoUser \notin Addressed
  BY AccountsAssumption, AddressesAssumption
<1>1. row'.assigned_admin = row.assigned_admin
  BY DEF CancelDirectly, RowOK, Ticket
<1> SUFFICES ASSUME NEW v \in notify_ticket_cancellation(row, u).to
             PROVE  visible_to(row', v)
  BY DEF Readable
<1>2. /\ v \in Addressed
      /\ v \in Managers \cup {u, Creator, row.assigned_admin, SystemOwner} \cup Responders
  BY DEF notify_ticket_cancellation, Letter
<1>3. CASE v \in Managers \cup {Creator} \cup Responders
  BY <1>3 DEF AnalystsOpenCases, visible_to, VisibleTo, is_soc
<1>4. CASE v = u
  BY <1>1, <1>4 DEF CancelDirectly, visible_to, VisibleTo
<1>5. CASE v = row.assigned_admin
  <2>1. v \in SysAdmins
    BY <1>0, <1>2, <1>5 DEF RowOK, Sound, LaneOK
  <2> QED
    BY <1>1, <1>5, <2>1 DEF visible_to, VisibleTo
<1>6. CASE v = SystemOwner
  <2>1. v \in Owners
    BY <1>0, <1>2, <1>6, OwnersAssumption
  <2> QED
    BY <1>6, <2>1 DEF visible_to
<1> QED
  BY <1>2, <1>3, <1>4, <1>5, <1>6

\* Letters that go out: what a step owes is among them, and they are readable.
Sends == \E L : Post(L) /\ Announces(L) /\ (AnalystsOpenCases => Readable(L))

\* The status a service of the current row moves it to.
LEMMA ServiceTargets ==
    ASSUME RowOK, NEW u \in Users, NEW q \in Request, q.copy = row
    PROVE  /\ SubmitPreparation(q) =>
                \E s \in {"PENDING_MGR_TRIAGE", "ESCALATED_T2"} : Along(s)
           /\ ManagerForward(q) =>
                \E s \in {"AWAITING_OWNER", "AWAITING_CONTAINMENT"} : Along(s)
           /\ CompleteT2Review(q) =>
                \E s \in {"PENDING_MGR_EVENT_REVIEW", "CLOSED_EVENT",
                          "PENDING_MGR_TRIAGE"} : Along(s)
           /\ ConcludeAsIncident(q) => Along("PENDING_MGR_TRIAGE")
           /\ ConcludeAsEvent(q) \/ ReclassifyAsEvent(q) => Along("CLOSED_EVENT")
           /\ SubmitContainment(q) => Along("CONTAINMENT_REPORTED")
           /\ WorkflowAction(q) => \E s \in Statuses : Along(s)
           /\ ReturnForCompletion(q) => \E s \in {"ESCALATED_T2", "NEW"} : Along(s)
           /\ StepBack(q) =>
                \E s \in {"CONTAINMENT_REPORTED", "PENDING_T2_REVIEW", "AWAITING_OWNER",
                          "PENDING_MGR_TRIAGE"} : Along(s)
           /\ StartMonitoring(q) => Along("MONITORING")
<1> USE DEF Statuses, TERMINAL_STATUSES, RESOLVED_STATUSES, TIER2_QUEUE_STATUSES,
            MANAGER_QUEUE_STATUSES
<1>0. row \in Ticket /\ q.copy \in Ticket /\ Sound(row)
  BY DEF RowOK
<1>1. ASSUME NEW s \in Statuses, NEW c \in Ticket, TransitionTo(q, c, s)
      PROVE  Along(s)
  BY <1>0, <1>1, TransitionAlong
<1>2. ASSUME NEW s \in Statuses, NEW k \in Classifications,
             TransitionTo(q, [q.copy EXCEPT !.classification = k], s)
      PROVE  Along(s)
  <2>1. [q.copy EXCEPT !.classification = k] \in Ticket
    BY <1>0 DEF Ticket
  <2> QED
    BY <1>1, <1>2, <2>1
<1>3. ASSUME SubmitPreparation(q)
      PROVE  \E s \in {"PENDING_MGR_TRIAGE", "ESCALATED_T2"} : Along(s)
  <2>1. submission_target(q.copy) \in {"PENDING_MGR_TRIAGE", "ESCALATED_T2"}
    BY DEF submission_target
  <2> QED
    BY <1>0, <1>1, <1>3, <2>1 DEF SubmitPreparation
<1>4. ASSUME ManagerForward(q)
      PROVE  \E s \in {"AWAITING_OWNER", "AWAITING_CONTAINMENT"} : Along(s)
  <2>1. PICK e \in BOOLEAN, s \in {"AWAITING_OWNER", "AWAITING_CONTAINMENT"} :
          TransitionTo(q, [q.copy EXCEPT
                             !.is_emergency = e,
                             !.emergency_decided_by = IF @ = NoUser THEN q.user ELSE @], s)
    BY <1>4 DEF ManagerForward
  <2> DEFINE by == IF q.copy.emergency_decided_by = NoUser THEN q.user
                   ELSE q.copy.emergency_decided_by
  <2>2. by \in Users \cup {NoUser}
    BY <1>0 DEF Ticket, Request
  <2>3. TransitionTo(q, [q.copy EXCEPT !.is_emergency = e, !.emergency_decided_by = by], s)
    BY <2>1
  <2> HIDE DEF by
  <2>4. [q.copy EXCEPT !.is_emergency = e, !.emergency_decided_by = by] \in Ticket
    BY <1>0, <2>2, AssessedTyped
  <2>5. s \in Statuses
    OBVIOUS
  <2>6. Along(s)
    BY <1>1, <2>3, <2>4, <2>5
  <2> QED
    BY <2>6
<1>5. ASSUME CompleteT2Review(q)
      PROVE  \E s \in {"PENDING_MGR_EVENT_REVIEW", "CLOSED_EVENT",
                       "PENDING_MGR_TRIAGE"} : Along(s)
  <2>1. PICK d \in T2Decisions(row) :
          /\ can_transition_to(d[1], d[2], hasOpenWork, "none")
          /\ row' = Applied(d[1], d[2], q.user)
    BY <1>5 DEF CompleteT2Review
  <2>2. row.status = "ESCALATED_T2" /\ q.user \in Users
    BY <1>5 DEF CompleteT2Review, Request
  <2>3. /\ d[1] \in Ticket
        /\ d[1].status = row.status
        /\ d[2] \in {"PENDING_MGR_EVENT_REVIEW", "CLOSED_EVENT", "PENDING_MGR_TRIAGE"}
    <3>1. CASE /\ d[1] = [row EXCEPT !.classification = "EVENT"]
               /\ d[2] \in {"PENDING_MGR_EVENT_REVIEW", "CLOSED_EVENT"}
      <4>1. "EVENT" \in Classifications
        BY DEF Classifications
      <4> QED
        BY <1>0, <3>1, <4>1, ReclassifiedTyped
    <3>2. ASSUME NEW e \in WithLane(row),
                 d = <<[e EXCEPT !.classification = "INCIDENT"], "PENDING_MGR_TRIAGE">>
          PROVE  <2>3
      <4>1. e \in Ticket /\ e.status = row.status
        BY <1>0, <2>2, RelanedSound
      <4> DEFINE n == [e EXCEPT !.classification = "INCIDENT"]
      <4>2. "INCIDENT" \in Classifications
        BY DEF Classifications
      <4>3. n \in Ticket /\ n.status = e.status
        BY <4>1, <4>2, ReclassifiedTyped
      <4> HIDE DEF n
      <4>4. d[1] = n /\ d[2] = "PENDING_MGR_TRIAGE"
        BY <3>2 DEF n
      <4> QED
        BY <4>1, <4>3, <4>4
    <3> QED
      BY <3>1, <3>2 DEF T2Decisions
  <2>4. row'.status = d[2]
    BY <2>1, <2>2, <2>3, AppliedLane
  <2>5. Along(d[2])
    BY <2>1, <2>3, <2>4 DEF Along, can_transition_to
  <2> QED
    BY <2>3, <2>5
<1>6. ASSUME ConcludeAsIncident(q)
      PROVE  Along("PENDING_MGR_TRIAGE")
  <2>1. PICK c \in WithLane(row) :
          TransitionTo(q, [c EXCEPT !.classification = "INCIDENT"], "PENDING_MGR_TRIAGE")
    BY <1>6 DEF ConcludeAsIncident
  <2>2. row.status = "MONITORING"
    BY <1>6 DEF ConcludeAsIncident
  <2>3. c \in Ticket
    BY <1>0, <2>2, RelanedSound
  <2>4. [c EXCEPT !.classification = "INCIDENT"] \in Ticket
    BY <2>3 DEF Ticket, Classifications
  <2> QED
    BY <1>1, <2>1, <2>4
<1>7. ASSUME ConcludeAsEvent(q) \/ ReclassifyAsEvent(q)
      PROVE  Along("CLOSED_EVENT")
  BY <1>2, <1>7 DEF ConcludeAsEvent, ReclassifyAsEvent, Classifications
<1>8. ASSUME SubmitContainment(q)
      PROVE  Along("CONTAINMENT_REPORTED")
  BY <1>0, <1>1, <1>8 DEF SubmitContainment
<1>9. ASSUME WorkflowAction(q)
      PROVE  \E s \in Statuses : Along(s)
  BY <1>0, <1>1, <1>9 DEF WorkflowAction
<1>10. ASSUME ReturnForCompletion(q)
       PROVE  \E s \in {"ESCALATED_T2", "NEW"} : Along(s)
  <2>1. manager_return_target(q.copy) \in {"ESCALATED_T2", "NEW"}
    BY DEF manager_return_target
  <2> QED
    BY <1>0, <1>1, <1>10, <2>1 DEF ReturnForCompletion
<1>11. ASSUME StepBack(q)
       PROVE  \E s \in {"CONTAINMENT_REPORTED", "PENDING_T2_REVIEW", "AWAITING_OWNER",
                        "PENDING_MGR_TRIAGE"} : Along(s)
  <2>1. step_back_target(q.copy) \in {"CONTAINMENT_REPORTED", "PENDING_T2_REVIEW",
                                      "AWAITING_OWNER", "PENDING_MGR_TRIAGE"}
    BY DEF step_back_target
  <2> QED
    BY <1>0, <1>1, <1>11, <2>1 DEF StepBack
<1>12. ASSUME StartMonitoring(q)
       PROVE  Along("MONITORING")
  BY <1>0, <1>1, <1>12 DEF StartMonitoring
<1> QED
  BY <1>3, <1>4, <1>5, <1>6, <1>7, <1>8, <1>9, <1>10, <1>11, <1>12

\* A step along an edge that sends L sends what it owes.
LEMMA AlongSends ==
    ASSUME NEW s, Along(s), NEW L, Post(L), Readable(L),
           s = "AWAITING_CONTAINMENT" => ContainmentLetters \subseteq L,
           s \in RESOLVED_STATUSES => ClosedLetters \subseteq L,
           \A n \in L : n.kind = "owner_closed" => row'.status \in RESOLVED_STATUSES
    PROVE  Sends
<1>1. row'.status = s
  BY DEF Along
<1>2. Announces(L)
  BY <1>1, AnnouncedStep
<1> QED
  BY <1>2 DEF Sends

\* The services that mail.
LEMMA MailedSends ==
    ASSUME RowOK, RowOK', NEW u \in Users, NEW q \in Request, q.copy = row, Mailed(q)
    PROVE  Sends
<1> USE DEF RESOLVED_STATUSES
<1>1. CASE SubmitPreparation(q) /\ Post(SubmissionLetters(q))
  <2>1. PICK s \in {"PENDING_MGR_TRIAGE", "ESCALATED_T2"} : Along(s)
    BY <1>1, ServiceTargets
  <2>2. \A n \in SubmissionLetters(q) : n.kind # "owner_closed"
    BY Kinds DEF SubmissionLetters
  <2>3. Readable(SubmissionLetters(q))
    BY Readers DEF Readable, SubmissionLetters
  <2> QED
    BY <1>1, <2>1, <2>2, <2>3, AlongSends
<1>2. CASE ManagerForward(q) /\ Post(ContainmentLetters)
  <2>1. PICK s \in {"AWAITING_OWNER", "AWAITING_CONTAINMENT"} : Along(s)
    BY <1>2, ServiceTargets
  <2>2. \A n \in ContainmentLetters : n.kind # "owner_closed"
    BY Kinds
  <2> QED
    BY <1>2, <2>1, <2>2, Readers, AlongSends
<1>3. CASE CompleteT2Review(q) /\ Post(TriageLetters \cup ClosedLetters)
  <2>1. PICK s \in {"PENDING_MGR_EVENT_REVIEW", "CLOSED_EVENT", "PENDING_MGR_TRIAGE"} :
          Along(s)
    BY <1>3, ServiceTargets
  <2>2. \A n \in TriageLetters \cup ClosedLetters :
          n.kind = "owner_closed" => row'.status \in RESOLVED_STATUSES
    BY Kinds
  <2>3. Readable(TriageLetters \cup ClosedLetters)
    BY Readers DEF Readable
  <2> QED
    BY <1>3, <2>1, <2>2, <2>3, AlongSends
<1>4. CASE ConcludeAsIncident(q) /\ Post(TriageLetters)
  <2>1. Along("PENDING_MGR_TRIAGE")
    BY <1>4, ServiceTargets
  <2>2. \A n \in TriageLetters : n.kind # "owner_closed"
    BY Kinds
  <2> QED
    BY <1>4, <2>1, <2>2, Readers, AlongSends
<1>5. CASE (ConcludeAsEvent(q) \/ ReclassifyAsEvent(q)) /\ Post(ClosedLetters)
  <2>1. Along("CLOSED_EVENT")
    BY <1>5, ServiceTargets
  <2>2. \A n \in ClosedLetters : row'.status \in RESOLVED_STATUSES
    BY Kinds
  <2> QED
    BY <1>5, <2>1, <2>2, Readers, AlongSends
<1>6. CASE SubmitContainment(q) /\ Post({notify_containment_submitted})
  <2>1. Along("CONTAINMENT_REPORTED")
    BY <1>6, ServiceTargets
  <2>2. row'.status = "CONTAINMENT_REPORTED"
    BY <2>1 DEF Along
  <2>3. Announces({notify_containment_submitted})
    BY <2>2, Kinds, QuietStep
  <2> QED
    BY <1>6, <2>3, Readers DEF Sends
<1>7. CASE WorkflowAction(q) /\ Post(ContainmentLetters \cup ClosedLetters)
  <2>1. PICK s \in Statuses : Along(s)
    BY <1>7, ServiceTargets
  <2>2. \A n \in ContainmentLetters \cup ClosedLetters :
          n.kind = "owner_closed" => row'.status \in RESOLVED_STATUSES
    BY Kinds
  <2>3. Readable(ContainmentLetters \cup ClosedLetters)
    BY Readers DEF Readable
  <2> QED
    BY <1>7, <2>1, <2>2, <2>3, AlongSends
<1>8. ASSUME NEW v \in Responders, CreateResponseRequest(q),
             Post({notify_response_request_created(v)})
      PROVE  Sends
  <2>1. row' = row
    BY <1>8 DEF CreateResponseRequest, SavesSubtask
  <2>2. Announces({notify_response_request_created(v)})
    BY <2>1, Kinds, QuietStep
  <2> QED
    BY <1>8, <2>2, Readers DEF Sends
<1>9. ASSUME UpdateSubtask(q), NEW L, Post(L),
             L \in {{}, {notify_response_request_completed}}
      PROVE  Sends
  <2>1. row' = row
    BY <1>9 DEF UpdateSubtask, SavesSubtask
  <2>2. \A n \in L : n.kind # "owner_closed"
    BY <1>9, Kinds
  <2>3. Announces(L)
    BY <2>1, <2>2, QuietStep
  <2>4. Readable(L)
    BY <1>9, Readers DEF Readable
  <2> QED
    BY <1>9, <2>3, <2>4 DEF Sends
<1>10. CASE /\ UpdateSubtask(q)
            /\ \E done \in {"done", work'} :
                 Post(IF done = "done" /\ work = "open"
                      THEN {notify_response_request_completed} ELSE {})
  <2>1. \E L \in {{}, {notify_response_request_completed}} : Post(L)
    BY <1>10
  <2> QED
    BY <1>9, <1>10, <2>1
<1> QED
  BY <1>1, <1>2, <1>3, <1>4, <1>5, <1>6, <1>7, <1>8, <1>10
  DEF Mailed, complete_t2_review, conclude_monitoring, transition_ticket

\* Every other request: no letters, or those of a cancellation.
LEMMA SilentSends ==
    ASSUME NEW L, Post(L), \A n \in L : n.kind # "owner_closed",
           AnalystsOpenCases => Readable(L),
           \/ row'.status \notin RESOLVED_STATUSES \cup {"AWAITING_CONTAINMENT"}
           \/ row'.status = row.status
    PROVE  Sends
  BY QuietStep DEF Sends

LEMMA RespondedSends ==
    ASSUME RowOK, RowOK', NEW u \in Users, Responded(u)
    PROVE  Sends
<1>0. row \in Ticket
  BY DEF RowOK
<1> DEFINE q == Prompt(u)
<1>1. q \in Request /\ q.copy = row /\ q.user = u
  BY <1>0 DEF Prompt, Request
<1>2. CASE Mailed(q)
  BY <1>1, <1>2, MailedSends
<1>3. ASSUME Post({}), \/ row'.status \notin RESOLVED_STATUSES \cup {"AWAITING_CONTAINMENT"}
                       \/ row'.status = row.status
      PROVE  Sends
  BY <1>3, SilentSends DEF Readable
<1>4. CASE Unmailed(q) /\ Post({})
  <2>1. CASE ReassessEmergency(q)
    <3>1. row'.status = row.status
      BY <1>0, <2>1 DEF ReassessEmergency, Ticket
    <3> QED
      BY <1>3, <1>4, <3>1
  <2>2. CASE ReturnForCompletion(q) \/ StepBack(q) \/ StartMonitoring(q)
    <3>1. PICK s \in {"ESCALATED_T2", "NEW", "CONTAINMENT_REPORTED", "PENDING_T2_REVIEW",
                      "AWAITING_OWNER", "PENDING_MGR_TRIAGE", "MONITORING"} : Along(s)
      BY <1>1, <2>2, ServiceTargets
    <3>2. row'.status \notin RESOLVED_STATUSES \cup {"AWAITING_CONTAINMENT"}
      BY <3>1 DEF Along, RESOLVED_STATUSES
    <3> QED
      BY <1>3, <1>4, <3>2
  <2> QED
    BY <1>4, <2>1, <2>2 DEF Unmailed
<1>5. CASE EditTicket(u) /\ Post({})
  <2>1. CASE row' \in Prepared(row, TRUE)
    <3>1. row'.status = row.status
      BY <1>0, <2>1, PreparedColumns
    <3> QED
      BY <1>3, <1>5, <3>1
  <2>2. ASSUME NEW k \in Classifications, row' = [row EXCEPT !.classification = k]
        PROVE  Sends
    <3>1. row'.status = row.status
      BY <1>0, <2>2 DEF Ticket
    <3> QED
      BY <1>3, <1>5, <3>1
  <2> QED
    BY <1>5, <2>1, <2>2 DEF EditTicket
<1>6. CASE CancelDirectly(u) /\ Post({notify_ticket_cancellation(row, u)})
  <2>1. row'.status = "CANCELLED"
    BY <1>0, <1>6 DEF CancelDirectly, Ticket
  <2>2. row'.status \notin RESOLVED_STATUSES \cup {"AWAITING_CONTAINMENT"}
    BY <2>1 DEF RESOLVED_STATUSES
  <2>3. AnalystsOpenCases => Readable({notify_ticket_cancellation(row, u)})
    BY <1>6, CancellationReaders
  <2> QED
    BY <1>6, <2>2, <2>3, Kinds, SilentSends
<1>7. CASE (ClaimTier2Ticket(u) \/ ReleaseEscalation(u)) /\ Post({})
  <2>1. row'.status = row.status
    BY <1>0, <1>7 DEF ClaimTier2Ticket, ReleaseEscalation, Ticket
  <2> QED
    BY <1>3, <1>7, <2>1
<1> QED
  BY <1>2, <1>4, <1>5, <1>6, <1>7 DEF Responded

\* A readable letter is readable when it is sent.
LEMMA SentIsReadable ==
    ASSUME NEW L, Post(L), Readable(L)
    PROVE  \A n \in mail' : \A v \in n.to : visible_to(row', v)
<1>1. PICK arrived \in SUBSET {n \in L : n.to # {}} :
        mail' = {[kind |-> n.kind, to |-> n.to, arrived |-> n \in arrived] : n \in L}
  BY DEF Post
<1>2. \A m \in mail' : \E n \in L : m.to = n.to
  BY <1>1
<1> QED
  BY <1>2 DEF Readable

\* Every hand-over to the System Admin, and every end of a case, is announced: the
\* letter arrived, or the page said that it did not.
THEOREM NobodyIsForgotten == NoticesSpec => HandoversAreAnnounced
<1>1. ASSUME NInv, NInv', NEW u \in Users, Responded(u)
      PROVE  Announced
  <2>1. RowOK /\ RowOK'
    BY <1>1 DEF NInv, IInv
  <2> QED
    BY <1>1, <2>1, RespondedSends, PostedAnnounced DEF Sends
<1>2. NInv /\ NInv' /\ [NoticesNext]_nvars => [Announced]_nvars
  BY <1>1 DEF NoticesNext
<1>3. HandoversAreAnnounced <=> [][Announced]_nvars
  BY PTL DEF HandoversAreAnnounced, Announced
<1> QED
  BY <1>2, <1>3, NInvariance, PTL DEF NoticesSpec

\* Who is mailed by the step may open the case.
InsideOnly == \A n \in mail' : \A u \in n.to : visible_to(row', u)

\* Nobody is mailed a case he may not open.
THEOREM LettersStayInside ==
    ASSUME AnalystsOpenCases
    PROVE  NoticesSpec => AddresseesMayRead
<1>1. ASSUME NInv, NInv', NEW w \in Users, Responded(w)
      PROVE  InsideOnly
  <2>1. RowOK /\ RowOK'
    BY <1>1 DEF NInv, IInv
  <2> QED
    BY <1>1, <2>1, RespondedSends, SentIsReadable DEF Sends, InsideOnly
<1>2. NInv /\ NInv' /\ [NoticesNext]_nvars => [InsideOnly]_nvars
  BY <1>1 DEF NoticesNext
<1>3. AddresseesMayRead <=> [][InsideOnly]_nvars
  BY PTL DEF AddresseesMayRead, InsideOnly
<1> QED
  BY <1>2, <1>3, NInvariance, PTL DEF NoticesSpec
=============================================================================
