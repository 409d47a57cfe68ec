--------------------------- MODULE TicketContract ---------------------------
(***************************************************************************)
(* What a ticket promises to the people who work on it: the stages of a    *)
(* case, in the order CONTEXT.md and the lifecycle document tell them,     *)
(* with nothing of copies, claims, forms or permissions.  TicketLifecycle  *)
(* and each member of a ProjectIncident implement it.                      *)
(***************************************************************************)
CONSTANTS
    Lanes,     \* a handling route with the person who takes it
    NoLane     \* of a case nobody has routed, or that has ended

VARIABLES
    stage,
    lane,      \* of a routed case
    tier2,     \* Tier 2 has had the case
    signed     \* the signatures on it

contract == <<stage, lane, tier2, signed>>

RoutedStages == {"manager", "handling", "verification", "approval"}
ClosedStages == {"approved", "closed_event", "cancelled"}
OpenStages == RoutedStages \cup {"preparation", "tier2", "event_review"}

\* A preparation; a member reported with its group, for Tier 2, for the manager, or
\* straight into a lane the group's review has accepted; a remediation that was in
\* progress when its step was retired.
Opening(s, l, t) ==
    \/ s = "preparation" /\ l = NoLane /\ ~t
    \/ s = "tier2" /\ l = NoLane /\ t
    \/ s \in {"manager", "handling"} /\ l \in Lanes /\ ~t

Unreported == stage = "none" /\ lane = NoLane /\ ~tier2

Init ==
    /\ Unreported \/ Opening(stage, lane, tier2)
    /\ signed = {}

Opens ==
    /\ Unreported
    /\ Opening(stage', lane', tier2')
    /\ UNCHANGED signed

\* A move between stages that keeps the lane of the case as long as it is routed.
Moves(from, to) ==
    /\ stage = from
    /\ stage' = to
    /\ lane' = IF to \in RoutedStages THEN lane ELSE NoLane
    /\ tier2' = (tier2 \/ to = "tier2")

Keeps == UNCHANGED signed
Signs(s) == signed' = signed \cup {s}

\* Tier 1 or Tier 2 chooses the lane, for the manager to review.
Routes(from) ==
    /\ stage = from /\ stage' = "manager"
    /\ lane' \in Lanes
    /\ UNCHANGED <<tier2, signed>>

Submits == Routes("preparation") \/ (Moves("preparation", "tier2") /\ Keeps)

\* Tier 2 calls the case an Event, or sends the downgrade of an Incident to the
\* manager, who agrees or gives it back.
ClosesAsEvent(from) == Moves(from, "closed_event") /\ Keeps
Downgrades == Moves("tier2", "event_review") /\ Keeps
RejectsDowngrade == Moves("event_review", "tier2") /\ Keeps

\* The manager returns a case to whoever routed it, or accepts the lane.
Returns ==
    /\ Moves("manager", IF tier2 THEN "tier2" ELSE "preparation")
    /\ Keeps
Forwards == Moves("manager", "handling") /\ Keeps

Reports == Moves("handling", "verification") /\ Keeps
SendsBack == Moves("verification", "handling") /\ Keeps

\* Two signatures: Tier 2's, and then one that approves.
Verifies == Moves("verification", "approval") /\ Signs("verified")
VerifiesAndApproves ==
    /\ Moves("verification", "approved")
    /\ signed' = signed \cup {"verified", "approved"}
Approves == Moves("approval", "approved") /\ Signs("approved")

StepsBack ==
    /\ Moves("handling", "manager") \/ Moves("approval", "verification")
    /\ Keeps

Cancels ==
    /\ \E from \in OpenStages : Moves(from, "cancelled")
    /\ Keeps

Next ==
    \/ Opens
    \/ Submits
    \/ Routes("tier2")
    \/ Downgrades
    \/ RejectsDowngrade
    \/ \E from \in {"tier2", "event_review", "verification"} : ClosesAsEvent(from)
    \/ Returns
    \/ Forwards
    \/ Reports
    \/ SendsBack
    \/ Verifies
    \/ VerifiesAndApproves
    \/ Approves
    \/ StepsBack
    \/ Cancels

Spec == Init /\ [][Next]_contract
=============================================================================
