----------------------------- MODULE MCTriage -----------------------------
(***************************************************************************)
(* Two open detections and one closed long ago, a legacy vulnerability;    *)
(* one report; a Tier 1 analyst, a superuser.                              *)
(***************************************************************************)
EXTENDS Triage, TLC

CONSTANTS a1, a2, a3, v

\* Bound: nobody dismisses a report while a purge is under way; the one writes
\* reports and reads nothing else, the other alerts.
Bounded == purge.stage = "idle" \/ \A u \in Users : dismissal[u] = {}

Symmetry == Permutations({a1, a2})
=============================================================================
