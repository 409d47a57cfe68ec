----------------------------- MODULE MCReporting -----------------------------
(* Reporting for TLC: two runs that are interchangeable.                    *)
EXTENDS Reporting, TLC

Symmetry == Permutations(Jobs)

(* A run writes the night it began in, this one or the last.                *)
View == <<today, half, raw, purged, view, hist, indexed, detection,
          [d \in Days \cap {today - 1, today} |-> night[d]], job>>
=============================================================================
