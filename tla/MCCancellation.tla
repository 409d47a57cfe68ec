--------------------------- MODULE MCCancellation ---------------------------
(***************************************************************************)
(* Two tickets that may name one another as the original, the second a     *)
(* member of the project with one response request; two transactions      *)
(* open at a time.                                                         *)
(***************************************************************************)
EXTENDS Cancellation, TLC

CONSTANTS t1, t2, s1, p1, p2

MCParent == s1 :> t2

\* What no step and no property reads any more: the selection and the rank of a
\* decided transaction, what an outdated form loaded, the original of a request
\* that was not approved in the end.
Prospect(x) ==
    IF x = Idle THEN x
    ELSE IF x.decided THEN [x EXCEPT !.selected = {}, !.manager = TRUE]
    ELSE IF ~x.fresh THEN [x EXCEPT !.loaded = "NONE"]
    ELSE x

View ==
    <<status, task, [p \in Procs |-> Prospect(tx[p])],
      [t \in Tickets |-> [i \in 1 .. MaxRequests |->
         IF requests[t][i].status = "ENDED" THEN "ENDED" ELSE requests[t][i]]]>>

Symmetry == Permutations({p1, p2})
=============================================================================
