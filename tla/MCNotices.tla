------------------------------ MODULE MCNotices ------------------------------
(***************************************************************************)
(* TLC instance of Notices and Worklists.                                  *)
(***************************************************************************)
EXTENDS Notices

\* The letters are of the last request: what may happen next does not depend on
\* them, and the properties about them are of single steps.
View == <<row, work, req>>
=============================================================================
