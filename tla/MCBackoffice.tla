----------------------------- MODULE MCBackoffice -----------------------------
(***************************************************************************)
(* A small instance of Backoffice.  Threads are interchangeable on either  *)
(* side, and so are users.                                                 *)
(***************************************************************************)
EXTENDS Backoffice, TLC

CONSTANTS u1, u2, t1, t2, d1, d2, desk1

\* The names of the values of a field are arbitrary, but for the shift of a
\* handover, which is in order when it is created, and for the date a workplan
\* is due at, which it has then and an update may take away or set again.
MCDrafts == {[first |-> 1, second |-> 2]}

Symmetry == Permutations(Emitters) \cup Permutations(Users) \cup Permutations(Desks)
=============================================================================
