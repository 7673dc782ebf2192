----------------------------- MODULE MCSparseSet -----------------------------
(***************************************************************************)
(* Values for the constants of SparseSet: another set has issued the first *)
(* and the second handle of index 2.                                       *)
(***************************************************************************)
EXTENDS SparseSet

MCForeign == {Handle(2, 0), Handle(2, 1)}
=============================================================================
