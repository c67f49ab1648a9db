----------------------------- MODULE MCManager -----------------------------
(***************************************************************************)
(* Small instances of Manager for TLC.                                     *)
(***************************************************************************)
EXTENDS ManagerInvariant, TLC

\* Rows differ only in their names.
RowSymmetry == Permutations(Ids)
=============================================================================
