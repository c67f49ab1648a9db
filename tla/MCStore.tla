------------------------------- MODULE MCStore -------------------------------
(***************************************************************************)
(* Small instances of Store for TLC.                                       *)
(***************************************************************************)
EXTENDS Store, TLC

\* Savers differ only in their names.
SaverSymmetry == Permutations(Savers)
=============================================================================
