------------------------------ MODULE MCEngine ------------------------------
(***************************************************************************)
(* Small instances of module Engine for TLC.  A worker slot is a model     *)
(* value, everything else a number: the configurations say which.          *)
(***************************************************************************)
EXTENDS EngineInvariant, TLC

\* Task slots are interchangeable: nothing in Engine names one.
SlotSymmetry == Permutations(Workers)
=============================================================================
