------------------------------ MODULE MCTakeover ------------------------------
(***************************************************************************)
(* Small instances of Takeover for TLC.                                    *)
(***************************************************************************)
EXTENDS Takeover, TLC

\* Downloads, hosts and URLs differ only in their names.
TakeoverSymmetry ==
  Permutations(Ids) \cup Permutations(Hosts) \cup Permutations(Urls)
=============================================================================
