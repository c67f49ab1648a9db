--------------------------- MODULE MCDestinations ---------------------------
(***************************************************************************)
(* Small instances of Destinations for TLC.                                *)
(***************************************************************************)
EXTENDS Destinations, TLC

CONSTANT Url \* up to its query

\* URLs that are the same up to the query, and URLs that are not.
OneStem == [id \in Ids |-> Url]
OwnStem == [id \in Ids |-> id]

\* Rows differ only in their names.
RowSymmetry == Permutations(Ids)
=============================================================================
