------------------------------ MODULE Transfer ------------------------------
(***************************************************************************)
(* What the engine promises, seen from outside: bytes of the resource      *)
(* collect in a partial file, the partial file may be thrown away as a     *)
(* whole, and the file is delivered only when every byte is there.  A byte *)
(* that has arrived is never spoiled.                                      *)
(***************************************************************************)
EXTENDS Integers

CONSTANT Total \* length of the resource in bytes

VARIABLES
  have,     \* offsets whose byte is in the partial file
  delivered \* whether the finished file is in place

vars == <<have, delivered>>

All == 0 .. Total - 1

Init == have = {} /\ delivered = FALSE

Arrive ==
  /\ have' \in SUBSET All
  /\ have \subseteq have'
  /\ UNCHANGED delivered

Discard ==
  /\ have' = {}
  /\ UNCHANGED delivered

Deliver ==
  /\ have = All
  /\ delivered' = TRUE
  /\ have' = {}

Next == Arrive \/ Discard \/ Deliver

Spec == Init /\ [][Next]_vars
=============================================================================
