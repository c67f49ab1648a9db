---------------------------- MODULE DurableList -----------------------------
(***************************************************************************)
(* What the download list promises about restarts: a change whose save has *)
(* succeeded is there after any restart, unless the promise is void.       *)
(*                                                                         *)
(* A list is known by its version, the number of changes that led to it.   *)
(***************************************************************************)
EXTENDS Naturals

VARIABLES
  current,  \* version in memory
  promised, \* latest version whose save has succeeded
  void      \* the promise has been lost, for good

vars == <<current, promised, void>>

Init == current = 0 /\ promised = 0 /\ void = FALSE

Change == current' = current + 1 /\ UNCHANGED promised

\* A save succeeds.
Save == promised' \in promised .. current /\ UNCHANGED current

\* What was not promised may be gone.
Restart == current' \in promised .. current /\ UNCHANGED promised

Next ==
  \/ ~void /\ UNCHANGED void /\ (Change \/ Save \/ Restart)
  \/ void'

Spec == Init /\ [][Next]_vars
=============================================================================
