-------------------------- MODULE ManagerInvariant --------------------------
(***************************************************************************)
(* The inductive invariant of module Manager: what has to hold between any *)
(* two steps for the properties of the rows to hold after each.  TLC       *)
(* checks it on a small instance and module ManagerProofs proves it.       *)
(***************************************************************************)
EXTENDS Manager

\* Generations are handed out in order, a task that lives works for a row, and
\* the attempt that owns a row works for that row.
Generations ==
  /\ \A t \in Gens : task[t].pc = "unborn" <=> t > nextGen
  /\ \A t \in Gens : Live(t) => task[t].row \in Ids
  /\ \A id \in Ids : gen[id] # 0 => gen[id] \in 1 .. nextGen
  /\ \A t \in Gens, id \in Ids : Live(t) /\ gen[id] = t => task[t].row = id

\* One task of a row is past the run lock.
RunLockIsExclusive ==
  \A t, u \in Gens :
    HoldsRun(t) /\ HoldsRun(u) /\ task[t].row = task[u].row => t = u

\* A row is only stopped together with the token of its attempt.
StoppedIsTripped ==
  \A t \in Gens :
    Live(t) /\ IsCurrent(t) /\ t \notin tripped => Active(task[t].row)

\* A finished attempt that still has to be written down has its file.
FinishedIsDelivered ==
  \A t \in Gens :
    task[t].pc = "settle" /\ task[t].outcome = "done" /\ IsCurrent(t) =>
      task[t].row \in delivered

ManagerInv ==
  /\ TypeOK
  /\ Generations
  /\ RunLockIsExclusive
  /\ ActiveHasTask
  /\ StoppedIsTripped
  /\ RunningIsShown
  /\ FinishedIsDelivered
  /\ CompletedIsDelivered

\* A row whose attempt lives can still turn into anything that attempt may write:
\* it has no result yet, and is not queued any more once its engine runs.
RowsAwaitTheirEnd ==
  \A t \in Gens :
    Live(t) /\ IsCurrent(t) =>
      /\ status[task[t].row] \in {"queued", "downloading", "paused", "cancelled"}
      /\ task[t].pc = "run" \/ (task[t].pc = "settle" /\ task[t].outcome = "done") =>
           status[task[t].row] # "queued"
=============================================================================
