------------------------------ MODULE Manager ------------------------------
(***************************************************************************)
(* The download list (crates/fdm-manager/src/manager.rs): rows that are    *)
(* queued, paused, resumed, cancelled and removed by commands, and the     *)
(* tasks that carry them out.  A command returns long before the engine it *)
(* stops has stopped, so a row may have several tasks: each has a          *)
(* generation, and only the latest may write to the row.                   *)
(*                                                                         *)
(* An engine attempt is reduced to what it does to the scratch files and   *)
(* to how it ends; module Engine has the rest.  The list on disk is taken  *)
(* to be current when the process dies.                                    *)
(***************************************************************************)
EXTENDS Naturals, FiniteSets

CONSTANTS
  Ids,       \* rows that may be added
  MaxActive, \* permits of the slot semaphore
  MaxGen,    \* bound on attempts, over all rows
  MayCrash   \* whether the process may die and be started again

ASSUME ManagerAssumption ==
  /\ MaxActive \in Nat \ {0}
  /\ MaxGen \in Nat
  /\ MayCrash \in BOOLEAN

VARIABLES
  status,    \* status of each row; "absent" before it is added, "gone" after
             \* it is removed
  resumable, \* what the row says about continuing where it stopped
  intent,    \* why its attempt was asked to stop
  gen,       \* generation of the attempt that owns the row; 0 when none does
  known,     \* whether the scratch paths of the row have been recorded
  nextGen,   \* generations handed out
  tripped,   \* generations whose cancel token is tripped
  task,      \* the task of each generation
  scratch,   \* scratch files of each row that are on disk
  delivered  \* rows whose finished file is on disk

row == <<status, resumable, intent, gen, known>>
disk == <<scratch, delivered>>
vars == <<status, resumable, intent, gen, known, nextGen, tripped, task,
          scratch, delivered>>

Gens == 1 .. MaxGen

ActiveStatuses == {"queued", "downloading"}
RowStatuses == ActiveStatuses \cup {"paused", "completed", "failed", "cancelled"}
Statuses == RowStatuses \cup {"absent", "gone"}

\* "purge" is the removal that deletes the finished file as well.
Intents == {"none", "pause", "cancel", "remove", "purge"}

\* What a task does next: arrive at the run lock, wait for it, check its
\* generation, wait for a slot, start the engine; the engine probes, has opened
\* its files, runs; the result is settled.
TaskSteps ==
  {"unborn", "new", "lock", "check", "slot", "ready", "probe", "opened", "run",
   "settle", "done"}

Outcomes == {"none", "done", "stopped", "failed"}

NoRow == "no row"

TaskRec == [pc: TaskSteps, row: Ids \cup {NoRow}, outcome: Outcomes]

Unborn == [pc |-> "unborn", row |-> NoRow, outcome |-> "none"]
Ended  == [pc |-> "done", row |-> NoRow, outcome |-> "none"]

Present(id) == status[id] \in RowStatuses
Active(id)  == status[id] \in ActiveStatuses

IsCurrent(t) == gen[task[t].row] = t

InEngine(t)  == task[t].pc \in {"probe", "opened", "run"}
HoldsSlot(t) == task[t].pc = "ready" \/ InEngine(t)
HoldsRun(t)  == task[t].pc \in {"check", "slot", "settle"} \/ HoldsSlot(t)
Live(t)      == task[t].pc \notin {"unborn", "done"}

Init ==
  /\ status = [id \in Ids |-> "absent"]
  /\ resumable = [id \in Ids |-> FALSE]
  /\ intent = [id \in Ids |-> "none"]
  /\ gen = [id \in Ids |-> 0]
  /\ known = [id \in Ids |-> FALSE]
  /\ nextGen = 0
  /\ tripped = {}
  /\ task = [t \in Gens |-> Unborn]
  /\ scratch = [id \in Ids |-> {}]
  /\ delivered = {}

---------------------------------------------------------------------------
(* Commands. *)

\* Hand the row to a new attempt, with a fresh token and no intent.
NewGeneration(id) ==
  /\ nextGen < MaxGen
  /\ nextGen' = nextGen + 1
  /\ gen' = [gen EXCEPT ![id] = nextGen + 1]
  /\ intent' = [intent EXCEPT ![id] = "none"]
  /\ task' = [task EXCEPT ![nextGen + 1] = [Unborn EXCEPT !.pc = "new", !.row = id]]

Add(id) ==
  /\ status[id] = "absent"
  /\ status' = [status EXCEPT ![id] = "queued"]
  /\ NewGeneration(id)
  /\ UNCHANGED <<resumable, known, tripped, disk>>

AddPaused(id) ==
  /\ status[id] = "absent"
  /\ status' = [status EXCEPT ![id] = "paused"]
  /\ UNCHANGED <<resumable, intent, gen, known, nextGen, tripped, task, disk>>

\* Say why, and trip the token of the attempt that owns the row.
Ask(id, why) ==
  /\ intent' = [intent EXCEPT ![id] = why]
  /\ tripped' = tripped \cup {gen[id]}

ControlFound(id) == known[id] /\ "control" \in scratch[id]

Pause(id) ==
  /\ Active(id)
  /\ Ask(id, "pause")
  /\ status' = [status EXCEPT ![id] = "paused"]
  /\ resumable' = [resumable EXCEPT ![id] = ControlFound(id)]
  /\ UNCHANGED <<gen, known, nextGen, task, disk>>

\* A row with a result other than a finished file starts again.
Resume(id) ==
  /\ status[id] \in {"paused", "failed", "cancelled"}
  /\ status' = [status EXCEPT ![id] = "queued"]
  /\ NewGeneration(id)
  /\ UNCHANGED <<resumable, known, tripped, disk>>

\* Delete the scratch files whose paths are known.  A part file that an engine
\* has open may refuse.
Discard(id) ==
  LET open == \E t \in Gens : InEngine(t) /\ task[t].row = id
  IN  \E left \in SUBSET (IF open THEN {"part"} ELSE {}) :
        scratch' = [scratch EXCEPT ![id] = IF known[id] THEN @ \cap left ELSE @]

Cancel(id) ==
  /\ Present(id)
  /\ IF Active(id)
     THEN Ask(id, "cancel") /\ UNCHANGED scratch
     ELSE Discard(id) /\ UNCHANGED <<intent, tripped>>
  /\ status' = [status EXCEPT ![id] = "cancelled"]
  /\ resumable' = [resumable EXCEPT ![id] = FALSE]
  /\ UNCHANGED <<gen, known, nextGen, task, delivered>>

\* Take the row out of the list.
Forget(id) ==
  /\ status' = [status EXCEPT ![id] = "gone"]
  /\ resumable' = [resumable EXCEPT ![id] = FALSE]
  /\ intent' = [intent EXCEPT ![id] = "none"]
  /\ gen' = [gen EXCEPT ![id] = 0]
  /\ known' = [known EXCEPT ![id] = FALSE]

\* why is "remove" or "purge".  An active row is only asked to stop: its status
\* stays, and its task removes it.
Remove(id, why) ==
  /\ Present(id)
  /\ IF Active(id)
     THEN Ask(id, why) /\ UNCHANGED <<status, resumable, gen, known, disk>>
     ELSE /\ Discard(id)
          /\ delivered' = IF why = "purge" /\ status[id] = "completed"
                          THEN delivered \ {id} ELSE delivered
          /\ Forget(id)
          /\ UNCHANGED tripped
  /\ UNCHANGED <<nextGen, task>>

---------------------------------------------------------------------------
(* The task of an attempt. *)

Goes(t, step) ==
  /\ task' = [task EXCEPT ![t].pc = step]
  /\ UNCHANGED <<nextGen, tripped>>

\* The task returns: lock and slot are free again, and nobody looks at its token.
Ends(t) ==
  /\ task' = [task EXCEPT ![t] = Ended]
  /\ tripped' = tripped \ {t}
  /\ UNCHANGED nextGen

\* The row may be gone before the task first runs.
Arrive(t) ==
  /\ task[t].pc = "new"
  /\ IF Present(task[t].row) THEN Goes(t, "lock") ELSE Ends(t)
  /\ UNCHANGED <<row, disk>>

\* Mutant: every attempt has a lock of its own.
TakeOwnLock(t) ==
  /\ task[t].pc = "lock"
  /\ Goes(t, "check")
  /\ UNCHANGED <<row, disk>>

\* One attempt of a row at a time.
TakeLock(t) ==
  /\ task[t].pc = "lock"
  /\ \A u \in Gens : HoldsRun(u) => task[u].row # task[t].row
  /\ Goes(t, "check")
  /\ UNCHANGED <<row, disk>>

Check(t) ==
  /\ task[t].pc = "check"
  /\ IF IsCurrent(t) THEN Goes(t, "slot") ELSE Ends(t)
  /\ UNCHANGED <<row, disk>>

TakeSlot(t) ==
  /\ task[t].pc = "slot"
  /\ Cardinality({u \in Gens : HoldsSlot(u)}) < MaxActive
  /\ Goes(t, "ready")
  /\ UNCHANGED <<row, disk>>

\* A task whose row was stopped while it waited has nothing to settle, unless
\* the row is to be removed.
StoppedBeforeStart(t) ==
  LET id == task[t].row
  IN  IF intent[id] \in {"remove", "purge"}
      THEN /\ Discard(id)
           /\ delivered' = IF intent[id] = "purge" THEN delivered \ {id} ELSE delivered
           /\ Forget(id)
      ELSE UNCHANGED <<row, disk>>

\* Mutant: a task that was asked to stop returns, whatever its row says.
StartUnlessTripped(t) ==
  /\ task[t].pc = "ready"
  /\ CASE ~IsCurrent(t) \/ t \in tripped -> Ends(t) /\ UNCHANGED <<row, disk>>
       [] OTHER -> Goes(t, "probe") /\ UNCHANGED <<row, disk>>

\* Mutant: a superseded task waits with the slot it has.
StartIfCurrent(t) ==
  /\ task[t].pc = "ready"
  /\ IsCurrent(t)
  /\ IF Active(task[t].row)
     THEN Goes(t, "probe") /\ UNCHANGED <<row, disk>>
     ELSE Ends(t) /\ StoppedBeforeStart(t)

Start(t) ==
  /\ task[t].pc = "ready"
  /\ CASE ~IsCurrent(t) -> Ends(t) /\ UNCHANGED <<row, disk>>
       [] IsCurrent(t) /\ ~Active(task[t].row) -> Ends(t) /\ StoppedBeforeStart(t)
       [] OTHER -> Goes(t, "probe") /\ UNCHANGED <<row, disk>>

\* Mutant: the engine's own word for a stop is passed on.
ReturnsAsIs(t, outcome) ==
  /\ task' = [task EXCEPT ![t].pc = "settle",
                          ![t].outcome = IF outcome = "stopped" THEN "cancelled" ELSE outcome]
  /\ UNCHANGED <<nextGen, tripped>>

\* The engine returns; the slot is free from here on.
Returns(t, outcome) ==
  /\ task' = [task EXCEPT ![t].pc = "settle", ![t].outcome = outcome]
  /\ UNCHANGED <<nextGen, tripped>>

\* What an attempt that has to begin afresh leaves behind when the files cannot
\* be opened.
AfreshLeaves == {{}, {"part"}}

\* The probe fails, or the files cannot be opened.
EngineRefuses(t) ==
  /\ task[t].pc = "probe"
  /\ Returns(t, "failed")
  /\ \E left \in AfreshLeaves \cup {scratch[task[t].row]} :
       scratch' = [scratch EXCEPT ![task[t].row] = left]
  /\ UNCHANGED <<row, delivered>>

\* Both scratch files exist before the engine says where they are.
EngineOpens(t) ==
  /\ task[t].pc = "probe"
  /\ Goes(t, "opened")
  /\ scratch' = [scratch EXCEPT ![task[t].row] = {"part", "control"}]
  /\ UNCHANGED <<row, delivered>>

\* Mutant: a row is only marked the first time its paths are learned.
OnStartOnce(t) ==
  LET id == task[t].row
  IN  /\ task[t].pc = "opened"
      /\ Goes(t, "run")
      /\ IF IsCurrent(t) /\ Active(id) /\ ~known[id]
         THEN /\ known' = [known EXCEPT ![id] = TRUE]
              /\ status' = [status EXCEPT ![id] = "downloading"]
              /\ \E ranges \in BOOLEAN :
                   resumable' = [resumable EXCEPT ![id] = ranges]
         ELSE UNCHANGED <<known, status, resumable>>
      /\ UNCHANGED <<intent, gen, disk>>

\* on_start: the paths are recorded even when the row has been stopped.
OnStart(t) ==
  LET id == task[t].row
  IN  /\ task[t].pc = "opened"
      /\ Goes(t, "run")
      /\ IF IsCurrent(t)
         THEN /\ known' = [known EXCEPT ![id] = TRUE]
              /\ IF Active(id)
                 THEN /\ status' = [status EXCEPT ![id] = "downloading"]
                      /\ \E ranges \in BOOLEAN :
                           resumable' = [resumable EXCEPT ![id] = ranges]
                 ELSE UNCHANGED <<status, resumable>>
         ELSE UNCHANGED <<known, status, resumable>>
      /\ UNCHANGED <<intent, gen, disk>>

\* Stopped by its token: the last save leaves a control file.
EngineStops(t) ==
  /\ task[t].pc = "run"
  /\ t \in tripped
  /\ Returns(t, "stopped")
  /\ scratch' = [scratch EXCEPT ![task[t].row] = @ \cup {"control"}]
  /\ UNCHANGED <<row, delivered>>

\* Failed: the same, unless the server lost its ranges and the second,
\* sequential run could not open its files.
EngineFails(t) ==
  /\ task[t].pc = "run"
  /\ Returns(t, "failed")
  /\ \E left \in AfreshLeaves \cup {scratch[task[t].row] \cup {"control"}} :
       scratch' = [scratch EXCEPT ![task[t].row] = left]
  /\ UNCHANGED <<row, delivered>>

\* Mutant: a part file that cannot be moved is not an error.
FinishesAnyway(t) ==
  /\ task[t].pc = "run"
  /\ Returns(t, "done")
  /\ scratch' = [scratch EXCEPT ![task[t].row] = {}]
  /\ delivered' = IF "part" \in scratch[task[t].row]
                  THEN delivered \cup {task[t].row} ELSE delivered
  /\ UNCHANGED row

\* The part file is moved into place and the control file deleted.  A tripped
\* token that the engine has not looked at yet does not keep it from finishing.
EngineFinishes(t) ==
  /\ task[t].pc = "run"
  /\ "part" \in scratch[task[t].row]
  /\ Returns(t, "done")
  /\ scratch' = [scratch EXCEPT ![task[t].row] = {}]
  /\ delivered' = delivered \cup {task[t].row}
  /\ UNCHANGED row

\* Write a status and nothing else about the row but whether it can continue.
Settle(id, to, canResume) ==
  /\ status' = [status EXCEPT ![id] = to]
  /\ resumable' = [resumable EXCEPT ![id] = canResume]
  /\ UNCHANGED <<intent, gen, known>>

\* The one place where the end of an attempt is written to its row.  Removal
\* wins over every outcome, and a stop without an intent keeps the data.
WriteEnd(t) ==
  LET id  == task[t].row
      out == task[t].outcome
      why == intent[id]
  IN  CASE why \in {"remove", "purge"} ->
             /\ Discard(id)
             /\ delivered' = IF why = "purge" THEN delivered \ {id} ELSE delivered
             /\ Forget(id)
        [] why \notin {"remove", "purge"} /\ out = "done" ->
             Settle(id, "completed", FALSE) /\ UNCHANGED disk
        [] out = "stopped" /\ why = "cancel" ->
             Discard(id) /\ Settle(id, "cancelled", FALSE) /\ UNCHANGED delivered
        [] out = "stopped" /\ why \in {"none", "pause"} ->
             Settle(id, "paused", ControlFound(id)) /\ UNCHANGED disk
        [] OTHER ->
             Settle(id, "failed", ControlFound(id)) /\ UNCHANGED disk

\* Mutant: whoever ends writes.
FinaliseAnybody(t) ==
  /\ task[t].pc = "settle"
  /\ Ends(t)
  /\ IF Present(task[t].row) THEN WriteEnd(t) ELSE UNCHANGED <<row, disk>>

\* Mutant: a stop is a cancel.
FinaliseDiscarding(t) ==
  LET id == task[t].row
  IN  /\ task[t].pc = "settle"
      /\ Ends(t)
      /\ CASE ~IsCurrent(t) -> UNCHANGED <<row, disk>>
           [] IsCurrent(t) /\ task[t].outcome = "stopped" ->
                Discard(id) /\ Settle(id, "paused", FALSE) /\ UNCHANGED delivered
           [] OTHER -> WriteEnd(t)

\* A superseded attempt writes nothing.
Finalise(t) ==
  /\ task[t].pc = "settle"
  /\ Ends(t)
  /\ IF Present(task[t].row) /\ IsCurrent(t)
     THEN WriteEnd(t)
     ELSE UNCHANGED <<row, disk>>

---------------------------------------------------------------------------
(* The process. *)

\* The process dies and is started again: what was active comes back paused,
\* and nothing is known of the scratch files.
Restart ==
  /\ MayCrash
  /\ status' = [id \in Ids |-> IF Active(id) THEN "paused" ELSE status[id]]
  /\ intent' = [id \in Ids |-> "none"]
  /\ gen' = [id \in Ids |-> 0]
  /\ known' = [id \in Ids |-> FALSE]
  /\ tripped' = {}
  /\ task' = [t \in Gens |-> IF Live(t) THEN Ended ELSE task[t]]
  /\ UNCHANGED <<resumable, nextGen, disk>>

\* Nothing runs and nobody asks for anything.
Rest ==
  /\ \A t \in Gens : ~Live(t)
  /\ UNCHANGED vars

Command(id) ==
  \/ Add(id) \/ AddPaused(id) \/ Pause(id) \/ Resume(id) \/ Cancel(id)
  \/ \E why \in {"remove", "purge"} : Remove(id, why)

TaskStep(t) ==
  \/ Arrive(t) \/ TakeLock(t) \/ Check(t) \/ TakeSlot(t) \/ Start(t)
  \/ EngineRefuses(t) \/ EngineOpens(t) \/ OnStart(t) \/ EngineStops(t)
  \/ EngineFails(t) \/ EngineFinishes(t) \/ Finalise(t)

Next ==
  \/ \E id \in Ids : Command(id)
  \/ \E t \in Gens : TaskStep(t)
  \/ Restart
  \/ Rest

Spec == Init /\ [][Next]_vars

\* Tasks are scheduled, lock and semaphore serve those who wait, and an engine
\* attempt ends (EveryAttemptEnds of module Engine).  Commands and crashes need
\* not happen.
FairSpec == Spec /\ \A t \in Gens : WF_vars(TaskStep(t))

---------------------------------------------------------------------------
(* Properties. *)

TypeOK ==
  /\ status \in [Ids -> Statuses]
  /\ resumable \in [Ids -> BOOLEAN]
  /\ intent \in [Ids -> Intents]
  /\ gen \in [Ids -> Nat]
  /\ known \in [Ids -> BOOLEAN]
  /\ nextGen \in 0 .. MaxGen
  /\ tripped \subseteq Gens
  /\ task \in [Gens -> TaskRec]
  /\ scratch \in [Ids -> SUBSET {"part", "control"}]
  /\ delivered \subseteq Ids

\* Two attempts never share a part file, however fast pauses and resumes follow
\* each other: the engine of one has returned before that of another starts.
OneEnginePerRow ==
  \A t, u \in Gens :
    InEngine(t) /\ InEngine(u) /\ task[t].row = task[u].row => t = u

\* A row shown as queued or downloading has a task that will change that: no
\* row hangs with nobody behind it.
ActiveHasTask ==
  \A id \in Ids : Active(id) => gen[id] \in Gens /\ Live(gen[id])

\* What the row shows is what its attempt does: a download that runs and was not
\* asked to stop is shown as running, whatever earlier attempts still report, and
\* a row shown as running has an engine that runs or has just returned.
RunningIsShown ==
  /\ \A t \in Gens :
       task[t].pc = "run" /\ IsCurrent(t) /\ t \notin tripped =>
         status[task[t].row] = "downloading"
  /\ \A id \in Ids :
       status[id] = "downloading" => task[gen[id]].pc \in {"run", "settle"}

\* A row shown as completed has its file.
CompletedIsDelivered ==
  \A id \in Ids : status[id] = "completed" => id \in delivered

\* What a row may turn into.  A completed row is never downloaded again, a row
\* is completed only by an attempt that ran under it, and a failed one changes
\* only when the user says so.
Follows(old) ==
  CASE old = "absent"      -> {"queued", "paused"}
    [] old = "queued"      -> {"downloading", "paused", "cancelled", "failed", "gone"}
    [] old = "downloading" -> {"completed", "paused", "cancelled", "failed", "gone"}
    [] old = "paused"      -> {"queued", "completed", "cancelled", "failed", "gone"}
    [] old = "completed"   -> {"cancelled", "gone"}
    [] old = "failed"      -> {"queued", "cancelled", "gone"}
    [] old = "cancelled"   -> {"queued", "paused", "completed", "failed", "gone"}
    [] OTHER               -> {}

LifeCycle ==
  [][\A id \in Ids :
       status'[id] # status[id] => status'[id] \in Follows(status[id])]_vars

\* The manager deletes partial data only when the file is finished or the user
\* cancels or removes the row, never for a pause, a failure or a restart.  (The
\* engine itself starts afresh when the server no longer lets it continue.)
PartialDataIsKept ==
  [][\A id \in Ids :
       "control" \in scratch[id] /\ "control" \notin scratch'[id] =>
         \/ id \in delivered'
         \/ status'[id] \in {"cancelled", "gone"}
         \/ \E t \in Gens : InEngine(t) /\ task[t].row = id /\ ~InEngine(t)']_vars

\* "A ghost and must write nothing": a step that a task takes after its row has
\* been handed to another one does not show in the list.  (A restart is a step of
\* all tasks that are there.)
GhostsWriteNothing ==
  [][\A t \in Gens :
       /\ Live(t) /\ ~IsCurrent(t)
       /\ task'[t] # task[t] /\ \A u \in Gens \ {t} : task'[u] = task[u]
       => UNCHANGED <<status, resumable>>]_vars

NoTaskOf(id) == \A t \in Gens : Live(t) => task[t].row # id

\* "Stopped by the user, scratch files deleted": when the last task of a
\* cancelled row whose paths are known has ended, its files are gone.
CancelledLeavesNothing ==
  \A id \in Ids :
    status[id] = "cancelled" /\ known[id] /\ NoTaskOf(id) => scratch[id] = {}

\* "Partial data is always deleted": when the last task of a removed row has
\* ended there is no pair of files left that could be resumed.
RemovedLeavesNoPair ==
  \A id \in Ids :
    status[id] = "gone" /\ NoTaskOf(id) => scratch[id] # {"part", "control"}

\* Every row that is queued or downloading gets its turn and comes to an end.
EveryRowSettles == \A id \in Ids : Active(id) ~> ~Active(id)

\* The removal of a running download follows the request.
RemovalFollows ==
  \A id \in Ids : intent[id] \in {"remove", "purge"} ~> status[id] = "gone"
=============================================================================
