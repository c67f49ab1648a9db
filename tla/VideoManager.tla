----------------------------- MODULE VideoManager -----------------------------
(***************************************************************************)
(* Rows whose URL is that of a video site: their tasks run an external     *)
(* tool in place of the engine (crates/fdm-manager/src/manager.rs,         *)
(* download_video_platform).  Everything else is module Manager.           *)
(*                                                                         *)
(* The tool runs twice at most, first in a fast way and then in full, its  *)
(* scratch files are its own, and it is told to stop only between two of   *)
(* the lines it prints.  A task that runs it never says where the scratch  *)
(* files are.                                                              *)
(***************************************************************************)
EXTENDS Manager

CONSTANT Videos \* rows with the URL of a video site

ASSUME VideosAssumption == Videos \subseteq Ids

VARIABLE tool \* what the tool of each attempt is doing

allVars == <<vars, tool>>

\* "excuse" is a fast run that has failed, "found" a file the tool has made.
ToolPhases == {"none", "fast", "excuse", "full", "found"}

VideoInit == Init /\ tool = [t \in Gens |-> "none"]

IsVideo(t) == task[t].row \in Videos

ToolGoes(t, phase) == tool' = [tool EXCEPT ![t] = phase]

\* The task has the result of the tool.
ToolReturns(t, outcome) ==
  /\ Returns(t, outcome)
  /\ ToolGoes(t, "none")
  /\ UNCHANGED row

\* There is no tool in the tools folder.
ToolMissing(t) ==
  /\ task[t].pc = "probe" /\ IsVideo(t)
  /\ ToolReturns(t, "failed")
  /\ UNCHANGED disk

\* The row is marked as running, whoever owns it by now and whatever it says.
MarkDownloading(t) ==
  LET id == task[t].row
  IN  /\ task[t].pc = "probe" /\ IsVideo(t)
      /\ Goes(t, "run")
      /\ status' = IF Present(id) THEN [status EXCEPT ![id] = "downloading"] ELSE status
      /\ ToolGoes(t, "fast")
      /\ UNCHANGED <<resumable, intent, gen, known, disk>>

ToolRuns(t) == task[t].pc = "run" /\ tool[t] \in {"fast", "full"}

\* Scratch files of the tool that a stop or a failure leaves behind.
ToolLeaves(t) ==
  \E left \in SUBSET {"part"} :
    scratch' = [scratch EXCEPT ![task[t].row] = @ \cup left]

\* The token is looked at when a line arrives, and when the tool has failed.
ToolStops(t) ==
  /\ ToolRuns(t) /\ t \in tripped
  /\ ToolReturns(t, "stopped")
  /\ ToolLeaves(t)
  /\ UNCHANGED delivered

\* The tool cannot be run, or fails; after a fast run that is not the end yet.
ToolFails(t) ==
  /\ ToolRuns(t)
  /\ IF tool[t] = "fast"
     THEN ToolGoes(t, "excuse") /\ UNCHANGED <<task, nextGen, tripped, row>>
     ELSE ToolReturns(t, "failed")
  /\ ToolLeaves(t)
  /\ UNCHANGED delivered

\* Mutant: a failure of the fast run is always excused, and by another fast run.
ToolRetriesAlways(t) ==
  /\ task[t].pc = "run" /\ tool[t] = "excuse"
  /\ ToolGoes(t, "fast")
  /\ UNCHANGED <<task, nextGen, tripped, row, disk>>

\* The full run follows, unless the task was asked to stop: then it has failed.
ToolRetries(t) ==
  /\ task[t].pc = "run" /\ tool[t] = "excuse"
  /\ IF t \in tripped
     THEN ToolReturns(t, "failed")
     ELSE ToolGoes(t, "full") /\ UNCHANGED <<task, nextGen, tripped, row>>
  /\ UNCHANGED disk

\* The tool has made the file and removed its scratch files.
ToolFinds(t) ==
  /\ ToolRuns(t)
  /\ ToolGoes(t, "found")
  /\ scratch' = [scratch EXCEPT ![task[t].row] = {}]
  /\ delivered' = delivered \cup {task[t].row}
  /\ UNCHANGED <<task, nextGen, tripped, row>>

\* Path and size are written to the row, and the attempt has succeeded.
ToolSucceeds(t) ==
  /\ task[t].pc = "run" /\ tool[t] = "found"
  /\ ToolReturns(t, "done")
  /\ UNCHANGED disk

ToolStep(t) ==
  \/ ToolMissing(t) \/ MarkDownloading(t) \/ ToolStops(t) \/ ToolFails(t)
  \/ ToolRetries(t) \/ ToolFinds(t) \/ ToolSucceeds(t)

\* The steps a task of any row takes, and those of the engine for the others.
OtherStep(t) ==
  /\ \/ Arrive(t) \/ TakeLock(t) \/ Check(t) \/ TakeSlot(t) \/ Start(t) \/ Finalise(t)
     \/ ~IsVideo(t) /\ \/ EngineRefuses(t) \/ EngineOpens(t) \/ OnStart(t)
                       \/ EngineStops(t) \/ EngineFails(t) \/ EngineFinishes(t)
  /\ UNCHANGED tool

VideoTaskStep(t) == ToolStep(t) \/ OtherStep(t)

VideoNext ==
  \/ \E id \in Ids : Command(id) /\ UNCHANGED tool
  \/ \E t \in Gens : VideoTaskStep(t)
  \/ Rest /\ UNCHANGED tool

VideoSpec == VideoInit /\ [][VideoNext]_allVars

\* As in Manager; the tool prints a line or ends, for its connections have a
\* timeout and its retries a limit.
VideoFairSpec == VideoSpec /\ \A t \in Gens : WF_allVars(VideoTaskStep(t))

---------------------------------------------------------------------------
(* Properties: those of Manager, and this one. *)

\* A task that was asked to stop comes to its end, whatever its tool was doing
\* and whatever was asked of the row since.
EveryStopIsHeard == \A t \in Gens : t \in tripped ~> ~Live(t)
=============================================================================
