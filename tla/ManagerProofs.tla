---------------------------- MODULE ManagerProofs ----------------------------
(***************************************************************************)
(* Proofs about module Manager, for every number of rows, slots and        *)
(* attempts: that ManagerInv is an inductive invariant, and the properties *)
(* of the rows it implies.                                                 *)
(***************************************************************************)
EXTENDS ManagerInvariant, TLAPS

---------------------------------------------------------------------------
(* What the three ways of moving a task do to it. *)

\* A task goes to another step and changes in nothing else.
LEMMA GoesMoves ==
  ASSUME task \in [Gens -> TaskRec], NEW t \in Gens, NEW step \in TaskSteps,
         Goes(t, step)
  PROVE  /\ task' \in [Gens -> TaskRec]
         /\ task'[t].pc = step
         /\ task'[t].row = task[t].row
         /\ task'[t].outcome = task[t].outcome
         /\ \A u \in Gens : u # t => task'[u] = task[u]
         /\ UNCHANGED <<nextGen, tripped>>
<1>1. task' = [task EXCEPT ![t] = [task[t] EXCEPT !.pc = step]]
  BY DEF Goes
<1>2. [task[t] EXCEPT !.pc = step] \in TaskRec
  BY DEF TaskRec
<1>3. /\ [task[t] EXCEPT !.pc = step].pc = step
      /\ [task[t] EXCEPT !.pc = step].row = task[t].row
      /\ [task[t] EXCEPT !.pc = step].outcome = task[t].outcome
  BY DEF TaskRec
<1>4. QED
  BY <1>1, <1>2, <1>3 DEF Goes

\* The engine of a task returns: the task has its outcome to settle.
LEMMA ReturnsMoves ==
  ASSUME task \in [Gens -> TaskRec], NEW t \in Gens, NEW outcome \in Outcomes,
         Returns(t, outcome)
  PROVE  /\ task' \in [Gens -> TaskRec]
         /\ task'[t].pc = "settle"
         /\ task'[t].row = task[t].row
         /\ task'[t].outcome = outcome
         /\ \A u \in Gens : u # t => task'[u] = task[u]
         /\ UNCHANGED <<nextGen, tripped>>
<1> DEFINE mid == [task EXCEPT ![t].pc = "settle"]
<1>1. mid \in [Gens -> TaskRec] /\ mid[t].pc = "settle" /\ mid[t].row = task[t].row
  BY DEF TaskRec, TaskSteps
<1>2. \A u \in Gens : u # t => mid[u] = task[u]
  OBVIOUS
<1>3. task' = [mid EXCEPT ![t].outcome = outcome]
  BY DEF Returns
<1> HIDE DEF mid
<1>4. task' = [mid EXCEPT ![t] = [mid[t] EXCEPT !.outcome = outcome]]
  BY <1>3
<1>5. /\ [mid[t] EXCEPT !.outcome = outcome] \in TaskRec
      /\ [mid[t] EXCEPT !.outcome = outcome].pc = mid[t].pc
      /\ [mid[t] EXCEPT !.outcome = outcome].row = mid[t].row
      /\ [mid[t] EXCEPT !.outcome = outcome].outcome = outcome
  BY <1>1 DEF TaskRec
<1>6. QED
  BY <1>1, <1>2, <1>4, <1>5 DEF Returns

\* A task is over.
LEMMA EndsMoves ==
  ASSUME task \in [Gens -> TaskRec], NEW t \in Gens, Ends(t)
  PROVE  /\ task' \in [Gens -> TaskRec]
         /\ task'[t].pc = "done"
         /\ \A u \in Gens : u # t => task'[u] = task[u]
         /\ tripped' = tripped \ {t}
         /\ nextGen' = nextGen
<1>1. Ended \in TaskRec /\ Ended.pc = "done"
  BY DEF Ended, TaskRec, TaskSteps, Outcomes
<1>2. QED
  BY <1>1 DEF Ends

\* The scratch files of a row, those that are left when it is discarded.
LEMMA DiscardType ==
  ASSUME scratch \in [Ids -> SUBSET {"part", "control"}], NEW id \in Ids, Discard(id)
  PROVE  scratch' \in [Ids -> SUBSET {"part", "control"}]
BY DEF Discard

---------------------------------------------------------------------------
(* The steps of a task that write nothing about its row. *)

\* A task goes on before its engine runs.  It passes the run lock only when no
\* other task of the row has.
LEMMA GoesOn ==
  ASSUME ManagerInv, NEW t \in Gens, Live(t), task[t].pc \notin {"run", "settle"},
         NEW step \in TaskSteps \ {"unborn", "done", "run", "settle"},
         Goes(t, step),
         step # "lock" =>
           \A u \in Gens : HoldsRun(u) /\ task[u].row = task[t].row => u = t,
         UNCHANGED row, UNCHANGED delivered,
         scratch' \in [Ids -> SUBSET {"part", "control"}]
  PROVE  ManagerInv'
<1>1. /\ task' \in [Gens -> TaskRec]
      /\ task'[t].pc = step
      /\ task'[t].row = task[t].row
      /\ task'[t].outcome = task[t].outcome
      /\ \A u \in Gens : u # t => task'[u] = task[u]
      /\ UNCHANGED <<nextGen, tripped>>
  BY GoesMoves DEF ManagerInv, TypeOK
<1>2. TypeOK'
  BY <1>1 DEF ManagerInv, TypeOK, row
<1>3. Generations'
  BY <1>1 DEF ManagerInv, Generations, Live, row
<1>4. RunLockIsExclusive'
  BY <1>1 DEF ManagerInv, RunLockIsExclusive, HoldsRun, HoldsSlot, InEngine
<1>5. ActiveHasTask'
  BY <1>1 DEF ManagerInv, ActiveHasTask, Live, Active, row
<1>6. StoppedIsTripped'
  BY <1>1 DEF ManagerInv, StoppedIsTripped, Live, IsCurrent, Active, row
<1>7. RunningIsShown'
  BY <1>1 DEF ManagerInv, RunningIsShown, ActiveHasTask, Active, ActiveStatuses,
     IsCurrent, row
<1>8. FinishedIsDelivered'
  BY <1>1 DEF ManagerInv, FinishedIsDelivered, IsCurrent, row
<1>9. CompletedIsDelivered'
  BY DEF ManagerInv, CompletedIsDelivered, row
<1>10. QED
  BY <1>2, <1>3, <1>4, <1>5, <1>6, <1>7, <1>8, <1>9 DEF ManagerInv

\* A task ends without a word: it does not own its row, or its row was stopped.
LEMMA EndsSilently ==
  ASSUME ManagerInv, NEW t \in Gens, Live(t), Ends(t),
         ~IsCurrent(t) \/ ~Active(task[t].row),
         UNCHANGED row, UNCHANGED disk
  PROVE  ManagerInv'
<1>1. /\ task' \in [Gens -> TaskRec]
      /\ task'[t].pc = "done"
      /\ \A u \in Gens : u # t => task'[u] = task[u]
      /\ tripped' = tripped \ {t}
      /\ nextGen' = nextGen
  BY EndsMoves DEF ManagerInv, TypeOK
<1>2. TypeOK'
  BY <1>1 DEF ManagerInv, TypeOK, row, disk
<1>3. Generations'
  BY <1>1 DEF ManagerInv, Generations, Live, row
<1>4. RunLockIsExclusive'
  BY <1>1 DEF ManagerInv, RunLockIsExclusive, HoldsRun, HoldsSlot, InEngine
<1>a. \A id \in Ids : Active(id) => gen[id] # t
  BY DEF ManagerInv, Generations, IsCurrent
<1>5. ActiveHasTask'
  BY <1>1, <1>a DEF ManagerInv, ActiveHasTask, Live, Active, row
<1>6. StoppedIsTripped'
  BY <1>1 DEF ManagerInv, StoppedIsTripped, Live, IsCurrent, Active, row
<1>7. RunningIsShown'
  BY <1>1, <1>a DEF ManagerInv, RunningIsShown, ActiveHasTask, Active,
     ActiveStatuses, IsCurrent, row
<1>8. FinishedIsDelivered'
  BY <1>1 DEF ManagerInv, FinishedIsDelivered, IsCurrent, row, disk
<1>9. CompletedIsDelivered'
  BY DEF ManagerInv, CompletedIsDelivered, row, disk
<1>10. QED
  BY <1>2, <1>3, <1>4, <1>5, <1>6, <1>7, <1>8, <1>9 DEF ManagerInv

\* The engine of a task returns, having delivered the file if it says so.
LEMMA EngineReturns ==
  ASSUME ManagerInv, NEW t \in Gens, InEngine(t), NEW outcome \in Outcomes,
         Returns(t, outcome), UNCHANGED row,
         scratch' \in [Ids -> SUBSET {"part", "control"}],
         delivered \subseteq delivered', delivered' \subseteq Ids,
         outcome = "done" => task[t].row \in delivered'
  PROVE  ManagerInv'
<1>1. /\ task' \in [Gens -> TaskRec]
      /\ task'[t].pc = "settle"
      /\ task'[t].row = task[t].row
      /\ task'[t].outcome = outcome
      /\ \A u \in Gens : u # t => task'[u] = task[u]
      /\ UNCHANGED <<nextGen, tripped>>
  BY ReturnsMoves DEF ManagerInv, TypeOK
<1>2. TypeOK'
  BY <1>1 DEF ManagerInv, TypeOK, row
<1>3. Generations'
  BY <1>1 DEF ManagerInv, Generations, Live, InEngine, row
<1>4. RunLockIsExclusive'
  BY <1>1 DEF ManagerInv, RunLockIsExclusive, HoldsRun, HoldsSlot, InEngine
<1>5. ActiveHasTask'
  BY <1>1 DEF ManagerInv, ActiveHasTask, Live, Active, row
<1>6. StoppedIsTripped'
  BY <1>1 DEF ManagerInv, StoppedIsTripped, Live, InEngine, IsCurrent, Active, row
<1>7. RunningIsShown'
  BY <1>1 DEF ManagerInv, RunningIsShown, ActiveHasTask, Active, ActiveStatuses,
     IsCurrent, row
<1>8. FinishedIsDelivered'
  BY <1>1 DEF ManagerInv, FinishedIsDelivered, IsCurrent, row
<1>9. CompletedIsDelivered'
  BY DEF ManagerInv, CompletedIsDelivered, row
<1>10. QED
  BY <1>2, <1>3, <1>4, <1>5, <1>6, <1>7, <1>8, <1>9 DEF ManagerInv

---------------------------------------------------------------------------
(* The steps of a task that write the end of an attempt into its row. *)

\* The task that owns a row ends and leaves the row stopped, or takes it away.
LEMMA EndsSettled ==
  ASSUME ManagerInv, NEW t \in Gens, Live(t), IsCurrent(t), Ends(t),
         NEW to \in Statuses \ ActiveStatuses,
         status' = [status EXCEPT ![task[t].row] = to],
         gen' = gen \/ gen' = [gen EXCEPT ![task[t].row] = 0],
         resumable' \in [Ids -> BOOLEAN], intent' \in [Ids -> Intents],
         known' \in [Ids -> BOOLEAN],
         scratch' \in [Ids -> SUBSET {"part", "control"}],
         delivered \ {task[t].row} \subseteq delivered', delivered' \subseteq Ids,
         to = "completed" => task[t].row \in delivered'
  PROVE  ManagerInv'
<1> DEFINE id == task[t].row
<1>1. /\ task' \in [Gens -> TaskRec]
      /\ task'[t].pc = "done"
      /\ \A u \in Gens : u # t => task'[u] = task[u]
      /\ tripped' = tripped \ {t}
      /\ nextGen' = nextGen
  BY EndsMoves DEF ManagerInv, TypeOK
<1>2. id \in Ids /\ gen[id] = t /\ t # 0
  BY DEF ManagerInv, Generations, IsCurrent, Gens
<1>3. /\ status \in [Ids -> Statuses] /\ gen \in [Ids -> Nat]
      /\ status'[id] = to
      /\ \A other \in Ids : other # id =>
           status'[other] = status[other] /\ gen'[other] = gen[other]
      /\ gen'[id] \in {0, t}
  BY <1>2 DEF ManagerInv, TypeOK
<1> HIDE DEF id
<1>4. TypeOK'
  <2>1. status' \in [Ids -> Statuses]
    BY <1>3 DEF id
  <2>2. gen' \in [Ids -> Nat]
    BY <1>2, <1>3 DEF id
  <2>3. QED
    BY <1>1, <2>1, <2>2 DEF ManagerInv, TypeOK
<1>5. Generations'
  <2>1. \A u \in Gens : task'[u].pc = "unborn" <=> u > nextGen'
    BY <1>1 DEF ManagerInv, Generations, Live
  <2>2. \A u \in Gens : Live(u)' => task'[u].row \in Ids
    BY <1>1 DEF ManagerInv, Generations, Live
  <2>3. \A other \in Ids : gen'[other] # 0 => gen'[other] \in 1 .. nextGen'
    BY <1>1, <1>2, <1>3 DEF ManagerInv, Generations
  <2>4. \A u \in Gens, other \in Ids :
          Live(u)' /\ gen'[other] = u => task'[u].row = other
    BY <1>1, <1>2, <1>3 DEF ManagerInv, Generations, Live, Gens
  <2>5. QED
    BY <2>1, <2>2, <2>3, <2>4 DEF Generations
<1>6. RunLockIsExclusive'
  BY <1>1 DEF ManagerInv, RunLockIsExclusive, HoldsRun, HoldsSlot, InEngine
<1>7. \A other \in Ids : Active(other)' => other # id /\ Active(other)
  BY <1>3 DEF Active
<1>8. ActiveHasTask'
  BY <1>1, <1>2, <1>3, <1>7 DEF ManagerInv, ActiveHasTask, Generations, Live
\* A task that lives on and owns a row owns another one.
<1>9. \A u \in Gens : Live(u)' /\ IsCurrent(u)' =>
        /\ u # t /\ task'[u] = task[u] /\ Live(u) /\ IsCurrent(u)
        /\ task[u].row \in Ids /\ task[u].row # id
  BY <1>1, <1>2, <1>3 DEF ManagerInv, Generations, Live, IsCurrent, Gens
<1>10. StoppedIsTripped'
  BY <1>1, <1>3, <1>9 DEF ManagerInv, StoppedIsTripped, Active
<1>11. RunningIsShown'
  <2>1. \A u \in Gens : task'[u].pc = "run" => Live(u)'
    BY DEF Live
  <2>2. \A u \in Gens : (task[u].pc = "run" /\ IsCurrent(u) /\ u \notin tripped =>
                          status[task[u].row] = "downloading")
    BY DEF ManagerInv, RunningIsShown
  <2>3. \A u \in Gens :
          task'[u].pc = "run" /\ IsCurrent(u)' /\ u \notin tripped' =>
            status'[task'[u].row] = "downloading"
    BY <1>1, <1>3, <1>9, <2>1, <2>2
  <2>4. \A other \in Ids :
          status'[other] = "downloading" => task'[gen'[other]].pc \in {"run", "settle"}
    <3> SUFFICES ASSUME NEW other \in Ids, status'[other] = "downloading"
                 PROVE  task'[gen'[other]].pc \in {"run", "settle"}
      OBVIOUS
    <3>1. other # id /\ Active(other) /\ status[other] = "downloading"
      BY <1>3, <1>7 DEF Active, ActiveStatuses
    <3>2. gen[other] \in Gens /\ Live(gen[other]) /\ gen[other] # t
      BY <1>2, <3>1 DEF ManagerInv, ActiveHasTask, Generations, id
    <3>3. QED
      BY <1>1, <1>3, <3>1, <3>2 DEF ManagerInv, RunningIsShown
  <2>5. QED
    BY <2>3, <2>4 DEF RunningIsShown
<1>12. FinishedIsDelivered'
  <2>1. \A u \in Gens : task'[u].pc = "settle" => Live(u)'
    BY DEF Live
  <2>2. QED
    BY <1>9, <2>1 DEF ManagerInv, FinishedIsDelivered, id
<1>13. CompletedIsDelivered'
  BY <1>3 DEF ManagerInv, CompletedIsDelivered, id
<1>14. QED
  BY <1>4, <1>5, <1>6, <1>8, <1>10, <1>11, <1>12, <1>13 DEF ManagerInv

---------------------------------------------------------------------------
(* The steps of a task. *)

\* A task that first runs: its row may be gone.
LEMMA ArriveInv ==
  ASSUME ManagerInv, NEW t \in Gens, Arrive(t)
  PROVE  ManagerInv'
<1>1. Live(t) /\ task[t].pc \notin {"run", "settle"}
  BY DEF Arrive, Live
<1>2. CASE Present(task[t].row)
  <2>1. Goes(t, "lock")
    BY <1>2 DEF Arrive
  <2>2. QED
    BY <1>1, <2>1, GoesOn DEF Arrive, TaskSteps, ManagerInv, TypeOK, disk
<1>3. CASE ~Present(task[t].row)
  BY <1>1, <1>3, EndsSilently DEF Arrive, Present, Active, RowStatuses
<1>4. QED
  BY <1>2, <1>3

\* A task that takes the run lock of its row.
LEMMA TakeLockInv ==
  ASSUME ManagerInv, NEW t \in Gens, TakeLock(t)
  PROVE  ManagerInv'
<1>1. Live(t) /\ task[t].pc \notin {"run", "settle"}
  BY DEF TakeLock, Live
<1>2. QED
  BY <1>1, GoesOn DEF TakeLock, TaskSteps, ManagerInv, TypeOK, disk

\* A task that has the run lock is the only one of its row past it.
LEMMA HolderIsAlone ==
  ASSUME ManagerInv, NEW t \in Gens, HoldsRun(t)
  PROVE  \A u \in Gens : HoldsRun(u) /\ task[u].row = task[t].row => u = t
BY DEF ManagerInv, RunLockIsExclusive

\* A task that looks whether it still owns the row.
LEMMA CheckInv ==
  ASSUME ManagerInv, NEW t \in Gens, Check(t)
  PROVE  ManagerInv'
<1>1. Live(t) /\ task[t].pc \notin {"run", "settle"} /\ HoldsRun(t)
  BY DEF Check, Live, HoldsRun
<1>2. CASE IsCurrent(t)
  <2>1. Goes(t, "slot")
    BY <1>2 DEF Check
  <2>2. QED
    BY <1>1, <2>1, HolderIsAlone, GoesOn DEF Check, TaskSteps, ManagerInv, TypeOK, disk
<1>3. CASE ~IsCurrent(t)
  BY <1>1, <1>3, EndsSilently DEF Check
<1>4. QED
  BY <1>2, <1>3

\* A task that gets a slot.
LEMMA TakeSlotInv ==
  ASSUME ManagerInv, NEW t \in Gens, TakeSlot(t)
  PROVE  ManagerInv'
<1>1. Live(t) /\ task[t].pc \notin {"run", "settle"} /\ HoldsRun(t)
  BY DEF TakeSlot, Live, HoldsRun
<1>2. QED
  BY <1>1, HolderIsAlone, GoesOn DEF TakeSlot, TaskSteps, ManagerInv, TypeOK, disk

\* What taking a row away leaves of its variables.
LEMMA ForgetType ==
  ASSUME TypeOK, NEW id \in Ids, Forget(id)
  PROVE  /\ resumable' \in [Ids -> BOOLEAN]
         /\ intent' \in [Ids -> Intents]
         /\ known' \in [Ids -> BOOLEAN]
         /\ status' = [status EXCEPT ![id] = "gone"]
         /\ gen' = [gen EXCEPT ![id] = 0]
BY DEF TypeOK, Forget, Intents

\* A task that starts its engine, or finds its row taken over or stopped.
LEMMA StartInv ==
  ASSUME ManagerInv, NEW t \in Gens, Start(t)
  PROVE  ManagerInv'
<1> DEFINE id == task[t].row
<1>1. Live(t) /\ task[t].pc \notin {"run", "settle"} /\ HoldsRun(t) /\ id \in Ids
  BY DEF Start, Live, HoldsRun, HoldsSlot, ManagerInv, Generations
<1>2. CASE ~IsCurrent(t)
  BY <1>1, <1>2, EndsSilently DEF Start
<1>3. CASE IsCurrent(t) /\ ~Active(id) /\ intent[id] \notin {"remove", "purge"}
  BY <1>1, <1>3, EndsSilently DEF Start, StoppedBeforeStart
<1>4. CASE IsCurrent(t) /\ ~Active(id) /\ intent[id] \in {"remove", "purge"}
  <2>1. /\ Ends(t) /\ Discard(id) /\ Forget(id)
        /\ delivered' = IF intent[id] = "purge" THEN delivered \ {id} ELSE delivered
    BY <1>4 DEF Start, StoppedBeforeStart
  <2>2. /\ resumable' \in [Ids -> BOOLEAN] /\ intent' \in [Ids -> Intents]
        /\ known' \in [Ids -> BOOLEAN]
        /\ status' = [status EXCEPT ![id] = "gone"]
        /\ gen' = [gen EXCEPT ![id] = 0]
    BY <1>1, <2>1, ForgetType DEF ManagerInv
  <2>3. scratch' \in [Ids -> SUBSET {"part", "control"}]
    BY <1>1, <2>1, DiscardType DEF ManagerInv, TypeOK
  <2>4. delivered \ {id} \subseteq delivered' /\ delivered' \subseteq Ids
    BY <2>1 DEF ManagerInv, TypeOK
  <2>5. "gone" \in Statuses \ ActiveStatuses
    BY DEF Statuses, ActiveStatuses
  <2>6. QED
    BY <1>1, <1>4, <2>1, <2>2, <2>3, <2>4, <2>5, EndsSettled
<1>5. CASE IsCurrent(t) /\ Active(id)
  <2>1. Goes(t, "probe") /\ UNCHANGED <<row, disk>>
    BY <1>5 DEF Start
  <2>2. QED
    BY <1>1, <2>1, HolderIsAlone, GoesOn DEF TaskSteps, ManagerInv, TypeOK, disk
<1>6. QED
  BY <1>2, <1>3, <1>4, <1>5

\* The engine opens its files.
LEMMA EngineOpensInv ==
  ASSUME ManagerInv, NEW t \in Gens, EngineOpens(t)
  PROVE  ManagerInv'
<1>1. /\ Live(t) /\ task[t].pc \notin {"run", "settle"} /\ HoldsRun(t)
      /\ scratch' \in [Ids -> SUBSET {"part", "control"}]
  BY DEF EngineOpens, Live, HoldsRun, HoldsSlot, InEngine, ManagerInv, TypeOK
<1>2. QED
  BY <1>1, HolderIsAlone, GoesOn DEF EngineOpens, TaskSteps

\* The engine fails before it has its files.
LEMMA EngineRefusesInv ==
  ASSUME ManagerInv, NEW t \in Gens, EngineRefuses(t)
  PROVE  ManagerInv'
<1>1. InEngine(t) /\ task[t].row \in Ids
  BY DEF EngineRefuses, InEngine, Live, ManagerInv, Generations
<1>2. scratch' \in [Ids -> SUBSET {"part", "control"}]
  BY <1>1 DEF EngineRefuses, AfreshLeaves, ManagerInv, TypeOK
<1>3. QED
  BY <1>1, <1>2, EngineReturns DEF EngineRefuses, Outcomes, ManagerInv, TypeOK

\* The engine is stopped by its token.
LEMMA EngineStopsInv ==
  ASSUME ManagerInv, NEW t \in Gens, EngineStops(t)
  PROVE  ManagerInv'
<1>1. InEngine(t) /\ task[t].row \in Ids
  BY DEF EngineStops, InEngine, Live, ManagerInv, Generations
<1>2. scratch' \in [Ids -> SUBSET {"part", "control"}]
  BY <1>1 DEF EngineStops, ManagerInv, TypeOK
<1>3. QED
  BY <1>1, <1>2, EngineReturns DEF EngineStops, Outcomes, ManagerInv, TypeOK

\* The engine fails.
LEMMA EngineFailsInv ==
  ASSUME ManagerInv, NEW t \in Gens, EngineFails(t)
  PROVE  ManagerInv'
<1>1. InEngine(t) /\ task[t].row \in Ids
  BY DEF EngineFails, InEngine, Live, ManagerInv, Generations
<1>2. scratch' \in [Ids -> SUBSET {"part", "control"}]
  BY <1>1 DEF EngineFails, AfreshLeaves, ManagerInv, TypeOK
<1>3. QED
  BY <1>1, <1>2, EngineReturns DEF EngineFails, Outcomes, ManagerInv, TypeOK

\* The engine delivers the file.
LEMMA EngineFinishesInv ==
  ASSUME ManagerInv, NEW t \in Gens, EngineFinishes(t)
  PROVE  ManagerInv'
<1>1. InEngine(t) /\ task[t].row \in Ids
  BY DEF EngineFinishes, InEngine, Live, ManagerInv, Generations
<1>2. /\ scratch' \in [Ids -> SUBSET {"part", "control"}]
      /\ delivered' = delivered \cup {task[t].row}
      /\ delivered' \subseteq Ids
  BY <1>1 DEF EngineFinishes, ManagerInv, TypeOK
<1>3. QED
  BY <1>1, <1>2, EngineReturns DEF EngineFinishes, Outcomes

\* The engine tells where its files are: the row is running from here on, unless
\* it was stopped or taken over.
LEMMA OnStartInv ==
  ASSUME ManagerInv, NEW t \in Gens, OnStart(t)
  PROVE  ManagerInv'
<1> DEFINE id == task[t].row
<1>1. Live(t) /\ HoldsRun(t) /\ id \in Ids
  BY DEF OnStart, Live, HoldsRun, HoldsSlot, InEngine, ManagerInv, Generations
<1>2. /\ task' \in [Gens -> TaskRec]
      /\ task'[t].pc = "run"
      /\ task'[t].row = task[t].row
      /\ task'[t].outcome = task[t].outcome
      /\ \A u \in Gens : u # t => task'[u] = task[u]
      /\ UNCHANGED <<nextGen, tripped>>
  BY GoesMoves DEF OnStart, TaskSteps, ManagerInv, TypeOK
<1>3. /\ UNCHANGED <<intent, gen, scratch, delivered>>
      /\ known' \in [Ids -> BOOLEAN]
      /\ resumable' \in [Ids -> BOOLEAN]
      /\ status' = IF IsCurrent(t) /\ Active(id)
                   THEN [status EXCEPT ![id] = "downloading"] ELSE status
  BY <1>1 DEF OnStart, disk, ManagerInv, TypeOK
<1>4. status \in [Ids -> Statuses] /\ "downloading" \in ActiveStatuses \cap Statuses
  BY DEF ManagerInv, TypeOK, Statuses, RowStatuses, ActiveStatuses
<1>5. /\ status' \in [Ids -> Statuses]
      /\ \A other \in Ids : Active(other)' <=> Active(other)
      /\ \A other \in Ids : other # id => status'[other] = status[other]
  BY <1>1, <1>3, <1>4 DEF Active
<1> HIDE DEF id
<1>6. TypeOK'
  BY <1>2, <1>3, <1>5 DEF ManagerInv, TypeOK
<1>7. Generations'
  BY <1>1, <1>2, <1>3 DEF ManagerInv, Generations, Live
<1>8. RunLockIsExclusive'
  BY <1>1, <1>2 DEF ManagerInv, RunLockIsExclusive, HoldsRun, HoldsSlot, InEngine
<1>9. ActiveHasTask'
  BY <1>2, <1>3, <1>5 DEF ManagerInv, ActiveHasTask, Live
<1>10. StoppedIsTripped'
  BY <1>1, <1>2, <1>3, <1>5 DEF ManagerInv, Generations, StoppedIsTripped, Live, IsCurrent
<1>11. RunningIsShown'
  <2>1. ASSUME NEW u \in Gens, task'[u].pc = "run", IsCurrent(u)', u \notin tripped'
        PROVE  status'[task'[u].row] = "downloading"
    <3>1. Live(u) /\ IsCurrent(u) /\ u \notin tripped /\ task[u].row \in Ids
      BY <1>1, <1>2, <1>3, <2>1 DEF IsCurrent, ManagerInv, Generations, Live
    <3>2. CASE u = t
      <4>1. IsCurrent(t) /\ Active(id)
        BY <3>1, <3>2 DEF ManagerInv, StoppedIsTripped, id
      <4>2. QED
        BY <1>1, <1>2, <1>3, <1>4, <3>2, <4>1 DEF id
    <3>3. CASE u # t
      BY <1>2, <1>3, <1>4, <2>1, <3>1, <3>3 DEF ManagerInv, RunningIsShown
    <3>4. QED
      BY <3>2, <3>3
  <2>2. ASSUME NEW other \in Ids, status'[other] = "downloading"
        PROVE  task'[gen'[other]].pc \in {"run", "settle"}
    <3>1. gen[other] \in Gens
      BY <1>4, <1>5, <2>2 DEF ManagerInv, ActiveHasTask, Active
    <3>2. CASE gen[other] = t
      BY <1>2, <1>3, <3>2
    <3>3. CASE gen[other] # t
      <4>1. status[other] = "downloading"
        BY <1>3, <1>5, <2>2, <3>3 DEF IsCurrent, id
      <4>2. QED
        BY <1>2, <1>3, <3>1, <3>3, <4>1 DEF ManagerInv, RunningIsShown
    <3>4. QED
      BY <3>2, <3>3
  <2>3. QED
    BY <2>1, <2>2 DEF RunningIsShown
<1>12. FinishedIsDelivered'
  BY <1>2, <1>3 DEF ManagerInv, FinishedIsDelivered, IsCurrent
<1>13. CompletedIsDelivered'
  BY <1>3 DEF ManagerInv, CompletedIsDelivered
<1>14. QED
  BY <1>6, <1>7, <1>8, <1>9, <1>10, <1>11, <1>12, <1>13 DEF ManagerInv

\* The end of an attempt is written into its row, or ignored.
LEMMA FinaliseInv ==
  ASSUME ManagerInv, NEW t \in Gens, Finalise(t)
  PROVE  ManagerInv'
<1> DEFINE id == task[t].row
           out == task[t].outcome
<1>1. Live(t) /\ id \in Ids /\ task[t].pc = "settle" /\ Ends(t)
  BY DEF Finalise, Live, ManagerInv, Generations
<1>2. CASE ~(Present(id) /\ IsCurrent(t))
  <2>1. UNCHANGED <<row, disk>>
    BY <1>2 DEF Finalise
  <2>2. ~IsCurrent(t) \/ ~Active(id)
    BY <1>2 DEF Present, Active, RowStatuses
  <2>3. QED
    BY <1>1, <2>1, <2>2, EndsSilently
<1>3. CASE Present(id) /\ IsCurrent(t)
  <2>1. WriteEnd(t)
    BY <1>3 DEF Finalise
  <2>2. CASE intent[id] \in {"remove", "purge"}
    <3>1. /\ Discard(id) /\ Forget(id)
          /\ delivered' = IF intent[id] = "purge" THEN delivered \ {id} ELSE delivered
      BY <2>1, <2>2 DEF WriteEnd
    <3>2. /\ resumable' \in [Ids -> BOOLEAN] /\ intent' \in [Ids -> Intents]
          /\ known' \in [Ids -> BOOLEAN]
          /\ status' = [status EXCEPT ![id] = "gone"]
          /\ gen' = [gen EXCEPT ![id] = 0]
      BY <1>1, <3>1, ForgetType DEF ManagerInv
    <3>3. scratch' \in [Ids -> SUBSET {"part", "control"}]
      BY <1>1, <3>1, DiscardType DEF ManagerInv, TypeOK
    <3>4. delivered \ {id} \subseteq delivered' /\ delivered' \subseteq Ids
      BY <3>1 DEF ManagerInv, TypeOK
    <3>5. "gone" \in Statuses \ ActiveStatuses
      BY DEF Statuses, ActiveStatuses
    <3>6. QED
      BY <1>1, <1>3, <3>2, <3>3, <3>4, <3>5, EndsSettled
  <2>3. CASE intent[id] \notin {"remove", "purge"}
    <3>1. PICK to \in {"completed", "cancelled", "paused", "failed"}, can \in BOOLEAN :
            /\ Settle(id, to, can)
            /\ to = "completed" => out = "done"
            /\ scratch' = scratch \/ Discard(id)
            /\ delivered' = delivered
      BY <2>1, <2>3 DEF WriteEnd, disk, ControlFound, ManagerInv, TypeOK
    <3>2. /\ status' = [status EXCEPT ![id] = to]
          /\ gen' = gen
          /\ resumable' \in [Ids -> BOOLEAN] /\ intent' \in [Ids -> Intents]
          /\ known' \in [Ids -> BOOLEAN]
      BY <3>1 DEF Settle, ManagerInv, TypeOK
    <3>3. scratch' \in [Ids -> SUBSET {"part", "control"}]
      BY <1>1, <3>1, DiscardType DEF ManagerInv, TypeOK
    <3>4. delivered' \subseteq Ids /\ delivered \ {id} \subseteq delivered'
      BY <3>1 DEF ManagerInv, TypeOK
    <3>5. to = "completed" => id \in delivered'
      BY <1>1, <1>3, <3>1 DEF ManagerInv, FinishedIsDelivered
    <3>6. to \in Statuses \ ActiveStatuses
      BY <3>1 DEF Statuses, RowStatuses, ActiveStatuses
    <3>7. QED
      BY <1>1, <1>3, <3>2, <3>3, <3>4, <3>5, <3>6, EndsSettled
  <2>4. QED
    BY <2>2, <2>3
<1>4. QED
  BY <1>2, <1>3

---------------------------------------------------------------------------
(* The commands. *)

\* A row is handed to a new attempt.
LEMMA NewAttempt ==
  ASSUME ManagerInv, NEW id \in Ids, NewGeneration(id),
         status' = [status EXCEPT ![id] = "queued"],
         UNCHANGED <<resumable, known, tripped, disk>>
  PROVE  ManagerInv'
<1> DEFINE new == nextGen + 1
           born == [Unborn EXCEPT !.pc = "new", !.row = id]
<1>1. nextGen \in Nat /\ MaxGen \in Nat /\ new \in Gens /\ new # 0
  BY ManagerAssumption DEF ManagerInv, TypeOK, NewGeneration, Gens
<1>2. born = [pc |-> "new", row |-> id, outcome |-> "none"]
  <2> DEFINE mid == [Unborn EXCEPT !.pc = "new"]
  <2>1. mid = [pc |-> "new", row |-> NoRow, outcome |-> "none"]
    BY DEF Unborn
  <2>2. born = [mid EXCEPT !.row = id]
    OBVIOUS
  <2> HIDE DEF mid
  <2>3. QED
    BY <2>1, <2>2
<1>3. born \in TaskRec
  BY <1>2 DEF TaskRec, TaskSteps, Outcomes
<1>4. /\ task' \in [Gens -> TaskRec]
      /\ task'[new] = born
      /\ \A u \in Gens : u # new => task'[u] = task[u]
      /\ nextGen' = new
      /\ gen' = [gen EXCEPT ![id] = new]
      /\ intent' = [intent EXCEPT ![id] = "none"]
  BY <1>1, <1>3 DEF NewGeneration, ManagerInv, TypeOK
<1>5. /\ gen'[id] = new /\ status'[id] = "queued"
      /\ \A other \in Ids : other # id =>
           gen'[other] = gen[other] /\ status'[other] = status[other]
  BY <1>4 DEF ManagerInv, TypeOK
<1>6. ~Live(new) /\ \A other \in Ids : gen[other] # new
  BY <1>1 DEF ManagerInv, Generations, Live
<1>7. born.pc = "new" /\ born.row = id
  BY <1>2
<1> HIDE DEF born
<1>8. TypeOK'
  <2>1. nextGen' \in 0 .. MaxGen /\ gen' \in [Ids -> Nat]
    BY <1>1, <1>4 DEF ManagerInv, TypeOK, Gens
  <2>2. intent' \in [Ids -> Intents] /\ status' \in [Ids -> Statuses]
    BY <1>4 DEF ManagerInv, TypeOK, Intents, Statuses, RowStatuses, ActiveStatuses
  <2>3. QED
    BY <1>4, <2>1, <2>2 DEF ManagerInv, TypeOK, disk
<1> HIDE DEF new
<1>9. \A u \in Gens : u > nextGen' <=> u > nextGen /\ u # new
  BY <1>1, <1>4 DEF new, Gens
<1>10. Generations'
  <2>1. \A u \in Gens : task'[u].pc = "unborn" <=> u > nextGen'
    BY <1>4, <1>7, <1>9 DEF ManagerInv, Generations
  <2>2. \A u \in Gens : Live(u)' => task'[u].row \in Ids
    BY <1>4, <1>7 DEF ManagerInv, Generations, Live
  <2>3. \A other \in Ids : gen'[other] # 0 => gen'[other] \in 1 .. nextGen'
    BY <1>1, <1>4, <1>5 DEF ManagerInv, TypeOK, Generations, new
  <2>4. \A u \in Gens, other \in Ids :
          Live(u)' /\ gen'[other] = u => task'[u].row = other
    BY <1>4, <1>5, <1>6, <1>7 DEF ManagerInv, Generations, Live
  <2>5. QED
    BY <2>1, <2>2, <2>3, <2>4 DEF Generations
<1>11. RunLockIsExclusive'
  BY <1>4, <1>7 DEF ManagerInv, RunLockIsExclusive, HoldsRun, HoldsSlot, InEngine
<1>12. ActiveHasTask'
  BY <1>1, <1>4, <1>5, <1>6, <1>7 DEF ManagerInv, ActiveHasTask, Live, Active
\* A task that lived before and owns a row owns another one.
<1>13. \A u \in Gens : u # new /\ Live(u) /\ IsCurrent(u)' =>
         IsCurrent(u) /\ task[u].row \in Ids /\ task[u].row # id
  BY <1>4, <1>5 DEF ManagerInv, Generations, IsCurrent
<1>14. StoppedIsTripped'
  BY <1>4, <1>5, <1>7, <1>13 DEF ManagerInv, StoppedIsTripped, Live, Active,
     ActiveStatuses
<1>15. RunningIsShown'
  <2>1. ASSUME NEW u \in Gens, task'[u].pc = "run", IsCurrent(u)', u \notin tripped'
        PROVE  status'[task'[u].row] = "downloading"
    <3>1. u # new /\ task'[u] = task[u] /\ Live(u)
      BY <1>4, <1>7, <2>1 DEF Live
    <3>2. IsCurrent(u) /\ task[u].row \in Ids /\ task[u].row # id
      BY <1>13, <2>1, <3>1
    <3>3. QED
      BY <1>5, <2>1, <3>1, <3>2 DEF ManagerInv, RunningIsShown
  <2>2. ASSUME NEW other \in Ids, status'[other] = "downloading"
        PROVE  task'[gen'[other]].pc \in {"run", "settle"}
    <3>1. other # id /\ status[other] = "downloading" /\ gen'[other] = gen[other]
      BY <1>5, <2>2
    <3>2. gen[other] \in Gens /\ gen[other] # new
      BY <1>6, <3>1 DEF ManagerInv, ActiveHasTask, Active, ActiveStatuses
    <3>3. QED
      BY <1>4, <3>1, <3>2 DEF ManagerInv, RunningIsShown
  <2>3. QED
    BY <2>1, <2>2 DEF RunningIsShown
<1>16. FinishedIsDelivered'
  <2>1. \A u \in Gens : task'[u].pc = "settle" => u # new /\ task'[u] = task[u] /\ Live(u)
    BY <1>4, <1>7 DEF Live
  <2>2. QED
    BY <1>13, <2>1 DEF ManagerInv, FinishedIsDelivered, disk
<1>17. CompletedIsDelivered'
  BY <1>5 DEF ManagerInv, CompletedIsDelivered, disk
<1>18. QED
  BY <1>8, <1>10, <1>11, <1>12, <1>14, <1>15, <1>16, <1>17 DEF ManagerInv

\* A row is stopped, or one that has stopped is shown otherwise.
LEMMA RowStops ==
  ASSUME ManagerInv, NEW id \in Ids, NEW to \in {"paused", "cancelled"},
         status' = [status EXCEPT ![id] = to],
         IF Active(id) THEN tripped' = tripped \cup {gen[id]} ELSE tripped' = tripped,
         intent' \in [Ids -> Intents], resumable' \in [Ids -> BOOLEAN],
         scratch' \in [Ids -> SUBSET {"part", "control"}],
         UNCHANGED <<gen, known, nextGen, task, delivered>>
  PROVE  ManagerInv'
<1>1. tripped \subseteq tripped' /\ tripped' \subseteq Gens
  BY DEF ManagerInv, TypeOK, ActiveHasTask
<1>2. /\ status \in [Ids -> Statuses] /\ to \in Statuses \ ActiveStatuses
      /\ status'[id] = to
      /\ \A other \in Ids : other # id => status'[other] = status[other]
  BY DEF ManagerInv, TypeOK, Statuses, RowStatuses, ActiveStatuses
<1>3. TypeOK'
  BY <1>1, <1>2 DEF ManagerInv, TypeOK
<1>4. Generations' /\ RunLockIsExclusive'
  BY DEF ManagerInv, Generations, RunLockIsExclusive, HoldsRun, HoldsSlot, InEngine, Live
<1>5. ActiveHasTask'
  BY <1>2 DEF ManagerInv, ActiveHasTask, Live, Active
\* The task that owns the row was asked to stop before, or is now.
<1>6. \A u \in Gens : Live(u) /\ IsCurrent(u) /\ task[u].row = id => u \in tripped'
  BY <1>1 DEF ManagerInv, StoppedIsTripped, IsCurrent
<1>7. StoppedIsTripped'
  BY <1>1, <1>2, <1>6 DEF ManagerInv, StoppedIsTripped, Generations, Live, IsCurrent, Active
<1>8. RunningIsShown'
  <2>1. ASSUME NEW u \in Gens, task[u].pc = "run", IsCurrent(u), u \notin tripped'
        PROVE  status'[task[u].row] = "downloading"
    <3>1. Live(u)
      BY <2>1 DEF Live
    <3>2. task[u].row \in Ids /\ task[u].row # id
      BY <1>6, <2>1, <3>1 DEF ManagerInv, Generations
    <3>3. QED
      BY <1>1, <1>2, <2>1, <3>2 DEF ManagerInv, RunningIsShown
  <2>2. ASSUME NEW other \in Ids, status'[other] = "downloading"
        PROVE  task[gen[other]].pc \in {"run", "settle"}
    BY <1>2, <2>2 DEF ManagerInv, RunningIsShown, ActiveStatuses
  <2>3. QED
    BY <2>1, <2>2 DEF RunningIsShown, IsCurrent
<1>9. FinishedIsDelivered'
  BY DEF ManagerInv, FinishedIsDelivered, IsCurrent
<1>10. CompletedIsDelivered'
  BY <1>2 DEF ManagerInv, CompletedIsDelivered
<1>11. QED
  BY <1>3, <1>4, <1>5, <1>7, <1>8, <1>9, <1>10 DEF ManagerInv

\* A running row is asked to make way.
LEMMA RowIsAsked ==
  ASSUME ManagerInv, NEW id \in Ids, Active(id), tripped' = tripped \cup {gen[id]},
         intent' \in [Ids -> Intents],
         UNCHANGED <<status, resumable, gen, known, nextGen, task, disk>>
  PROVE  ManagerInv'
<1>1. tripped \subseteq tripped' /\ tripped' \subseteq Gens
  BY DEF ManagerInv, TypeOK, ActiveHasTask
<1>2. TypeOK'
  BY <1>1 DEF ManagerInv, TypeOK, disk
<1>3. Generations' /\ RunLockIsExclusive'
  BY DEF ManagerInv, Generations, RunLockIsExclusive, HoldsRun, HoldsSlot, InEngine, Live
<1>4. ActiveHasTask' /\ StoppedIsTripped'
  BY <1>1 DEF ManagerInv, ActiveHasTask, StoppedIsTripped, Live, Active, IsCurrent
<1>5. RunningIsShown'
  BY <1>1 DEF ManagerInv, RunningIsShown, IsCurrent
<1>6. FinishedIsDelivered' /\ CompletedIsDelivered'
  BY DEF ManagerInv, FinishedIsDelivered, CompletedIsDelivered, IsCurrent, disk
<1>7. QED
  BY <1>2, <1>3, <1>4, <1>5, <1>6 DEF ManagerInv

\* A row that has stopped leaves the list at once.
LEMMA RowLeaves ==
  ASSUME ManagerInv, NEW id \in Ids, ~Active(id), Forget(id),
         scratch' \in [Ids -> SUBSET {"part", "control"}],
         delivered \ {id} \subseteq delivered', delivered' \subseteq Ids,
         UNCHANGED <<tripped, nextGen, task>>
  PROVE  ManagerInv'
<1>1. /\ resumable' \in [Ids -> BOOLEAN] /\ intent' \in [Ids -> Intents]
      /\ known' \in [Ids -> BOOLEAN]
      /\ status' = [status EXCEPT ![id] = "gone"]
      /\ gen' = [gen EXCEPT ![id] = 0]
  BY ForgetType DEF ManagerInv
<1>2. /\ status'[id] = "gone" /\ gen'[id] = 0
      /\ \A other \in Ids : other # id =>
           status'[other] = status[other] /\ gen'[other] = gen[other]
  BY <1>1 DEF ManagerInv, TypeOK
<1>3. TypeOK'
  BY <1>1 DEF ManagerInv, TypeOK, Statuses
<1>4. Generations'
  BY <1>2 DEF ManagerInv, Generations, Live, Gens
<1>5. RunLockIsExclusive'
  BY DEF ManagerInv, RunLockIsExclusive, HoldsRun, HoldsSlot, InEngine
<1>6. ActiveHasTask'
  BY <1>2 DEF ManagerInv, ActiveHasTask, Live, Active, ActiveStatuses
\* A task that still owns a row owns another one.
<1>7. \A u \in Gens : Live(u) /\ IsCurrent(u)' =>
        IsCurrent(u) /\ task[u].row \in Ids /\ task[u].row # id
  BY <1>2 DEF ManagerInv, Generations, IsCurrent, Gens
<1>8. StoppedIsTripped'
  BY <1>2, <1>7 DEF ManagerInv, StoppedIsTripped, Live, Active
<1>9. RunningIsShown'
  <2>1. ASSUME NEW u \in Gens, task[u].pc = "run", IsCurrent(u)', u \notin tripped
        PROVE  status'[task[u].row] = "downloading"
    <3>1. Live(u)
      BY <2>1 DEF Live
    <3>2. QED
      BY <1>2, <1>7, <2>1, <3>1 DEF ManagerInv, RunningIsShown
  <2>2. ASSUME NEW other \in Ids, status'[other] = "downloading"
        PROVE  task[gen'[other]].pc \in {"run", "settle"}
    BY <1>2, <2>2 DEF ManagerInv, RunningIsShown
  <2>3. QED
    BY <2>1, <2>2 DEF RunningIsShown
<1>10. FinishedIsDelivered'
  <2>1. \A u \in Gens : task[u].pc = "settle" => Live(u)
    BY DEF Live
  <2>2. QED
    BY <1>7, <2>1 DEF ManagerInv, FinishedIsDelivered
<1>11. CompletedIsDelivered'
  BY <1>2 DEF ManagerInv, CompletedIsDelivered
<1>12. QED
  BY <1>3, <1>4, <1>5, <1>6, <1>8, <1>9, <1>10, <1>11 DEF ManagerInv

\* A download is added and queued.
LEMMA AddInv ==
  ASSUME ManagerInv, NEW id \in Ids, Add(id)
  PROVE  ManagerInv'
BY NewAttempt DEF Add

\* A download is added without being started.
LEMMA AddPausedInv ==
  ASSUME ManagerInv, NEW id \in Ids, AddPaused(id)
  PROVE  ManagerInv'
<1>1. ~Active(id)
  BY DEF AddPaused, Active, ActiveStatuses
<1>2. IF Active(id) THEN tripped' = tripped \cup {gen[id]} ELSE tripped' = tripped
  BY <1>1 DEF AddPaused
<1>3. /\ intent' \in [Ids -> Intents] /\ resumable' \in [Ids -> BOOLEAN]
      /\ scratch' \in [Ids -> SUBSET {"part", "control"}]
  BY DEF AddPaused, ManagerInv, TypeOK, disk
<1>4. QED
  BY <1>2, <1>3, RowStops DEF AddPaused, disk

\* A row is paused.
LEMMA PauseInv ==
  ASSUME ManagerInv, NEW id \in Ids, Pause(id)
  PROVE  ManagerInv'
<1>1. IF Active(id) THEN tripped' = tripped \cup {gen[id]} ELSE tripped' = tripped
  BY DEF Pause, Ask
<1>2. /\ intent' \in [Ids -> Intents] /\ resumable' \in [Ids -> BOOLEAN]
      /\ scratch' \in [Ids -> SUBSET {"part", "control"}]
  BY DEF Pause, Ask, ControlFound, Intents, ManagerInv, TypeOK, disk
<1>3. QED
  BY <1>1, <1>2, RowStops DEF Pause, disk

\* A row is started again.
LEMMA ResumeInv ==
  ASSUME ManagerInv, NEW id \in Ids, Resume(id)
  PROVE  ManagerInv'
BY NewAttempt DEF Resume

\* A row is cancelled.
LEMMA CancelInv ==
  ASSUME ManagerInv, NEW id \in Ids, Cancel(id)
  PROVE  ManagerInv'
<1>1. IF Active(id) THEN tripped' = tripped \cup {gen[id]} ELSE tripped' = tripped
  BY DEF Cancel, Ask
<1>2. scratch' \in [Ids -> SUBSET {"part", "control"}]
  BY DiscardType DEF Cancel, ManagerInv, TypeOK
<1>3. intent' \in [Ids -> Intents] /\ resumable' \in [Ids -> BOOLEAN]
  BY DEF Cancel, Ask, Intents, ManagerInv, TypeOK
<1>4. QED
  BY <1>1, <1>2, <1>3, RowStops DEF Cancel

\* A row is removed, or asked to stop for it.
LEMMA RemoveInv ==
  ASSUME ManagerInv, NEW id \in Ids, NEW why \in {"remove", "purge"}, Remove(id, why)
  PROVE  ManagerInv'
<1>1. CASE Active(id)
  <2>1. intent' \in [Ids -> Intents] /\ tripped' = tripped \cup {gen[id]}
    BY <1>1 DEF Remove, Ask, Intents, ManagerInv, TypeOK
  <2>2. QED
    BY <1>1, <2>1, RowIsAsked DEF Remove, disk
<1>2. CASE ~Active(id)
  <2>1. scratch' \in [Ids -> SUBSET {"part", "control"}]
    BY <1>2, DiscardType DEF Remove, ManagerInv, TypeOK
  <2>2. delivered \ {id} \subseteq delivered' /\ delivered' \subseteq Ids
    BY <1>2 DEF Remove, ManagerInv, TypeOK
  <2>3. QED
    BY <1>2, <2>1, <2>2, RowLeaves DEF Remove
<1>3. QED
  BY <1>1, <1>2

---------------------------------------------------------------------------
(* The process, and the theorem. *)

\* The process dies and comes back: no task lives and no row is active.
LEMMA RestartInv ==
  ASSUME ManagerInv, Restart
  PROVE  ManagerInv'
<1>1. \A t \in Gens : task'[t] = IF Live(t) THEN Ended ELSE task[t]
  BY DEF Restart
<1>2. Ended \in TaskRec /\ Ended.pc = "done"
  BY DEF Ended, TaskRec, TaskSteps, Outcomes
<1>3. \A t \in Gens :
        /\ task'[t].pc \in {"unborn", "done"}
        /\ task'[t].pc = "unborn" <=> task[t].pc = "unborn"
  BY <1>1, <1>2 DEF Live
<1>4. \A id \in Ids :
        /\ status'[id] \in Statuses \ ActiveStatuses
        /\ status'[id] = "completed" => status[id] = "completed"
        /\ gen'[id] = 0
  BY DEF Restart, Active, ManagerInv, TypeOK, Statuses, RowStatuses, ActiveStatuses
<1>5. TypeOK'
  <2>1. task' \in [Gens -> TaskRec]
    BY <1>2 DEF Restart, ManagerInv, TypeOK
  <2>2. status' \in [Ids -> Statuses]
    BY <1>4 DEF Restart
  <2>3. QED
    BY <2>1, <2>2 DEF Restart, ManagerInv, TypeOK, Intents, disk
<1>6. Generations'
  BY <1>3, <1>4 DEF Restart, ManagerInv, Generations, Live
<1>7. RunLockIsExclusive'
  BY <1>3 DEF RunLockIsExclusive, HoldsRun, HoldsSlot, InEngine
<1>8. ActiveHasTask' /\ StoppedIsTripped'
  BY <1>3, <1>4 DEF ActiveHasTask, StoppedIsTripped, Active, Live
<1>9. RunningIsShown' /\ FinishedIsDelivered'
  BY <1>3, <1>4 DEF RunningIsShown, FinishedIsDelivered, ActiveStatuses
<1>10. CompletedIsDelivered'
  BY <1>4 DEF Restart, ManagerInv, CompletedIsDelivered, disk
<1>11. QED
  BY <1>5, <1>6, <1>7, <1>8, <1>9, <1>10 DEF ManagerInv

\* The list starts empty.
LEMMA InitInv ==
  ASSUME Init
  PROVE  ManagerInv
<1>1. Unborn \in TaskRec /\ Unborn.pc = "unborn"
  BY DEF Unborn, TaskRec, TaskSteps, Outcomes
<1>2. \A t \in Gens : task[t].pc = "unborn"
  BY <1>1 DEF Init
<1>3. TypeOK
  BY <1>1, ManagerAssumption DEF Init, TypeOK, Statuses, RowStatuses, ActiveStatuses, Intents
<1>4. Generations
  BY <1>2 DEF Init, Generations, Live, Gens
<1>5. RunLockIsExclusive /\ ActiveHasTask /\ StoppedIsTripped
  BY <1>2 DEF Init, RunLockIsExclusive, HoldsRun, HoldsSlot, InEngine, ActiveHasTask,
     StoppedIsTripped, Active, ActiveStatuses, Live
<1>6. RunningIsShown /\ FinishedIsDelivered /\ CompletedIsDelivered
  BY <1>2 DEF Init, RunningIsShown, FinishedIsDelivered, CompletedIsDelivered
<1>7. QED
  BY <1>3, <1>4, <1>5, <1>6 DEF ManagerInv

\* A step that changes nothing.
LEMMA StutterInv ==
  ASSUME ManagerInv, UNCHANGED vars
  PROVE  ManagerInv'
BY DEF vars, ManagerInv, TypeOK, Generations, RunLockIsExclusive, ActiveHasTask,
   StoppedIsTripped, RunningIsShown, FinishedIsDelivered, CompletedIsDelivered,
   Active, IsCurrent, InEngine, HoldsSlot, HoldsRun, Live

\* Every step keeps the invariant.
LEMMA NextInv ==
  ASSUME ManagerInv, [Next]_vars
  PROVE  ManagerInv'
<1>1. CASE UNCHANGED vars
  BY <1>1, StutterInv
<1>2. ASSUME NEW id \in Ids, Command(id)
      PROVE  ManagerInv'
  <2>1. CASE Add(id)
    BY <2>1, AddInv
  <2>2. CASE AddPaused(id)
    BY <2>2, AddPausedInv
  <2>3. CASE Pause(id)
    BY <2>3, PauseInv
  <2>4. CASE Resume(id)
    BY <2>4, ResumeInv
  <2>5. CASE Cancel(id)
    BY <2>5, CancelInv
  <2>6. CASE \E why \in {"remove", "purge"} : Remove(id, why)
    BY <2>6, RemoveInv
  <2>7. QED
    BY <1>2, <2>1, <2>2, <2>3, <2>4, <2>5, <2>6 DEF Command
<1>3. ASSUME NEW t \in Gens, TaskStep(t)
      PROVE  ManagerInv'
  <2>1. CASE Arrive(t)
    BY <2>1, ArriveInv
  <2>2. CASE TakeLock(t)
    BY <2>2, TakeLockInv
  <2>3. CASE Check(t)
    BY <2>3, CheckInv
  <2>4. CASE TakeSlot(t)
    BY <2>4, TakeSlotInv
  <2>5. CASE Start(t)
    BY <2>5, StartInv
  <2>6. CASE EngineRefuses(t)
    BY <2>6, EngineRefusesInv
  <2>7. CASE EngineOpens(t)
    BY <2>7, EngineOpensInv
  <2>8. CASE OnStart(t)
    BY <2>8, OnStartInv
  <2>9. CASE EngineStops(t)
    BY <2>9, EngineStopsInv
  <2>10. CASE EngineFails(t)
    BY <2>10, EngineFailsInv
  <2>11. CASE EngineFinishes(t)
    BY <2>11, EngineFinishesInv
  <2>12. CASE Finalise(t)
    BY <2>12, FinaliseInv
  <2>13. QED
    BY <1>3, <2>1, <2>2, <2>3, <2>4, <2>5, <2>6, <2>7, <2>8, <2>9, <2>10, <2>11,
       <2>12 DEF TaskStep
<1>4. CASE Restart
  BY <1>4, RestartInv
<1>5. CASE Rest
  BY <1>5, StutterInv DEF Rest
<1>6. QED
  BY <1>1, <1>2, <1>3, <1>4, <1>5 DEF Next

\* The invariant of the download list holds in every state, for any number of
\* rows, slots and attempts, whatever commands and crashes fall between the steps
\* of the tasks.
THEOREM RowsAndTasksAgree == Spec => []ManagerInv
<1>1. Init => ManagerInv
  BY InitInv
<1>2. ManagerInv /\ [Next]_vars => ManagerInv'
  BY NextInv
<1>3. QED
  BY <1>1, <1>2, PTL DEF Spec

\* The variables of the list always have their types.
THEOREM ListIsTyped == Spec => []TypeOK
<1>1. ManagerInv => TypeOK
  BY DEF ManagerInv
<1>2. QED
  BY <1>1, RowsAndTasksAgree, PTL

\* No two engines ever work on the files of one row: the run lock of manager.rs
\* is held from before the engine starts until after its result is written.
THEOREM EnginesAreAlone == Spec => []OneEnginePerRow
<1>1. ManagerInv => OneEnginePerRow
  BY DEF ManagerInv, RunLockIsExclusive, OneEnginePerRow, HoldsRun, HoldsSlot
<1>2. QED
  BY <1>1, RowsAndTasksAgree, PTL

\* No row is shown as queued or downloading with no task behind it.
THEOREM NoRowIsAbandoned == Spec => []ActiveHasTask
<1>1. ManagerInv => ActiveHasTask
  BY DEF ManagerInv
<1>2. QED
  BY <1>1, RowsAndTasksAgree, PTL

\* A row shows that it is downloading when its engine runs, and only then.
THEOREM RowsShowWhatRuns == Spec => []RunningIsShown
<1>1. ManagerInv => RunningIsShown
  BY DEF ManagerInv
<1>2. QED
  BY <1>1, RowsAndTasksAgree, PTL

\* A row that is shown as completed has its file on disk.
THEOREM CompletedRowsHaveFiles == Spec => []CompletedIsDelivered
<1>1. ManagerInv => CompletedIsDelivered
  BY DEF ManagerInv
<1>2. QED
  BY <1>1, RowsAndTasksAgree, PTL

---------------------------------------------------------------------------
(* What superseded tasks may do. *)

\* A command changes no task that is there.
LEMMA CommandLeavesTasks ==
  ASSUME ManagerInv, NEW id \in Ids, Command(id), NEW t \in Gens, Live(t)
  PROVE  task'[t] = task[t]
<1>1. CASE UNCHANGED task
  BY <1>1
<1>2. CASE NewGeneration(id)
  <2>1. t # nextGen + 1
    BY <1>2, ManagerAssumption DEF NewGeneration, ManagerInv, TypeOK, Generations, Gens, Live
  <2>2. QED
    BY <1>2, <2>1 DEF NewGeneration, ManagerInv, TypeOK
<1>3. QED
  BY <1>1, <1>2 DEF Command, Add, AddPaused, Pause, Resume, Cancel, Remove

\* A step of a task changes no other task, and no status when it is superseded.
LEMMA GhostStep ==
  ASSUME ManagerInv, NEW t \in Gens, TaskStep(t)
  PROVE  /\ \A u \in Gens : u # t => task'[u] = task[u]
         /\ ~IsCurrent(t) => UNCHANGED <<status, resumable>>
<1>1. \A u \in Gens : u # t => task'[u] = task[u]
  BY DEF TaskStep, Arrive, TakeLock, Check, TakeSlot, Start, EngineRefuses, EngineOpens,
     OnStart, EngineStops, EngineFails, EngineFinishes, Finalise, Goes, Ends, Returns,
     ManagerInv, TypeOK
<1>2. ASSUME ~IsCurrent(t) PROVE UNCHANGED <<status, resumable>>
  BY <1>2 DEF TaskStep, Arrive, TakeLock, Check, TakeSlot, Start, EngineRefuses,
     EngineOpens, OnStart, EngineStops, EngineFails, EngineFinishes, Finalise, row
<1>3. QED
  BY <1>1, <1>2

\* A restart that shows in the list ends a task that is not superseded.
LEMMA RestartEndsCurrent ==
  ASSUME ManagerInv, Restart, NEW t \in Gens, ~IsCurrent(t),
         \A u \in Gens \ {t} : task'[u] = task[u]
  PROVE  UNCHANGED <<status, resumable>>
<1>1. ASSUME NEW id \in Ids, Active(id) PROVE FALSE
  <2>1. gen[id] \in Gens /\ Live(gen[id])
    BY <1>1 DEF ManagerInv, ActiveHasTask
  <2>2. task[gen[id]].row = id
    BY <2>1 DEF ManagerInv, Generations
  <2>3. gen[id] # t
    BY <2>2 DEF IsCurrent
  <2>4. task'[gen[id]] = Ended
    BY <2>1 DEF Restart
  <2>5. QED
    BY <2>1, <2>3, <2>4 DEF Live, Ended
<1>2. status' = [id \in Ids |-> status[id]] /\ UNCHANGED resumable
  BY <1>1 DEF Restart
<1>3. QED
  BY <1>2 DEF ManagerInv, TypeOK

\* What a task does after its row has been handed to another one does not show in
\* the list, however many attempts there were.
THEOREM GhostsAreQuiet == Spec => GhostsWriteNothing
<1> DEFINE Quiet == \A t \in Gens :
                      /\ Live(t) /\ ~IsCurrent(t)
                      /\ task'[t] # task[t] /\ \A u \in Gens \ {t} : task'[u] = task[u]
                      => UNCHANGED <<status, resumable>>
<1>1. ManagerInv /\ [Next]_vars => [Quiet]_vars
  <2> SUFFICES ASSUME ManagerInv, Next,
                      NEW t \in Gens, Live(t), ~IsCurrent(t), task'[t] # task[t],
                      \A u \in Gens \ {t} : task'[u] = task[u]
               PROVE  UNCHANGED <<status, resumable>>
    OBVIOUS
  <2>1. ASSUME NEW id \in Ids, Command(id) PROVE FALSE
    BY <2>1, CommandLeavesTasks
  <2>2. ASSUME NEW u \in Gens, TaskStep(u) PROVE UNCHANGED <<status, resumable>>
    BY <2>2, GhostStep
  <2>3. CASE Restart
    BY <2>3, RestartEndsCurrent
  <2>4. CASE Rest
    BY <2>4 DEF Rest, vars, row
  <2>5. QED
    BY <2>1, <2>2, <2>3, <2>4 DEF Next
<1>2. QED
  BY <1>1, RowsAndTasksAgree, PTL DEF Spec, GhostsWriteNothing

---------------------------------------------------------------------------
(* How a row may change. *)

\* A task that goes on, ends or settles writes to its own row only.
LEMMA TaskStepKeepsOthers ==
  ASSUME ManagerInv, NEW t \in Gens, TaskStep(t)
  PROVE  \A id \in Ids :
           /\ id # task[t].row => status'[id] = status[id] /\ gen'[id] = gen[id]
           /\ gen'[id] = gen[id] \/ gen'[id] = 0
<1>1. CASE UNCHANGED row
  BY <1>1 DEF row
<1>2. CASE Start(t)
  BY <1>2 DEF Start, StoppedBeforeStart, Forget, row, ManagerInv, TypeOK
<1>3. CASE OnStart(t)
  BY <1>3 DEF OnStart, row, ManagerInv, TypeOK
<1>4. CASE Finalise(t)
  BY <1>4 DEF Finalise, WriteEnd, Forget, Settle, row, ManagerInv, TypeOK
<1>5. QED
  BY <1>1, <1>2, <1>3, <1>4 DEF TaskStep, Arrive, TakeLock, Check, TakeSlot, EngineRefuses,
     EngineOpens, EngineStops, EngineFails, EngineFinishes

\* What a task whose row is still its own makes of it.
LEMMA OwnStepAwaits ==
  ASSUME ManagerInv, RowsAwaitTheirEnd, NEW t \in Gens, TaskStep(t),
         Live(t)', IsCurrent(t)'
  PROVE  /\ status'[task'[t].row] \in {"queued", "downloading", "paused", "cancelled"}
         /\ task'[t].pc = "run" \/ (task'[t].pc = "settle" /\ task'[t].outcome = "done") =>
              status'[task'[t].row] # "queued"
<1>1. CASE \/ Arrive(t) \/ TakeLock(t) \/ Check(t) \/ TakeSlot(t) \/ Start(t)
           \/ EngineOpens(t)
  <2>1. PICK step \in {"lock", "check", "slot", "ready", "probe", "opened"} : Goes(t, step)
    BY <1>1 DEF Arrive, TakeLock, Check, TakeSlot, Start, EngineOpens, Ends, Live, Ended,
       ManagerInv, TypeOK
  <2>2. /\ task'[t].pc = step /\ task'[t].row = task[t].row
    BY <2>1, GoesMoves DEF ManagerInv, TypeOK, TaskSteps
  <2>3. Live(t) /\ UNCHANGED <<status, gen>>
    BY <1>1, <2>2 DEF Arrive, TakeLock, Check, TakeSlot, Start, EngineOpens, Live, row, Ends,
       Ended, ManagerInv, TypeOK
  <2>4. QED
    BY <2>2, <2>3 DEF IsCurrent, RowsAwaitTheirEnd
<1>2. CASE EngineRefuses(t) \/ EngineStops(t) \/ EngineFails(t)
  <2>1. PICK outcome \in {"stopped", "failed"} : Returns(t, outcome)
    BY <1>2 DEF EngineRefuses, EngineStops, EngineFails
  <2>2. /\ task'[t].row = task[t].row /\ task'[t].outcome = outcome
        /\ task'[t].pc = "settle"
    BY <2>1, ReturnsMoves DEF ManagerInv, TypeOK, Outcomes
  <2>3. Live(t) /\ UNCHANGED <<status, gen>>
    BY <1>2 DEF EngineRefuses, EngineStops, EngineFails, Live, row
  <2>4. QED
    BY <2>2, <2>3 DEF IsCurrent, RowsAwaitTheirEnd
<1>3. CASE EngineFinishes(t)
  <2>1. task'[t].row = task[t].row
    BY <1>3, ReturnsMoves DEF EngineFinishes, ManagerInv, TypeOK, Outcomes
  <2>2. Live(t) /\ task[t].pc = "run" /\ UNCHANGED <<status, gen>>
    BY <1>3 DEF EngineFinishes, Live, row
  <2>3. QED
    BY <2>1, <2>2 DEF IsCurrent, RowsAwaitTheirEnd
<1>4. CASE OnStart(t)
  <2>1. task'[t].row = task[t].row /\ task'[t].pc = "run"
    BY <1>4, GoesMoves DEF OnStart, ManagerInv, TypeOK, TaskSteps
  <2>2. Live(t) /\ IsCurrent(t) /\ task[t].row \in Ids
    BY <1>4, <2>1 DEF OnStart, Live, IsCurrent, row, ManagerInv, Generations
  <2>3. status[task[t].row] \in {"queued", "downloading", "paused", "cancelled"}
    BY <2>2 DEF RowsAwaitTheirEnd
  <2>4. CASE Active(task[t].row)
    BY <1>4, <2>1, <2>2, <2>4 DEF OnStart, ManagerInv, TypeOK
  <2>5. CASE ~Active(task[t].row)
    BY <1>4, <2>1, <2>2, <2>3, <2>5 DEF OnStart, Active, ActiveStatuses
  <2>6. QED
    BY <2>4, <2>5
<1>5. CASE Finalise(t)
  BY <1>5 DEF Finalise, Ends, Live, Ended, ManagerInv, TypeOK
<1>6. QED
  BY <1>1, <1>2, <1>3, <1>4, <1>5 DEF TaskStep

LEMMA TaskStepAwaits ==
  ASSUME ManagerInv, RowsAwaitTheirEnd, NEW t \in Gens, TaskStep(t)
  PROVE  RowsAwaitTheirEnd'
<1> SUFFICES ASSUME NEW u \in Gens, Live(u)', IsCurrent(u)', u # t
             PROVE  /\ status'[task'[u].row] \in {"queued", "downloading", "paused", "cancelled"}
                    /\ task'[u].pc = "run" \/ (task'[u].pc = "settle" /\ task'[u].outcome = "done") =>
                         status'[task'[u].row] # "queued"
  BY OwnStepAwaits DEF RowsAwaitTheirEnd
<1>1. task'[u] = task[u]
  BY GhostStep
<1>2. Live(u) /\ task[u].row \in Ids
  BY <1>1 DEF Live, ManagerInv, Generations
<1>3. gen[task[u].row] = u
  BY <1>1, <1>2, TaskStepKeepsOthers DEF IsCurrent, Gens
<1>4. CASE task[u].row # task[t].row
  <2>1. status'[task[u].row] = status[task[u].row]
    BY <1>2, <1>4, TaskStepKeepsOthers
  <2>2. QED
    BY <1>1, <1>2, <1>3, <2>1 DEF IsCurrent, RowsAwaitTheirEnd
<1>5. CASE task[u].row = task[t].row
  <2>1. ~IsCurrent(t)
    BY <1>3, <1>5 DEF IsCurrent
  <2>2. UNCHANGED status
    BY <2>1, GhostStep
  <2>3. QED
    BY <1>1, <1>2, <1>3, <2>2 DEF IsCurrent, RowsAwaitTheirEnd
<1>6. QED
  BY <1>4, <1>5

LEMMA CommandAwaits ==
  ASSUME ManagerInv, RowsAwaitTheirEnd, NEW id \in Ids, Command(id)
  PROVE  RowsAwaitTheirEnd'
<1>1. CASE (Add(id) \/ Resume(id)) /\ NewGeneration(id)
  <2>1. /\ status' = [status EXCEPT ![id] = "queued"]
        /\ gen' = [gen EXCEPT ![id] = nextGen + 1]
        /\ task' = [task EXCEPT ![nextGen + 1] = [Unborn EXCEPT !.pc = "new", !.row = id]]
        /\ nextGen + 1 \in Gens
    BY <1>1, ManagerAssumption DEF Add, Resume, NewGeneration, ManagerInv, TypeOK, Gens
  <2>2. task'[nextGen + 1].pc = "new" /\ task'[nextGen + 1].row = id
    BY <2>1 DEF ManagerInv, TypeOK, Unborn
  <2>3. \A u \in Gens : u # nextGen + 1 => task'[u] = task[u]
    BY <2>1 DEF ManagerInv, TypeOK
  <2>4. ASSUME NEW u \in Gens, u # nextGen + 1, Live(u)', IsCurrent(u)'
        PROVE  Live(u) /\ IsCurrent(u) /\ status'[task[u].row] = status[task[u].row]
    <3>1. Live(u) /\ task[u].row \in Ids
      BY <2>3, <2>4 DEF Live, ManagerInv, Generations
    <3>2. task[u].row # id
      BY <2>1, <2>3, <2>4, <3>1 DEF IsCurrent, ManagerInv, TypeOK
    <3>3. QED
      BY <2>1, <2>3, <2>4, <3>1, <3>2 DEF IsCurrent, ManagerInv, TypeOK
  <2>5. QED
    BY <2>1, <2>2, <2>3, <2>4 DEF RowsAwaitTheirEnd, ManagerInv, TypeOK
<1>2. ASSUME UNCHANGED <<task, gen>>, NEW to \in {"paused", "cancelled"},
             status' = [status EXCEPT ![id] = to]
      PROVE  RowsAwaitTheirEnd'
  <2>1. \A u \in Gens : Live(u) => task[u].row \in Ids
    BY DEF ManagerInv, Generations
  <2>2. QED
    BY <1>2, <2>1 DEF RowsAwaitTheirEnd, Live, IsCurrent, ManagerInv, TypeOK
<1>3. CASE UNCHANGED <<task, gen, status>>
  BY <1>3 DEF RowsAwaitTheirEnd, Live, IsCurrent
<1>4. CASE UNCHANGED task /\ Forget(id)
  <2>1. \A u \in Gens : Live(u) => task[u].row \in Ids
    BY DEF ManagerInv, Generations
  <2>2. \A u \in Gens : Live(u)' /\ IsCurrent(u)' =>
          Live(u) /\ IsCurrent(u) /\ status'[task[u].row] = status[task[u].row]
    BY <1>4, <2>1 DEF Forget, Live, IsCurrent, Gens, ManagerInv, TypeOK
  <2>3. QED
    BY <1>4, <2>2 DEF RowsAwaitTheirEnd
<1>5. CASE AddPaused(id) \/ Pause(id) \/ Cancel(id)
  BY <1>2, <1>5 DEF AddPaused, Pause, Cancel, Ask
<1>6. CASE \E why \in {"remove", "purge"} : Remove(id, why)
  BY <1>3, <1>4, <1>6 DEF Remove
<1>7. QED
  BY <1>1, <1>5, <1>6 DEF Command, Add, Resume

\* A task whose row is its own writes what may follow.
LEMMA TaskStepFollows ==
  ASSUME ManagerInv, RowsAwaitTheirEnd, NEW t \in Gens, TaskStep(t),
         NEW id \in Ids, status'[id] # status[id]
  PROVE  status'[id] \in Follows(status[id])
<1>1. id = task[t].row /\ IsCurrent(t)
  BY TaskStepKeepsOthers, GhostStep
<1>2. CASE OnStart(t)
  <2>1. status'[id] = "downloading" /\ Active(id)
    BY <1>1, <1>2 DEF OnStart, ManagerInv, TypeOK
  <2>2. QED
    BY <2>1 DEF Active, ActiveStatuses, Follows
<1>3. CASE Start(t)
  <2>1. status'[id] = "gone" /\ Live(t)
    BY <1>1, <1>3 DEF Start, StoppedBeforeStart, Forget, row, Live, ManagerInv, TypeOK
  <2>2. status[id] \in {"queued", "downloading", "paused", "cancelled"}
    BY <1>1, <2>1 DEF RowsAwaitTheirEnd
  <2>3. QED
    BY <2>1, <2>2 DEF Follows
<1>4. CASE Finalise(t)
  <2>1. Live(t) /\ task[t].pc = "settle" /\ WriteEnd(t)
    BY <1>1, <1>4 DEF Finalise, Live, row
  <2>2. /\ status[id] \in {"queued", "downloading", "paused", "cancelled"}
        /\ task[t].outcome = "done" => status[id] # "queued"
    BY <1>1, <2>1 DEF RowsAwaitTheirEnd
  <2>3. \/ status'[id] \in {"gone", "failed", "paused"}
        \/ status'[id] = "completed" /\ task[t].outcome = "done"
        \/ status'[id] = "cancelled"
    BY <1>1, <2>1 DEF WriteEnd, Forget, Settle, ManagerInv, TypeOK
  <2>4. QED
    BY <2>2, <2>3 DEF Follows
<1>5. CASE UNCHANGED row
  BY <1>5 DEF row
<1>6. QED
  BY <1>2, <1>3, <1>4, <1>5 DEF TaskStep, Arrive, TakeLock, Check, TakeSlot,
     EngineRefuses, EngineOpens, EngineStops, EngineFails, EngineFinishes

LEMMA CommandFollows ==
  ASSUME ManagerInv, NEW id \in Ids, Command(id), NEW r \in Ids, status'[r] # status[r]
  PROVE  status'[r] \in Follows(status[r])
<1>1. CASE Add(id) \/ AddPaused(id)
  BY <1>1 DEF Add, AddPaused, Follows, ManagerInv, TypeOK
<1>2. CASE Pause(id)
  BY <1>2 DEF Pause, Active, ActiveStatuses, Follows, ManagerInv, TypeOK
<1>3. CASE Resume(id)
  BY <1>3 DEF Resume, Follows, ManagerInv, TypeOK
<1>4. CASE Cancel(id)
  <2>1. r = id /\ status'[r] = "cancelled" /\ status[r] \in RowStatuses
    BY <1>4 DEF Cancel, Present, ManagerInv, TypeOK
  <2>2. QED
    BY <2>1 DEF Follows, RowStatuses, ActiveStatuses
<1>5. CASE \E why \in {"remove", "purge"} : Remove(id, why)
  <2>1. r = id /\ status'[r] = "gone" /\ status[r] \in RowStatuses
    BY <1>5 DEF Remove, Forget, Present, ManagerInv, TypeOK
  <2>2. QED
    BY <2>1 DEF Follows, RowStatuses, ActiveStatuses
<1>6. QED
  BY <1>1, <1>2, <1>3, <1>4, <1>5 DEF Command

\* A row whose attempt lives has no result yet.
THEOREM RowsAwait == Spec => []RowsAwaitTheirEnd
<1>1. Init => RowsAwaitTheirEnd
  BY DEF Init, RowsAwaitTheirEnd, Live, Unborn
<1>2. ManagerInv /\ RowsAwaitTheirEnd /\ [Next]_vars => RowsAwaitTheirEnd'
  <2> SUFFICES ASSUME ManagerInv, RowsAwaitTheirEnd, [Next]_vars
               PROVE  RowsAwaitTheirEnd'
    OBVIOUS
  <2>1. CASE Restart
    BY <2>1 DEF Restart, RowsAwaitTheirEnd, IsCurrent, Live, Ended, Gens, ManagerInv, TypeOK
  <2>2. CASE UNCHANGED vars
    BY <2>2 DEF vars, RowsAwaitTheirEnd, IsCurrent, Live
  <2>3. QED
    BY <2>1, <2>2, CommandAwaits, TaskStepAwaits DEF Next, Rest
<1>3. QED
  BY <1>1, <1>2, RowsAndTasksAgree, PTL DEF Spec

\* A row turns only into what may follow: a completed row is never downloaded
\* again, a row is completed only by an attempt that ran under it, and a failed
\* one changes only when the user says so.
THEOREM RowsFollowTheirLife == Spec => LifeCycle
<1>1. ManagerInv /\ RowsAwaitTheirEnd /\ [Next]_vars =>
        [\A id \in Ids : status'[id] # status[id] => status'[id] \in Follows(status[id])]_vars
  <2> SUFFICES ASSUME ManagerInv, RowsAwaitTheirEnd, Next,
                      NEW id \in Ids, status'[id] # status[id]
               PROVE  status'[id] \in Follows(status[id])
    OBVIOUS
  <2>1. CASE Restart
    BY <2>1 DEF Restart, Active, ActiveStatuses, Follows, ManagerInv, TypeOK
  <2>2. CASE Rest
    BY <2>2 DEF Rest, vars
  <2>3. QED
    BY <2>1, <2>2, CommandFollows, TaskStepFollows DEF Next
<1>2. QED
  BY <1>1, RowsAndTasksAgree, RowsAwait, PTL DEF Spec, LifeCycle
---------------------------------------------------------------------------
(* Partial data. *)

\* Deleting the scratch files of one row leaves those of the others.
LEMMA DiscardIsOwn ==
  ASSUME TypeOK, NEW id \in Ids, NEW other \in Ids, Discard(id), scratch'[other] # scratch[other]
  PROVE  other = id
BY DEF Discard, TypeOK

\* A command deletes the partial data of a row it cancels or removes.
LEMMA CommandKeepsData ==
  ASSUME ManagerInv, NEW cmd \in Ids, Command(cmd), NEW id \in Ids,
         scratch'[id] # scratch[id]
  PROVE  status'[id] \in {"cancelled", "gone"}
<1>. TypeOK
  BY DEF ManagerInv
<1>1. CASE Cancel(cmd)
  <2>1. Discard(cmd) /\ status' = [status EXCEPT ![cmd] = "cancelled"]
    BY <1>1 DEF Cancel
  <2>2. QED
    BY <2>1, DiscardIsOwn DEF TypeOK
<1>2. CASE \E why \in {"remove", "purge"} : Remove(cmd, why)
  <2>1. Discard(cmd) /\ status' = [status EXCEPT ![cmd] = "gone"]
    BY <1>2 DEF Remove, Forget, disk
  <2>2. QED
    BY <2>1, DiscardIsOwn DEF TypeOK
<1>3. QED
  BY <1>1, <1>2 DEF Command, Add, AddPaused, Pause, Resume, disk

\* The attempt of a row whose files change in a step of its engine, and whose
\* engine has returned with that step.
LEMMA EngineEndsWithData ==
  ASSUME TypeOK, NEW t \in Gens, InEngine(t), NEW outcome, Returns(t, outcome)
  PROVE  ~InEngine(t)'
BY DEF Returns, InEngine, TypeOK, TaskRec

\* A task gives up partial data for the finished file, for a cancel or a removal,
\* or because its engine has started afresh and returned without files.
LEMMA TaskKeepsData ==
  ASSUME ManagerInv, NEW t \in Gens, TaskStep(t), NEW id \in Ids,
         "control" \in scratch[id], "control" \notin scratch'[id]
  PROVE  \/ id \in delivered'
         \/ status'[id] \in {"cancelled", "gone"}
         \/ InEngine(t) /\ task[t].row = id /\ ~InEngine(t)'
<1>. TypeOK /\ scratch'[id] # scratch[id]
  BY DEF ManagerInv
<1>1. Live(t) /\ task[t].row \in Ids
  <2>1. task[t].pc \notin {"unborn", "done"}
    BY DEF TaskStep, Arrive, TakeLock, Check, TakeSlot, Start, EngineRefuses,
       EngineOpens, OnStart, EngineStops, EngineFails, EngineFinishes, Finalise
  <2>2. QED
    BY <2>1 DEF Live, ManagerInv, Generations
<1>2. CASE EngineRefuses(t) \/ EngineFails(t) \/ EngineFinishes(t)
  <2>1. InEngine(t) /\ ~InEngine(t)'
    BY <1>2, EngineEndsWithData DEF EngineRefuses, EngineFails, EngineFinishes, InEngine
  <2>2. task[t].row = id
    BY <1>1, <1>2 DEF EngineRefuses, EngineFails, EngineFinishes, TypeOK
  <2>3. QED
    BY <2>1, <2>2
<1>3. CASE EngineOpens(t) \/ EngineStops(t)
  BY <1>1, <1>3 DEF EngineOpens, EngineStops, TypeOK
<1>4. CASE Start(t)
  <2>1. Discard(task[t].row) /\ status' = [status EXCEPT ![task[t].row] = "gone"]
    BY <1>4 DEF Start, StoppedBeforeStart, Forget, disk
  <2>2. QED
    BY <1>1, <2>1, DiscardIsOwn DEF TypeOK
<1>5. CASE Finalise(t)
  <2>1. WriteEnd(t) /\ scratch' # scratch
    BY <1>5 DEF Finalise, disk
  <2>2. /\ Discard(task[t].row)
        /\ \/ status' = [status EXCEPT ![task[t].row] = "gone"]
           \/ status' = [status EXCEPT ![task[t].row] = "cancelled"]
    BY <2>1 DEF WriteEnd, Forget, Settle, disk
  <2>3. QED
    BY <1>1, <2>2, DiscardIsOwn DEF TypeOK
<1>6. QED
  BY <1>2, <1>3, <1>4, <1>5 DEF TaskStep, Arrive, TakeLock, Check, TakeSlot, OnStart, disk

\* The manager deletes partial data only when the file is finished or the user
\* cancels or removes the row: not for a pause, not for a failure that is settled, not
\* at a restart, and never that of another row.
THEOREM PartialDataStays == Spec => PartialDataIsKept
<1>1. ManagerInv /\ [Next]_vars =>
        [\A id \in Ids :
           "control" \in scratch[id] /\ "control" \notin scratch'[id] =>
             \/ id \in delivered'
             \/ status'[id] \in {"cancelled", "gone"}
             \/ \E t \in Gens : InEngine(t) /\ task[t].row = id /\ ~InEngine(t)']_vars
  <2> SUFFICES ASSUME ManagerInv, Next, NEW id \in Ids,
                      "control" \in scratch[id], "control" \notin scratch'[id]
               PROVE  \/ id \in delivered'
                      \/ status'[id] \in {"cancelled", "gone"}
                      \/ \E t \in Gens : InEngine(t) /\ task[t].row = id /\ ~InEngine(t)'
    OBVIOUS
  <2>1. ~Restart /\ ~Rest
    BY DEF Restart, Rest, disk, vars
  <2>2. CASE \E cmd \in Ids : Command(cmd)
    BY <2>2, CommandKeepsData
  <2>3. CASE \E t \in Gens : TaskStep(t)
    BY <2>3, TaskKeepsData
  <2>4. QED
    BY <2>1, <2>2, <2>3 DEF Next
<1>2. QED
  BY <1>1, RowsAndTasksAgree, PTL DEF Spec, PartialDataIsKept
=============================================================================
