-------------------------------- MODULE Store --------------------------------
(***************************************************************************)
(* The list on disk (crates/fdm-manager/src/store.rs) and the saves of it  *)
(* that the manager's threads make: a copy of the list is taken under the  *)
(* lock of the registry and written after the lock is released, first to a *)
(* temporary file that is renamed over the list, and in place when the     *)
(* rename will not go through.                                             *)
(*                                                                         *)
(* Any number of threads save at once and share the temporary file.  A     *)
(* file is a name: a writer that has it open follows it through a rename.  *)
(***************************************************************************)
EXTENDS Naturals, FiniteSets

CONSTANTS
  Savers,     \* threads that change the list and save it
  MaxId,      \* bound on the ids handed out
  MaxChanges  \* bound on the changes

ASSUME StoreAssumption ==
  /\ MaxId \in Nat
  /\ MaxChanges \in Nat

Ids == 1 .. MaxId
RowStates == {"none", "active", "stopped"}

\* A list: its rows, the next id, and the number of changes that led to it.
List == [version : Nat, next : 1 .. MaxId + 1, rows : [Ids -> RowStates]]
EmptyList == [version |-> 0, next |-> 1, rows |-> [id \in Ids |-> "none"]]

\* "empty" is a file that has been opened for writing, "torn" one that holds
\* parts of two lists.
FileStates == {"missing", "empty", "torn", "whole"}
File == [state : FileStates, list : List]
NoFile == [state |-> "missing", list |-> EmptyList]

\* What a saver does next: copy the list, open the temporary file, write it,
\* rename it, open the list itself, write it, delete the temporary file.
SaverSteps ==
  {"idle", "changed", "copied", "opened", "written", "refused", "inplace", "clean"}

\* It has begun to write.
AtWork == {"opened", "written", "refused", "inplace", "clean"}

NoSaver == "no saver"

VARIABLES
  mem,     \* the list in memory
  holder,  \* saver that keeps the registry's lock while it saves
  pc,      \* what each saver does next
  copy,    \* the list each saver writes
  hand,    \* the file each saver has open, by its present name
  main,    \* downloads.json
  tmp,     \* downloads.json.tmp
  acked,   \* history: latest version whose save has succeeded
  dropped, \* history: ids whose removal is in such a version
  used,    \* history: ids that have been in such a version
  crossed, \* history: two saves have crossed
  streak   \* history: mishaps since a save has succeeded, 3 once there were three

files == <<hand, main, tmp>>
history == <<acked, dropped, used>>
luck == <<crossed, streak>>
vars == <<mem, holder, pc, copy, hand, main, tmp, acked, dropped, used, crossed, streak>>

Init ==
  /\ mem = EmptyList
  /\ holder = NoSaver
  /\ pc = [s \in Savers |-> "idle"]
  /\ copy = [s \in Savers |-> EmptyList]
  /\ hand = [s \in Savers |-> "none"]
  /\ main = NoFile
  /\ tmp = NoFile
  /\ acked = 0
  /\ dropped = {}
  /\ used = {}
  /\ crossed = FALSE
  /\ streak = 0

IdsOf(list) == {id \in Ids : list.rows[id] # "none"}

---------------------------------------------------------------------------
(* Changes, under the registry's lock. *)

Added(list) ==
  [list EXCEPT !.version = @ + 1, !.next = @ + 1, !.rows[list.next] = "active"]

Changed(list, id, to) == [list EXCEPT !.version = @ + 1, !.rows[id] = to]

\* The lists one operation away: a row is added, its status changes, it goes.
Successors(list) ==
  (IF list.next \in Ids THEN {Added(list)} ELSE {}) \cup
  {Changed(list, id, to) : id \in IdsOf(list), to \in RowStates}

\* Most operations change the list, let go of the lock and send their event
\* before they copy the list under the lock again.
Change(s) ==
  /\ pc[s] = "idle" /\ holder = NoSaver
  /\ mem.version < MaxChanges
  /\ mem' \in Successors(mem)
  /\ pc' = [pc EXCEPT ![s] = "changed"]
  /\ UNCHANGED <<holder, copy, files, history, luck>>

Copy(s) ==
  /\ pc[s] = "changed" /\ holder = NoSaver
  /\ copy' = [copy EXCEPT ![s] = mem]
  /\ pc' = [pc EXCEPT ![s] = "copied"]
  /\ UNCHANGED <<mem, holder, files, history, luck>>

\* A row that is removed before its task has started: the lock is kept until the
\* list is saved.
ChangeLocked(s) ==
  /\ pc[s] = "idle" /\ holder = NoSaver
  /\ mem.version < MaxChanges
  /\ \E id \in IdsOf(mem) : mem' = Changed(mem, id, "none")
  /\ holder' = s
  /\ copy' = [copy EXCEPT ![s] = mem']
  /\ pc' = [pc EXCEPT ![s] = "copied"]
  /\ UNCHANGED <<files, history, luck>>

---------------------------------------------------------------------------
(* A save. *)

Whole(list) == [state |-> "whole", list |-> list]
Opened(file) == [file EXCEPT !.state = "empty"]

\* What a file may hold after a list is written to it from its beginning.
Outcomes(file, list) ==
  {Whole(list)} \cup
  (IF file.state \in {"torn", "whole"} THEN {[file EXCEPT !.state = "torn"]} ELSE {})

\* The save is over; a lock that was kept is free again.
Ends(s) ==
  /\ pc' = [pc EXCEPT ![s] = "idle"]
  /\ hand' = [hand EXCEPT ![s] = "none"]
  /\ holder' = IF holder = s THEN NoSaver ELSE holder

Succeeds(s) ==
  LET list == copy[s]
  IN  /\ acked' = IF list.version > acked THEN list.version ELSE acked
      /\ used' = used \cup IdsOf(list)
      /\ dropped' = (dropped \cup used) \ IdsOf(list)
      /\ streak' = IF streak < 3 THEN 0 ELSE 3

\* A crash, a refused rename or a failed write.
Mishap == streak' = IF streak < 3 THEN streak + 1 ELSE 3

\* Nothing orders the saves: one may begin inside another, or write a list that was
\* copied before the one saved last.
Crosses(s) == (\E u \in Savers : pc[u] \in AtWork) \/ copy[s].version < acked

OpenTmp(s) ==
  /\ pc[s] = "copied"
  /\ tmp' = Opened(tmp)
  /\ hand' = [hand EXCEPT ![s] = "tmp"]
  /\ pc' = [pc EXCEPT ![s] = "opened"]
  /\ crossed' = (crossed \/ Crosses(s))
  /\ UNCHANGED <<mem, holder, copy, main, history, streak>>

\* The list goes to the file that was opened, whatever it is called by now.
WriteTmp(s) ==
  /\ pc[s] = "opened"
  /\ CASE hand[s] = "tmp"  -> tmp' \in Outcomes(tmp, copy[s]) /\ UNCHANGED main
       [] hand[s] = "main" -> main' \in Outcomes(main, copy[s]) /\ UNCHANGED tmp
       [] OTHER            -> UNCHANGED <<main, tmp>>
  /\ hand' = [hand EXCEPT ![s] = "none"]
  /\ pc' = [pc EXCEPT ![s] = "written"]
  /\ UNCHANGED <<mem, holder, copy, history, luck>>

\* Mutant: the rename is taken to have worked.
RenameUnchecked(s) ==
  /\ pc[s] = "written"
  /\ \/ tmp.state # "missing" /\ main' = tmp /\ tmp' = NoFile
     \/ UNCHANGED <<main, tmp>>
  /\ Ends(s)
  /\ Succeeds(s)
  /\ UNCHANGED <<mem, copy, crossed>>

\* The temporary file takes the place of the list, whoever wrote it last.
Rename(s) ==
  /\ pc[s] = "written"
  /\ tmp.state # "missing"
  /\ main' = tmp
  /\ tmp' = NoFile
  /\ pc' = [pc EXCEPT ![s] = "idle"]
  /\ hand' = [u \in Savers |-> CASE hand[u] = "tmp"  -> "main"
                                 [] hand[u] = "main" -> "lost"
                                 [] OTHER            -> hand[u]]
  /\ holder' = IF holder = s THEN NoSaver ELSE holder
  /\ Succeeds(s)
  /\ UNCHANGED <<mem, copy, crossed>>

\* Every attempt to rename was refused, or another saver has renamed the file.
RenameRefused(s) ==
  /\ pc[s] = "written"
  /\ IF tmp.state = "missing" THEN UNCHANGED streak ELSE Mishap
  /\ pc' = [pc EXCEPT ![s] = "refused"]
  /\ UNCHANGED <<mem, holder, copy, files, history, crossed>>

OpenMain(s) ==
  /\ pc[s] = "refused"
  /\ main' = Opened(main)
  /\ hand' = [hand EXCEPT ![s] = "main"]
  /\ pc' = [pc EXCEPT ![s] = "inplace"]
  /\ UNCHANGED <<mem, holder, copy, tmp, history, luck>>

WriteMain(s) ==
  /\ pc[s] = "inplace"
  /\ IF hand[s] = "main" THEN main' \in Outcomes(main, copy[s]) ELSE UNCHANGED main
  /\ hand' = [hand EXCEPT ![s] = "none"]
  /\ pc' = [pc EXCEPT ![s] = "clean"]
  /\ UNCHANGED <<mem, holder, copy, tmp, history, luck>>

\* The temporary file goes when the list has been written in place.
Clean(s) ==
  /\ pc[s] = "clean"
  /\ tmp' = NoFile
  /\ pc' = [pc EXCEPT ![s] = "idle"]
  /\ hand' = [u \in Savers |-> IF hand[u] = "tmp" THEN "lost" ELSE hand[u]]
  /\ holder' = IF holder = s THEN NoSaver ELSE holder
  /\ Succeeds(s)
  /\ UNCHANGED <<mem, copy, main, crossed>>

\* A write fails for good: an error in the log, and the save is over.
GiveUp(s) ==
  /\ pc[s] \in {"copied", "opened", "refused", "inplace"}
  /\ Mishap
  /\ Ends(s)
  /\ UNCHANGED <<mem, copy, main, tmp, history, crossed>>

---------------------------------------------------------------------------
(* Restart. *)

\* Mutant: only the list itself is looked at.
ReadMain == IF main.state = "whole" THEN main.list ELSE EmptyList

\* The list, or the temporary file when the list cannot be read.
Read ==
  CASE main.state = "whole" -> main.list
    [] main.state # "whole" /\ tmp.state = "whole" -> tmp.list
    [] OTHER -> EmptyList

\* Mutant: the next id is one more than the highest that is still there.
LoadedAfresh(list) ==
  LET present == IdsOf(list)
  IN  [list EXCEPT
         !.next = CHOOSE n \in 1 .. MaxId + 1 :
                    /\ \A id \in present : id < n
                    /\ n = 1 \/ n - 1 \in present,
         !.rows = [id \in Ids |-> IF list.rows[id] = "active" THEN "stopped" ELSE list.rows[id]]]

\* Mutant: an id is skipped at every start.
LoadedNext(list) ==
  [list EXCEPT
     !.next = @ + 1,
     !.rows = [id \in Ids |-> IF list.rows[id] = "active" THEN "stopped" ELSE list.rows[id]]]

\* Nothing runs after a restart.  The next id is the saved one, or one more than
\* the highest id when that is larger, which no list of ours makes it.
Loaded(list) ==
  [list EXCEPT
     !.rows = [id \in Ids |-> IF list.rows[id] = "active" THEN "stopped" ELSE list.rows[id]]]

\* The process dies, in the middle of any step, and is started again.
Restart ==
  /\ Mishap
  /\ mem' = Loaded(Read)
  /\ holder' = NoSaver
  /\ pc' = [s \in Savers |-> "idle"]
  /\ hand' = [s \in Savers |-> "none"]
  /\ UNCHANGED <<copy, main, tmp, history, crossed>>

SaverStep(s) ==
  \/ Change(s) \/ Copy(s) \/ ChangeLocked(s) \/ OpenTmp(s) \/ WriteTmp(s)
  \/ Rename(s) \/ RenameRefused(s) \/ OpenMain(s) \/ WriteMain(s) \/ Clean(s)
  \/ GiveUp(s)

Next == Restart \/ \E s \in Savers : SaverStep(s)

Spec == Init /\ [][Next]_vars

---------------------------------------------------------------------------
(* Properties. *)

TypeOK ==
  /\ mem \in List
  /\ holder \in Savers \cup {NoSaver}
  /\ pc \in [Savers -> SaverSteps]
  /\ copy \in [Savers -> List]
  /\ hand \in [Savers -> {"none", "tmp", "main", "lost"}]
  /\ main \in File
  /\ tmp \in File
  /\ acked \in Nat
  /\ dropped \subseteq Ids
  /\ used \subseteq Ids
  /\ crossed \in BOOLEAN
  /\ streak \in 0 .. 3

\* Every save so far has been made on its own, and of any three mishaps a save
\* has succeeded in between.
Calm == ~crossed /\ streak < 3

\* "This is how a deleted download used to come back after a restart": a download
\* whose removal has been saved does not come back.
RemovedAreGone == \A id \in dropped : mem.rows[id] = "none"

\* It takes two saves that cross, or three mishaps in a row, to bring a removed
\* download back: the temporary file and the fallback make up for two.
RemovedStaysRemoved == Calm => RemovedAreGone

\* Nothing less makes the manager give the id of a saved download, removed and
\* restarted though it may be, to another one: clients hold ids across restarts.
IdsAreFresh == Calm => \A id \in used : mem.next > id

\* The saves implement the promise: a process that starts reads the list of the
\* latest save that succeeded, or a newer one, and a half-written list is never
\* all there is, until the saves cross or the third mishap in a row.
Durable ==
  INSTANCE DurableList WITH current <- mem.version, promised <- acked, void <- ~Calm
ImplementsDurableList == Durable!Spec
=============================================================================
