----------------------------- MODULE StoreProofs -----------------------------
(***************************************************************************)
(* Proofs about module Store, for any number of threads that save whenever *)
(* they like: its types, and that a start reads the list of the latest     *)
(* save that succeeded, or a newer one, until two saves have crossed or    *)
(* three mishaps have followed each other.                                 *)
(***************************************************************************)
EXTENDS Store, TLAPS

\* Ids are handed out in order.
BelowNext(list) == \A id \in Ids : list.rows[id] # "none" => id < list.next

\* The second list came from the first: no id that had gone is back.
Precedes(old, new) ==
  /\ old.version <= new.version
  /\ old.next <= new.next
  /\ old.version = new.version => old = new
  /\ \A id \in Ids : old.rows[id] = "none" /\ id < old.next => new.rows[id] = "none"

\* A list that a start may read: no older than what was promised, no newer than the
\* one in memory, and it knows of every id that was promised.
Sound(list) ==
  /\ acked <= list.version /\ list.version <= mem.version
  /\ \A id \in used : id < list.next
  /\ \A id \in dropped : list.rows[id] = "none"

MidSave == {"copied"} \cup AtWork

\* The lists that are being saved are stages of the one in memory.
ListsInv ==
  /\ BelowNext(mem) /\ BelowNext(main.list) /\ BelowNext(tmp.list)
  /\ dropped \subseteq used
  /\ \A s \in Savers :
       pc[s] \in MidSave => BelowNext(copy[s]) /\ Precedes(copy[s], mem)
  /\ \A s, u \in Savers :
       pc[s] \in MidSave /\ pc[u] \in MidSave /\ copy[s].version <= copy[u].version
         => Precedes(copy[s], copy[u])

\* What a saver has done so far is in the files.
InStep(s) ==
  /\ pc[s] \in AtWork => acked <= copy[s].version
  /\ pc[s] = "opened" => hand[s] = "tmp" /\ tmp.state = "empty"
  /\ pc[s] \in {"written", "refused", "inplace"} => tmp = Whole(copy[s])
  /\ pc[s] = "refused" => streak > 0
  /\ pc[s] = "inplace" => hand[s] = "main" /\ main.state = "empty" /\ streak > 0
  /\ pc[s] = "clean" => main = Whole(copy[s])

\* It takes a refused rename to touch the list in place, a second mishap to leave it
\* torn, and a third to lose the temporary file as well.
SavesInv ==
  /\ \A s, u \in Savers : pc[s] \in AtWork /\ pc[u] \in AtWork => s = u
  /\ \A s \in Savers : InStep(s)
  /\ \A s \in Savers : pc[s] \in MidSave /\ acked <= copy[s].version => Sound(copy[s])
  /\ Sound(mem)
  /\ streak <= 1 => Sound(Read)
  /\ streak <= 1 => \/ main.state = "whole" \/ Sound(EmptyList)
                    \/ \E s \in Savers : pc[s] = "inplace"

StoreInv == TypeOK /\ ListsInv /\ (Calm => SavesInv)

---------------------------------------------------------------------------
(* Lists and files. *)

LEMMA ListFields ==
  ASSUME NEW list \in List
  PROVE  /\ list.version \in Nat
         /\ list.next \in 1 .. MaxId + 1
         /\ list.rows \in [Ids -> RowStates]
BY DEF List

LEMMA EmptyListType == EmptyList \in List /\ NoFile \in File
BY StoreAssumption DEF EmptyList, List, RowStates, Ids, NoFile, File, FileStates

LEMMA AddedType ==
  ASSUME NEW list \in List, list.next \in Ids
  PROVE  /\ Added(list) \in List
         /\ Added(list).version = list.version + 1
         /\ Added(list).next = list.next + 1
         /\ Added(list).rows[list.next] = "active"
         /\ \A id \in Ids \ {list.next} : Added(list).rows[id] = list.rows[id]
<1> DEFINE rows == [list.rows EXCEPT ![list.next] = "active"]
<1>1. Added(list) = [version |-> list.version + 1, next |-> list.next + 1, rows |-> rows]
  <2>1. list = [version |-> list.version, next |-> list.next, rows |-> list.rows]
    BY DEF List
  <2>2. Added(list) =
          [[version |-> list.version, next |-> list.next, rows |-> list.rows]
             EXCEPT !.version = @ + 1, !.next = @ + 1, !.rows = rows]
    BY <2>1, Zenon DEF Added
  <2>3. QED
    BY <2>2
<1>2. list.version + 1 \in Nat /\ list.next + 1 \in 1 .. MaxId + 1
  BY ListFields, StoreAssumption DEF Ids
<1>3. rows \in [Ids -> RowStates]
  BY ListFields DEF RowStates
<1>4. /\ rows[list.next] = "active"
      /\ \A id \in Ids \ {list.next} : rows[id] = list.rows[id]
  BY ListFields
<1> HIDE DEF rows
<1>5. QED
  BY <1>1, <1>2, <1>3, <1>4 DEF List

LEMMA ChangedType ==
  ASSUME NEW list \in List, NEW id \in Ids, NEW to \in RowStates
  PROVE  /\ Changed(list, id, to) \in List
         /\ Changed(list, id, to).version = list.version + 1
         /\ Changed(list, id, to).next = list.next
         /\ Changed(list, id, to).rows[id] = to
         /\ \A i \in Ids \ {id} : Changed(list, id, to).rows[i] = list.rows[i]
<1> DEFINE rows == [list.rows EXCEPT ![id] = to]
<1>1. Changed(list, id, to) = [version |-> list.version + 1, next |-> list.next, rows |-> rows]
  <2>1. list = [version |-> list.version, next |-> list.next, rows |-> list.rows]
    BY DEF List
  <2>2. Changed(list, id, to) =
          [[version |-> list.version, next |-> list.next, rows |-> list.rows]
             EXCEPT !.version = @ + 1, !.rows = rows]
    BY <2>1, Zenon DEF Changed
  <2>3. QED
    BY <2>2
<1>2. /\ rows \in [Ids -> RowStates] /\ rows[id] = to
      /\ \A i \in Ids \ {id} : rows[i] = list.rows[i]
  BY ListFields
<1> HIDE DEF rows
<1>3. QED
  BY <1>1, <1>2, ListFields DEF List

LEMMA LoadedType ==
  ASSUME NEW list \in List
  PROVE  /\ Loaded(list) \in List
         /\ Loaded(list).version = list.version
         /\ Loaded(list).next = list.next
         /\ \A id \in Ids : Loaded(list).rows[id] = "none" <=> list.rows[id] = "none"
<1> DEFINE rows == [id \in Ids |-> IF list.rows[id] = "active" THEN "stopped" ELSE list.rows[id]]
<1>1. /\ Loaded(list) = [version |-> list.version, next |-> list.next, rows |-> rows]
      /\ list.version \in Nat /\ list.next \in 1 .. MaxId + 1
  BY DEF Loaded, List
<1>2. /\ rows \in [Ids -> RowStates]
      /\ \A id \in Ids : rows[id] = "none" <=> list.rows[id] = "none"
  BY ListFields DEF RowStates
<1> HIDE DEF rows
<1>3. QED
  BY <1>1, <1>2 DEF List

LEMMA FileTypes ==
  ASSUME NEW file \in File, NEW list \in List
  PROVE  /\ file.state \in FileStates /\ file.list \in List
         /\ Whole(list) \in File /\ Whole(list).state = "whole" /\ Whole(list).list = list
         /\ Opened(file) \in File /\ Opened(file).state = "empty"
         /\ Outcomes(file, list) \subseteq File
         /\ file.state = "empty" => Outcomes(file, list) = {Whole(list)}
<1>1. /\ file.state \in FileStates /\ file.list \in List
      /\ Whole(list) \in File /\ Whole(list).state = "whole" /\ Whole(list).list = list
      /\ Opened(file) \in File /\ Opened(file).state = "empty"
  BY DEF File, FileStates, Whole, Opened
<1>2. [file EXCEPT !.state = "torn"] \in File
  BY DEF File, FileStates
<1>3. Outcomes(file, list) \subseteq File
  BY <1>1, <1>2 DEF Outcomes
<1>4. file.state = "empty" => Outcomes(file, list) = {Whole(list)}
  BY DEF Outcomes
<1>5. QED
  BY <1>1, <1>3, <1>4

LEMMA ReadType == TypeOK => Read \in List
BY EmptyListType, FileTypes DEF TypeOK, Read

LEMMA SuccessorTypes ==
  ASSUME NEW list \in List, NEW next \in Successors(list)
  PROVE  next \in List /\ next.version = list.version + 1
BY AddedType, ChangedType DEF Successors, IdsOf

---------------------------------------------------------------------------
(* Types, for any number of savers. *)

LEMMA SucceedsType ==
  ASSUME TypeOK, NEW s \in Savers, Succeeds(s)
  PROVE  acked' \in Nat /\ used' \subseteq Ids /\ dropped' \subseteq Ids /\ streak' \in 0 .. 3
BY ListFields DEF TypeOK, Succeeds, IdsOf

LEMMA ChangesKeepTypes ==
  ASSUME TypeOK, NEW s \in Savers, Change(s) \/ Copy(s) \/ ChangeLocked(s)
  PROVE  TypeOK'
<1>1. CASE Change(s)
  <2>1. mem' \in List
    BY <1>1, SuccessorTypes DEF Change, TypeOK
  <2>2. QED
    BY <1>1, <2>1 DEF Change, TypeOK, SaverSteps, files, history, luck
<1>2. CASE Copy(s)
  BY <1>2 DEF Copy, TypeOK, SaverSteps, files, history, luck
<1>3. CASE ChangeLocked(s)
  <2>1. mem' \in List
    BY <1>3, ChangedType DEF ChangeLocked, TypeOK, IdsOf, RowStates
  <2>2. QED
    BY <1>3, <2>1 DEF ChangeLocked, TypeOK, SaverSteps, files, history, luck
<1>4. QED
  BY <1>1, <1>2, <1>3

LEMMA SaveKeepsTypes ==
  ASSUME TypeOK, NEW s \in Savers,
         \/ OpenTmp(s) \/ WriteTmp(s) \/ Rename(s) \/ RenameRefused(s)
         \/ OpenMain(s) \/ WriteMain(s) \/ Clean(s) \/ GiveUp(s)
  PROVE  TypeOK'
<1>1. /\ main \in File /\ tmp \in File /\ copy[s] \in List
      /\ Opened(tmp) \in File /\ Opened(main) \in File /\ NoFile \in File
      /\ Outcomes(tmp, copy[s]) \subseteq File /\ Outcomes(main, copy[s]) \subseteq File
  <2>1. main \in File /\ tmp \in File /\ copy[s] \in List
    BY DEF TypeOK
  <2>2. QED
    BY <2>1, EmptyListType, FileTypes
<1>2. CASE OpenTmp(s)
  BY <1>1, <1>2 DEF OpenTmp, TypeOK, SaverSteps, history, luck
<1>3. CASE WriteTmp(s)
  <2>1. main' \in File /\ tmp' \in File
    BY <1>1, <1>3 DEF WriteTmp
  <2>2. QED
    BY <1>3, <2>1 DEF WriteTmp, TypeOK, SaverSteps, history, luck
<1>4. CASE Rename(s)
  <2>1. hand' \in [Savers -> {"none", "tmp", "main", "lost"}]
    BY <1>4 DEF Rename, TypeOK
  <2>2. acked' \in Nat /\ used' \subseteq Ids /\ dropped' \subseteq Ids /\ streak' \in 0 .. 3
    BY <1>4, SucceedsType DEF Rename
  <2>3. QED
    BY <1>1, <1>4, <2>1, <2>2 DEF Rename, TypeOK, SaverSteps
<1>5. CASE RenameRefused(s)
  BY <1>5 DEF RenameRefused, Mishap, TypeOK, SaverSteps, files, history, luck
<1>6. CASE OpenMain(s)
  BY <1>1, <1>6 DEF OpenMain, TypeOK, SaverSteps, history, luck
<1>7. CASE WriteMain(s)
  <2>1. main' \in File
    BY <1>1, <1>7 DEF WriteMain
  <2>2. QED
    BY <1>7, <2>1 DEF WriteMain, TypeOK, SaverSteps, history, luck
<1>8. CASE Clean(s)
  <2>1. hand' \in [Savers -> {"none", "tmp", "main", "lost"}]
    BY <1>8 DEF Clean, TypeOK
  <2>2. acked' \in Nat /\ used' \subseteq Ids /\ dropped' \subseteq Ids /\ streak' \in 0 .. 3
    BY <1>8, SucceedsType DEF Clean
  <2>3. QED
    BY <1>1, <1>8, <2>1, <2>2 DEF Clean, TypeOK, SaverSteps
<1>9. CASE GiveUp(s)
  BY <1>9 DEF GiveUp, Mishap, Ends, TypeOK, SaverSteps, history, luck
<1>10. QED
  BY <1>2, <1>3, <1>4, <1>5, <1>6, <1>7, <1>8, <1>9

LEMMA TypesKept == TypeOK /\ [Next]_vars => TypeOK'
<1> SUFFICES ASSUME TypeOK, [Next]_vars PROVE TypeOK'
  OBVIOUS
<1>1. CASE Restart
  <2>1. mem' \in List
    BY <1>1, ReadType, LoadedType DEF Restart
  <2>2. QED
    BY <1>1, <2>1 DEF Restart, Mishap, TypeOK, SaverSteps, history, luck
<1>2. CASE UNCHANGED vars
  BY <1>2 DEF vars, TypeOK
<1>3. QED
  BY <1>1, <1>2, ChangesKeepTypes, SaveKeepsTypes DEF Next, SaverStep

LEMMA TypesAtStart == Init => TypeOK
<1>1. Init => crossed \in BOOLEAN
  BY Zenon DEF Init
<1>2. QED
  BY <1>1, EmptyListType DEF Init, TypeOK, SaverSteps

\* Every variable of the store keeps its type.
THEOREM ListAndFilesTyped == Spec => []TypeOK
BY TypesAtStart, TypesKept, PTL DEF Spec

---------------------------------------------------------------------------
(* The lists that are being saved. *)

LEMMA SuccessorsFollow ==
  ASSUME NEW list \in List, NEW next \in Successors(list)
  PROVE  Precedes(list, next) /\ (BelowNext(list) => BelowNext(next))
<1>1. list.next \in Nat /\ list.version \in Nat
  BY ListFields, StoreAssumption
<1>2. CASE list.next \in Ids /\ next = Added(list)
  BY <1>1, <1>2, AddedType DEF BelowNext, Precedes, Ids
<1>3. ASSUME NEW id \in IdsOf(list), NEW to \in RowStates, next = Changed(list, id, to)
      PROVE  Precedes(list, next) /\ (BelowNext(list) => BelowNext(next))
  BY <1>1, <1>3, ChangedType DEF BelowNext, Precedes, IdsOf
<1>4. QED
  BY <1>2, <1>3 DEF Successors

LEMMA PrecedesTransitive ==
  ASSUME NEW a \in List, NEW b \in List, NEW c \in List, Precedes(a, b), Precedes(b, c)
  PROVE  Precedes(a, c)
<1>1. /\ a.version \in Nat /\ b.version \in Nat /\ c.version \in Nat
      /\ a.next \in Nat /\ b.next \in Nat /\ c.next \in Nat
  BY ListFields, StoreAssumption
<1>2. a.version = c.version => a = c
  BY <1>1 DEF Precedes
<1>3. \A id \in Ids : a.rows[id] = "none" /\ id < a.next => c.rows[id] = "none"
  BY <1>1 DEF Precedes, Ids
<1>4. QED
  BY <1>1, <1>2, <1>3 DEF Precedes

LEMMA PrecedesReflexive == ASSUME NEW list \in List PROVE Precedes(list, list)
BY ListFields, StoreAssumption DEF Precedes

LEMMA OutcomesBelow ==
  ASSUME NEW file \in File, NEW list \in List, BelowNext(file.list), BelowNext(list),
         NEW out \in Outcomes(file, list)
  PROVE  BelowNext(out.list)
<1>1. [file EXCEPT !.state = "torn"].list = file.list
  BY DEF File
<1>2. out.list \in {list, file.list}
  BY <1>1, FileTypes DEF Outcomes
<1>3. QED
  BY <1>2

LEMMA ChangesKeepLists ==
  ASSUME StoreInv, NEW s \in Savers, Change(s) \/ Copy(s) \/ ChangeLocked(s)
  PROVE  ListsInv'
<1>1. TypeOK /\ TypeOK' /\ ListsInv
  BY ChangesKeepTypes DEF StoreInv
<1>2. UNCHANGED <<main, tmp, used, dropped>> /\ pc[s] \notin MidSave
  BY DEF Change, Copy, ChangeLocked, files, history, MidSave, AtWork
<1>3. mem \in List /\ mem' \in List /\ Precedes(mem, mem') /\ BelowNext(mem')
  <2>1. CASE mem' \in Successors(mem)
    BY <1>1, <2>1, SuccessorsFollow DEF ListsInv, TypeOK
  <2>2. CASE mem' = mem
    BY <1>1, <2>2, PrecedesReflexive DEF ListsInv, TypeOK
  <2>3. QED
    BY <1>1, <2>1, <2>2
       DEF Change, Copy, ChangeLocked, Successors, RowStates, TypeOK
<1>4. ASSUME NEW u \in Savers, u # s
      PROVE  copy'[u] = copy[u] /\ pc'[u] = pc[u]
  BY <1>1, <1>4 DEF Change, Copy, ChangeLocked, TypeOK
<1>5. pc'[s] \in MidSave => copy'[s] = mem'
  BY <1>1 DEF Change, Copy, ChangeLocked, TypeOK, MidSave, AtWork
<1>6. ASSUME NEW u \in Savers, pc'[u] \in MidSave
      PROVE  BelowNext(copy'[u]) /\ Precedes(copy'[u], mem')
  <2>1. CASE u = s
    BY <1>3, <1>5, <1>6, <2>1, PrecedesReflexive
  <2>2. CASE u # s
    BY <1>1, <1>3, <1>4, <1>6, <2>2, PrecedesTransitive DEF ListsInv, TypeOK
  <2>3. QED
    BY <2>1, <2>2
<1>7. ASSUME NEW t \in Savers, NEW u \in Savers, pc'[t] \in MidSave, pc'[u] \in MidSave,
             copy'[t].version <= copy'[u].version
      PROVE  Precedes(copy'[t], copy'[u])
  <2>1. CASE u = s
    BY <1>5, <1>6, <1>7, <2>1
  <2>2. CASE u # s /\ t = s
    <3>1. copy'[u] \in List /\ copy'[t] = mem' /\ Precedes(copy'[u], mem')
      BY <1>1, <1>5, <1>6, <1>7, <2>2 DEF TypeOK
    <3>2. copy'[u] = mem'
      BY <1>3, <1>7, <3>1, ListFields DEF Precedes
    <3>3. QED
      BY <1>3, <3>1, <3>2, PrecedesReflexive
  <2>3. CASE u # s /\ t # s
    BY <1>1, <1>4, <1>7, <2>3 DEF ListsInv
  <2>4. QED
    BY <2>1, <2>2, <2>3
<1>8. QED
  BY <1>1, <1>2, <1>3, <1>6, <1>7 DEF ListsInv

LEMMA SaveKeepsLists ==
  ASSUME StoreInv, NEW s \in Savers,
         \/ OpenTmp(s) \/ WriteTmp(s) \/ Rename(s) \/ RenameRefused(s)
         \/ OpenMain(s) \/ WriteMain(s) \/ Clean(s) \/ GiveUp(s)
  PROVE  ListsInv'
<1>1. TypeOK /\ TypeOK' /\ ListsInv /\ main \in File /\ tmp \in File /\ copy[s] \in List
  BY SaveKeepsTypes DEF StoreInv, TypeOK
<1>2. UNCHANGED <<mem, copy>> /\ pc[s] \in MidSave
  BY DEF OpenTmp, WriteTmp, Rename, RenameRefused, OpenMain, WriteMain, Clean, GiveUp,
         MidSave, AtWork, files
<1>3. \A u \in Savers : pc'[u] \in MidSave => pc[u] \in MidSave
  BY <1>1, <1>2
     DEF OpenTmp, WriteTmp, Rename, RenameRefused, OpenMain, WriteMain, Clean, GiveUp, Ends,
         TypeOK, MidSave, AtWork
<1>4. dropped' \subseteq used'
  <2>1. CASE Rename(s) \/ Clean(s)
    BY <1>1, <2>1 DEF Rename, Clean, Succeeds, ListsInv
  <2>2. CASE ~ (Rename(s) \/ Clean(s))
    BY <1>1, <2>2
       DEF OpenTmp, WriteTmp, RenameRefused, OpenMain, WriteMain, GiveUp, history, ListsInv
  <2>3. QED
    BY <2>1, <2>2
<1>5. BelowNext(main'.list) /\ BelowNext(tmp'.list)
  <2>1. BelowNext(copy[s]) /\ BelowNext(NoFile.list)
    BY <1>1, <1>2 DEF ListsInv, BelowNext, NoFile, EmptyList
  <2>2. \A out \in Outcomes(main, copy[s]) \cup Outcomes(tmp, copy[s]) : BelowNext(out.list)
    BY <1>1, <2>1, OutcomesBelow DEF ListsInv
  <2>3. Opened(main).list = main.list /\ Opened(tmp).list = tmp.list
    BY <1>1 DEF Opened, File
  <2>4. /\ main' \in {main, tmp, Opened(main)} \cup Outcomes(main, copy[s])
        /\ tmp' \in {tmp, NoFile, Opened(tmp)} \cup Outcomes(tmp, copy[s])
    BY DEF OpenTmp, WriteTmp, Rename, RenameRefused, OpenMain, WriteMain, Clean, GiveUp, files
  <2>5. QED
    BY <1>1, <2>1, <2>2, <2>3, <2>4 DEF ListsInv
<1>6. QED
  BY <1>1, <1>2, <1>3, <1>4, <1>5 DEF ListsInv

LEMMA ReadBelow == ListsInv => BelowNext(Read)
BY DEF ListsInv, Read, BelowNext, EmptyList

LEMMA ListsKept == StoreInv /\ [Next]_vars => ListsInv'
<1> SUFFICES ASSUME StoreInv, [Next]_vars PROVE ListsInv'
  OBVIOUS
<1>1. CASE Restart
  <2>1. BelowNext(mem')
    BY <1>1, ReadType, ReadBelow, LoadedType DEF Restart, StoreInv, BelowNext
  <2>2. \A s \in Savers : pc'[s] \notin MidSave
    BY <1>1 DEF Restart, MidSave, AtWork
  <2>3. QED
    BY <1>1, <2>1, <2>2 DEF Restart, history, StoreInv, ListsInv
<1>2. CASE UNCHANGED vars
  BY <1>2 DEF vars, StoreInv, ListsInv
<1>3. QED
  BY <1>1, <1>2, ChangesKeepLists, SaveKeepsLists DEF Next, SaverStep

---------------------------------------------------------------------------
(* What a start reads while the promise holds. *)

LEMMA CalmStays == StoreInv /\ [Next]_vars /\ Calm' => Calm
<1> SUFFICES ASSUME StoreInv, [Next]_vars, Calm' PROVE Calm
  OBVIOUS
<1>1. streak \in 0 .. 3 /\ crossed \in BOOLEAN
  BY DEF StoreInv, TypeOK
<1>2. crossed => crossed'
  BY <1>1
     DEF Next, Restart, SaverStep, Change, Copy, ChangeLocked, OpenTmp, WriteTmp, Rename,
         RenameRefused, OpenMain, WriteMain, Clean, GiveUp, luck, vars
<1>3. streak = 3 => streak' = 3
  BY <1>1
     DEF Next, Restart, SaverStep, Change, Copy, ChangeLocked, OpenTmp, WriteTmp, Rename,
         RenameRefused, OpenMain, WriteMain, Clean, GiveUp, luck, vars, Mishap, Succeeds
<1>4. QED
  BY <1>1, <1>2, <1>3 DEF Calm

LEMMA ChangesKeepSaves ==
  ASSUME StoreInv, NEW s \in Savers, Change(s) \/ Copy(s) \/ ChangeLocked(s), Calm'
  PROVE  SavesInv'
<1>1. TypeOK /\ TypeOK' /\ ListsInv /\ ListsInv' /\ Calm /\ SavesInv
  <2>1. Next
    BY DEF Next, SaverStep
  <2>2. QED
    BY <2>1, ListsKept, CalmStays, ChangesKeepTypes DEF StoreInv
<1>2. UNCHANGED <<main, tmp, hand, acked, used, dropped, streak>> /\ pc[s] \notin MidSave
  BY DEF Change, Copy, ChangeLocked, files, history, luck, MidSave, AtWork
<1>3. UNCHANGED history /\ Read' = Read /\ Read \in List /\ EmptyList \in List
  BY <1>1, <1>2, ReadType, EmptyListType DEF history, Read
<1>4. mem \in List /\ mem' \in List /\ Precedes(mem, mem') /\ mem.version <= mem'.version
  <2>1. CASE mem' \in Successors(mem)
    BY <1>1, <2>1, SuccessorsFollow, SuccessorTypes DEF Precedes, TypeOK
  <2>2. CASE mem' = mem
    BY <1>1, <2>2, PrecedesReflexive DEF Precedes, TypeOK
  <2>3. QED
    BY <1>1, <2>1, <2>2
       DEF Change, Copy, ChangeLocked, Successors, RowStates, TypeOK
<1>5. ASSUME NEW u \in Savers, u # s
      PROVE  copy'[u] = copy[u] /\ pc'[u] = pc[u]
  BY <1>1, <1>5 DEF Change, Copy, ChangeLocked, TypeOK
<1>6. pc'[s] \notin AtWork /\ (pc'[s] \in MidSave => copy'[s] = mem')
  BY <1>1 DEF Change, Copy, ChangeLocked, TypeOK, MidSave, AtWork
<1>7. ASSUME NEW list \in List, Sound(list) PROVE Sound(list)'
  BY <1>2, <1>4, <1>7, ListFields DEF Sound, TypeOK
<1>8. Sound(mem)'
  <2>1. Sound(mem)
    BY <1>1 DEF SavesInv
  <2>2. /\ \A id \in used : id < mem'.next
        /\ \A id \in dropped : mem'.rows[id] = "none"
    BY <1>1, <1>4, <2>1, ListFields, StoreAssumption
       DEF Sound, Precedes, ListsInv, TypeOK, Ids
  <2>3. QED
    BY <1>1, <1>2, <1>4, <2>1, <2>2, ListFields DEF Sound, TypeOK
<1>9. ASSUME NEW u \in Savers PROVE InStep(u)'
  <2>1. CASE u = s
    BY <1>6, <2>1 DEF InStep, AtWork
  <2>2. CASE u # s
    BY <1>1, <1>2, <1>5, <2>2 DEF SavesInv, InStep
  <2>3. QED
    BY <2>1, <2>2
<1>10. ASSUME NEW u \in Savers, pc'[u] \in MidSave, acked' <= copy'[u].version
       PROVE  Sound(copy[u])'
  <2>1. CASE u = s
    BY <1>6, <1>8, <1>10, <2>1 DEF Sound
  <2>2. CASE u # s
    <3>1. Sound(copy[u]) /\ copy[u] \in List /\ copy'[u] = copy[u]
      BY <1>1, <1>2, <1>5, <1>10, <2>2 DEF SavesInv, TypeOK
    <3>2. QED
      BY <1>7, <3>1 DEF Sound
  <2>3. QED
    BY <2>1, <2>2
<1>11. \A u, t \in Savers : pc'[u] \in AtWork /\ pc'[t] \in AtWork => u = t
  BY <1>1, <1>5, <1>6 DEF SavesInv
<1>12. streak' <= 1 => Sound(Read)'
  BY <1>1, <1>2, <1>3, <1>7 DEF SavesInv, Sound
<1>13. streak' <= 1 => \/ main'.state = "whole" \/ Sound(EmptyList)'
                       \/ \E u \in Savers : pc'[u] = "inplace"
  <2>1. \A u \in Savers : pc[u] = "inplace" => pc'[u] = "inplace"
    BY <1>2, <1>5 DEF MidSave, AtWork
  <2>2. QED
    BY <1>1, <1>2, <1>3, <1>7, <2>1 DEF SavesInv, Sound
<1>14. QED
  BY <1>8, <1>9, <1>10, <1>11, <1>12, <1>13 DEF SavesInv

\* What every step of a save has in common.
LEMMA SaveSteps ==
  ASSUME StoreInv, NEW s \in Savers, Calm',
         \/ OpenTmp(s) \/ WriteTmp(s) \/ Rename(s) \/ RenameRefused(s)
         \/ OpenMain(s) \/ WriteMain(s) \/ Clean(s) \/ GiveUp(s)
  PROVE  /\ TypeOK /\ TypeOK' /\ ListsInv /\ ListsInv' /\ SavesInv /\ Calm
         /\ UNCHANGED <<mem, copy>> /\ pc[s] \in MidSave
         /\ main \in File /\ tmp \in File /\ copy[s] \in List
         /\ streak \in Nat /\ acked \in Nat /\ copy[s].version \in Nat
         /\ \A u \in Savers \ {s} : pc'[u] = pc[u]
<1>1. Next
  BY DEF Next, SaverStep
<1>2. TypeOK /\ TypeOK' /\ ListsInv /\ ListsInv' /\ SavesInv /\ Calm
  BY <1>1, ListsKept, CalmStays, SaveKeepsTypes DEF StoreInv
<1>3. UNCHANGED <<mem, copy>> /\ pc[s] \in MidSave
  BY DEF OpenTmp, WriteTmp, Rename, RenameRefused, OpenMain, WriteMain, Clean, GiveUp,
         MidSave, AtWork, files
<1>4. \A u \in Savers \ {s} : pc'[u] = pc[u]
  BY <1>2
     DEF OpenTmp, WriteTmp, Rename, RenameRefused, OpenMain, WriteMain, Clean, GiveUp, Ends,
         TypeOK
<1>5. QED
  BY <1>2, <1>3, <1>4, ListFields DEF TypeOK

\* A saver at work has the files to itself, and its list is good to read.
LEMMA AloneAtWork ==
  ASSUME TypeOK, SavesInv, NEW s \in Savers, pc[s] \in AtWork
  PROVE  /\ \A u \in Savers \ {s} : pc[u] \notin AtWork
         /\ InStep(s) /\ Sound(copy[s])
BY DEF SavesInv, InStep, MidSave

LEMMA OpenTmpKeepsSaves ==
  ASSUME StoreInv, NEW s \in Savers, OpenTmp(s), Calm'
  PROVE  SavesInv'
<1>1. /\ TypeOK /\ TypeOK' /\ ListsInv /\ SavesInv
      /\ UNCHANGED <<mem, copy, main, acked, used, dropped, streak>>
      /\ tmp \in File /\ acked \in Nat /\ copy[s].version \in Nat
      /\ \A u \in Savers \ {s} : pc'[u] = pc[u]
  BY SaveSteps DEF OpenTmp, history
<1>2. (\A u \in Savers : pc[u] \notin AtWork) /\ acked <= copy[s].version
  <2>1. ~ Crosses(s)
    BY DEF OpenTmp, Calm
  <2>2. QED
    BY <1>1, <2>1 DEF Crosses
<1>3. pc'[s] = "opened" /\ hand'[s] = "tmp" /\ tmp'.state = "empty" /\ pc[s] = "copied"
  BY <1>1, FileTypes DEF OpenTmp, TypeOK
<1>4. \A u \in Savers : InStep(u)'
  BY <1>1, <1>2, <1>3 DEF InStep, AtWork
<1>5. streak <= 1 => main.state = "whole" \/ Sound(EmptyList)
  BY <1>1, <1>2 DEF SavesInv, AtWork
<1>6. streak <= 1 => Sound(Read)'
  BY <1>1, <1>3, <1>5 DEF SavesInv, Read, Sound
<1>7. \A u, t \in Savers : pc'[u] \in AtWork /\ pc'[t] \in AtWork => u = t
  BY <1>1, <1>2
<1>8. \A u \in Savers : pc'[u] \in MidSave /\ acked' <= copy'[u].version => Sound(copy[u])'
  BY <1>1, <1>3 DEF SavesInv, Sound, MidSave
<1>9. QED
  BY <1>1, <1>4, <1>5, <1>6, <1>7, <1>8 DEF SavesInv, Sound

LEMMA WriteTmpKeepsSaves ==
  ASSUME StoreInv, NEW s \in Savers, WriteTmp(s), Calm'
  PROVE  SavesInv'
<1>1. /\ TypeOK /\ TypeOK' /\ SavesInv /\ UNCHANGED <<mem, copy>>
      /\ tmp \in File /\ copy[s] \in List /\ streak \in Nat
      /\ \A u \in Savers \ {s} : pc'[u] = pc[u]
  BY SaveSteps
<1>2. /\ pc[s] = "opened" /\ (\A u \in Savers \ {s} : pc[u] \notin AtWork)
      /\ hand[s] = "tmp" /\ tmp.state = "empty" /\ acked <= copy[s].version /\ Sound(copy[s])
  BY <1>1, AloneAtWork DEF WriteTmp, InStep, AtWork
<1>3. /\ UNCHANGED <<main, acked, used, dropped, streak>>
      /\ tmp' = Whole(copy[s]) /\ pc'[s] = "written"
  BY <1>1, <1>2, FileTypes DEF WriteTmp, history, luck, TypeOK
<1>4. \A u \in Savers : InStep(u)'
  BY <1>1, <1>2, <1>3 DEF InStep, AtWork
<1>5. streak <= 1 => main.state = "whole" \/ Sound(EmptyList)
  BY <1>1, <1>2 DEF SavesInv, AtWork
<1>6. streak <= 1 => Sound(Read)'
  <2>1. Read' = (IF main.state = "whole" THEN Read ELSE copy[s])
    BY <1>3, FileTypes DEF Read, Whole
  <2>2. QED
    BY <1>1, <1>2, <1>3, <2>1 DEF SavesInv, Sound
<1>7. \A u, t \in Savers : pc'[u] \in AtWork /\ pc'[t] \in AtWork => u = t
  BY <1>1, <1>2
<1>8. \A u \in Savers : pc'[u] \in MidSave /\ acked' <= copy'[u].version => Sound(copy[u])'
  BY <1>1, <1>2, <1>3 DEF SavesInv, Sound, MidSave, AtWork
<1>9. QED
  BY <1>1, <1>3, <1>4, <1>5, <1>6, <1>7, <1>8 DEF SavesInv, Sound

LEMMA EndKeepsSaves ==
  ASSUME StoreInv, NEW s \in Savers, Rename(s) \/ Clean(s), Calm'
  PROVE  SavesInv'
<1>1. /\ TypeOK /\ TypeOK' /\ ListsInv /\ ListsInv' /\ SavesInv /\ UNCHANGED <<mem, copy>>
      /\ mem \in List /\ copy[s] \in List /\ pc[s] \in MidSave /\ acked \in Nat
      /\ used \subseteq Ids /\ dropped \subseteq used /\ copy[s].version \in Nat
      /\ \A u \in Savers \ {s} : pc'[u] = pc[u]
  BY SaveSteps DEF TypeOK, ListsInv
<1>2. /\ (\A u \in Savers \ {s} : pc[u] \notin AtWork)
      /\ acked <= copy[s].version /\ Sound(copy[s]) /\ InStep(s)
  BY <1>1, AloneAtWork DEF Rename, Clean, InStep, AtWork
<1>3. pc'[s] = "idle" /\ main' = Whole(copy[s]) /\ Succeeds(s)
  BY <1>1, <1>2 DEF Rename, Clean, InStep, TypeOK
<1>4. /\ acked' = copy[s].version
      /\ used' = used \cup IdsOf(copy[s])
      /\ dropped' = (dropped \cup used) \ IdsOf(copy[s])
  BY <1>1, <1>2, <1>3 DEF Succeeds
<1>5. BelowNext(copy[s]) /\ Precedes(copy[s], mem)
  BY <1>1 DEF ListsInv
<1>6. Sound(copy[s])'
  <2>1. \A id \in used' : id < copy[s].next
    BY <1>2, <1>4, <1>5 DEF Sound, BelowNext, IdsOf
  <2>2. \A id \in dropped' : copy[s].rows[id] = "none"
    BY <1>1, <1>4 DEF IdsOf
  <2>3. QED
    BY <1>1, <1>2, <1>4, <2>1, <2>2, ListFields DEF Sound
<1>7. ASSUME NEW list \in List, Precedes(copy[s], list), list.version <= mem.version
      PROVE  /\ acked' <= list.version
             /\ \A id \in used' : id < list.next
             /\ \A id \in dropped' : list.rows[id] = "none"
  <2>1. /\ copy[s].next \in Nat /\ list.next \in Nat /\ used' \subseteq Ids
        /\ dropped' \subseteq used'
    BY <1>1, ListFields, StoreAssumption DEF TypeOK, ListsInv
  <2>2. /\ \A id \in used' : id < copy[s].next
        /\ \A id \in dropped' : copy[s].rows[id] = "none"
    BY <1>1, <1>6 DEF Sound
  <2>3. QED
    BY <1>4, <1>7, <2>1, <2>2 DEF Precedes, Ids
<1>8. Sound(mem)'
  BY <1>1, <1>5, <1>7, ListFields DEF Sound
<1>9. ASSUME NEW u \in Savers, pc'[u] \in MidSave, acked' <= copy'[u].version
      PROVE  Sound(copy[u])'
  <2>1. u # s /\ pc[u] \in MidSave /\ copy[u] \in List
    BY <1>1, <1>3, <1>9 DEF TypeOK, MidSave, AtWork
  <2>2. Precedes(copy[s], copy[u]) /\ copy[u].version <= mem.version
    BY <1>1, <1>4, <1>9, <2>1 DEF ListsInv, Precedes
  <2>3. QED
    BY <1>1, <1>7, <2>1, <2>2 DEF Sound
<1>10. \A u \in Savers : InStep(u)'
  BY <1>1, <1>2, <1>3 DEF InStep, AtWork
<1>11. \A u, t \in Savers : pc'[u] \in AtWork /\ pc'[t] \in AtWork => u = t
  BY <1>1, <1>2, <1>3 DEF AtWork
<1>12. main'.state = "whole" /\ Read' = copy[s]
  BY <1>1, <1>3, FileTypes DEF Read, Whole
<1>13. Sound(Read)'
  BY <1>1, <1>6, <1>12 DEF Sound
<1>14. QED
  BY <1>8, <1>9, <1>10, <1>11, <1>12, <1>13 DEF SavesInv

LEMMA InPlaceKeepsSaves ==
  ASSUME StoreInv, NEW s \in Savers,
         RenameRefused(s) \/ OpenMain(s) \/ WriteMain(s) \/ GiveUp(s), Calm'
  PROVE  SavesInv'
<1>1. /\ TypeOK /\ TypeOK' /\ SavesInv /\ Calm /\ UNCHANGED <<mem, copy>>
      /\ main \in File /\ copy[s] \in List /\ pc[s] \in MidSave /\ streak \in Nat
      /\ \A u \in Savers \ {s} : pc'[u] = pc[u]
  BY SaveSteps
<1>2. pc[s] \in AtWork => /\ \A u \in Savers \ {s} : pc[u] \notin AtWork
                          /\ InStep(s) /\ Sound(copy[s])
  BY <1>1, AloneAtWork
<1>3. /\ UNCHANGED <<tmp, acked, used, dropped>> /\ streak <= streak'
      /\ pc'[s] \in {"idle"} \cup AtWork
  BY <1>1
     DEF RenameRefused, OpenMain, WriteMain, GiveUp, Ends, files, history, luck, Mishap, Calm,
         TypeOK, AtWork
<1>4. \A u \in Savers : pc'[u] \in MidSave /\ acked' <= copy'[u].version => Sound(copy[u])'
  BY <1>1, <1>3 DEF SavesInv, Sound, MidSave
<1>5. Sound(mem)'
  BY <1>1, <1>3 DEF SavesInv, Sound
<1>6. CASE RenameRefused(s)
  <2>1. /\ pc[s] = "written" /\ pc'[s] = "refused" /\ main' = main
        /\ tmp = Whole(copy[s]) /\ acked <= copy[s].version
        /\ \A u \in Savers \ {s} : pc[u] \notin AtWork
    BY <1>1, <1>2, <1>6 DEF RenameRefused, InStep, files, TypeOK, AtWork
  <2>2. streak' = streak + 1
    BY <1>1, <1>6, <2>1, FileTypes DEF RenameRefused, Mishap, Calm
  <2>3. \A u \in Savers : InStep(u)'
    BY <1>1, <1>3, <2>1, <2>2 DEF InStep, AtWork
  <2>4. streak' <= 1 => Sound(Read)' /\ (main'.state = "whole" \/ Sound(EmptyList)')
    BY <1>1, <1>3, <2>1, <2>2 DEF SavesInv, Read, Sound, AtWork
  <2>5. \A u, t \in Savers : pc'[u] \in AtWork /\ pc'[t] \in AtWork => u = t
    BY <1>1, <2>1
  <2>6. QED
    BY <1>4, <1>5, <2>3, <2>4, <2>5 DEF SavesInv
<1>7. CASE OpenMain(s)
  <2>1. /\ pc[s] = "refused" /\ pc'[s] = "inplace" /\ hand'[s] = "main"
        /\ main'.state = "empty" /\ streak' = streak /\ streak > 0
        /\ tmp = Whole(copy[s]) /\ acked <= copy[s].version /\ Sound(copy[s])
        /\ \A u \in Savers \ {s} : pc[u] \notin AtWork
    BY <1>1, <1>2, <1>7, FileTypes DEF OpenMain, InStep, TypeOK, luck, AtWork
  <2>2. \A u \in Savers : InStep(u)'
    BY <1>1, <1>3, <2>1 DEF InStep, AtWork
  <2>3. Sound(Read)'
    BY <1>1, <1>3, <2>1, FileTypes DEF Read, Sound
  <2>4. \A u, t \in Savers : pc'[u] \in AtWork /\ pc'[t] \in AtWork => u = t
    BY <1>1, <2>1
  <2>5. QED
    BY <1>4, <1>5, <2>1, <2>2, <2>3, <2>4 DEF SavesInv
<1>8. CASE WriteMain(s)
  <2>1. /\ pc[s] = "inplace" /\ pc'[s] = "clean" /\ hand[s] = "main" /\ main.state = "empty"
        /\ acked <= copy[s].version /\ Sound(copy[s])
        /\ \A u \in Savers \ {s} : pc[u] \notin AtWork
    BY <1>1, <1>2, <1>8 DEF WriteMain, InStep, TypeOK, AtWork
  <2>2. main' = Whole(copy[s])
    BY <1>1, <1>8, <2>1, FileTypes DEF WriteMain
  <2>3. \A u \in Savers : InStep(u)'
    BY <1>1, <1>3, <2>1, <2>2 DEF InStep, AtWork
  <2>4. main'.state = "whole" /\ Read' = copy[s]
    BY <1>1, <2>2, FileTypes DEF Read
  <2>5. Sound(Read)'
    BY <1>1, <1>3, <2>1, <2>4 DEF Sound
  <2>6. \A u, t \in Savers : pc'[u] \in AtWork /\ pc'[t] \in AtWork => u = t
    BY <1>1, <2>1
  <2>7. QED
    BY <1>4, <1>5, <2>3, <2>4, <2>5, <2>6 DEF SavesInv
<1>9. CASE GiveUp(s)
  <2>1. pc'[s] = "idle" /\ main' = main /\ streak' = streak + 1
    BY <1>1, <1>9 DEF GiveUp, Ends, Mishap, Calm, TypeOK
  <2>2. pc[s] = "inplace" => streak > 0
    BY <1>2 DEF InStep, AtWork
  <2>3. ASSUME NEW u \in Savers PROVE InStep(u)'
    <3>1. CASE u = s
      BY <2>1, <3>1 DEF InStep, AtWork
    <3>2. CASE u # s
      <4>1. pc'[u] = pc[u] /\ hand'[u] = hand[u] /\ InStep(u)
        BY <1>1, <1>9, <3>2 DEF GiveUp, Ends, SavesInv, TypeOK
      <4>2. QED
        BY <1>1, <1>3, <2>1, <4>1 DEF InStep
    <3>3. QED
      BY <3>1, <3>2
  <2>4. Read' = Read
    BY <1>3, <2>1 DEF Read
  <2>5. streak' <= 1 => Sound(Read)' /\ (main'.state = "whole" \/ Sound(EmptyList)'
                                           \/ \E u \in Savers : pc'[u] = "inplace")
    BY <1>1, <1>3, <2>1, <2>2, <2>4 DEF SavesInv, Sound
  <2>6. \A u, t \in Savers : pc'[u] \in AtWork /\ pc'[t] \in AtWork => u = t
    BY <1>1, <2>1 DEF SavesInv, AtWork
  <2>7. QED
    BY <1>4, <1>5, <2>3, <2>5, <2>6 DEF SavesInv
<1>10. QED
  BY <1>6, <1>7, <1>8, <1>9

\* A start reads a list as old as the last promise at worst.
LEMMA RestartKeepsSaves ==
  ASSUME StoreInv, Restart, Calm'
  PROVE  SavesInv' /\ acked <= mem'.version /\ mem'.version <= mem.version
<1>1. /\ TypeOK /\ SavesInv /\ Calm /\ Read \in List /\ mem' = Loaded(Read)
      /\ streak \in Nat /\ streak' = streak + 1 /\ streak' <= 2
  <2>1. [Next]_vars
    BY DEF Next
  <2>2. TypeOK /\ SavesInv /\ Calm /\ Read \in List
    BY <2>1, CalmStays, ReadType DEF StoreInv
  <2>3. QED
    BY <2>2 DEF Restart, Mishap, Calm, TypeOK
<1>2. /\ mem'.version = Read.version /\ mem'.next = Read.next
      /\ Read.version \in Nat /\ EmptyList.version = 0
      /\ \A id \in Ids : mem'.rows[id] = "none" <=> Read.rows[id] = "none"
  BY <1>1, LoadedType, ListFields DEF EmptyList
<1>3. /\ acked' = acked /\ used' = used /\ dropped' = dropped /\ Read' = Read /\ main' = main
      /\ acked \in Nat /\ used \subseteq Ids /\ dropped \subseteq Ids
  BY <1>1 DEF Restart, history, Read, TypeOK
<1>4. Sound(Read)
  BY <1>1 DEF SavesInv
<1>5. Sound(mem)' /\ acked <= mem'.version /\ mem'.version <= mem.version
  BY <1>2, <1>3, <1>4 DEF Sound
<1>6. Sound(Read)'
  BY <1>2, <1>3, <1>4 DEF Sound
<1>7. Sound(EmptyList) => Sound(EmptyList)'
  BY <1>2, <1>3 DEF Sound
<1>8. \A s \in Savers : pc'[s] = "idle" /\ InStep(s)'
  BY DEF Restart, InStep, AtWork
<1>9. streak' <= 1 => main'.state = "whole" \/ Sound(EmptyList)'
  <2>1. streak' <= 1 => \A s \in Savers : pc[s] # "inplace"
    BY <1>1 DEF SavesInv, InStep
  <2>2. QED
    BY <1>1, <1>3, <1>7, <2>1 DEF SavesInv
<1>10. QED
  BY <1>5, <1>6, <1>8, <1>9 DEF SavesInv, MidSave, AtWork

LEMMA StoreInvInductive == StoreInv /\ [Next]_vars => StoreInv'
<1> SUFFICES ASSUME StoreInv, [Next]_vars PROVE StoreInv'
  OBVIOUS
<1>1. TypeOK' /\ ListsInv'
  BY TypesKept, ListsKept DEF StoreInv
<1>2. CASE UNCHANGED vars
  <2>1. Read' = Read
    BY <1>2 DEF vars, Read
  <2>2. \A s \in Savers : InStep(s)' <=> InStep(s)
    BY <1>2 DEF vars, InStep
  <2>3. SavesInv => SavesInv'
    BY <1>2, <2>1, <2>2 DEF vars, SavesInv, Sound
  <2>4. QED
    BY <1>1, <1>2, <2>3 DEF StoreInv, vars, Calm
<1>3. ASSUME NEW s \in Savers, SaverStep(s), Calm' PROVE SavesInv'
  BY <1>3, ChangesKeepSaves, OpenTmpKeepsSaves, WriteTmpKeepsSaves, EndKeepsSaves,
     InPlaceKeepsSaves DEF SaverStep
<1>4. QED
  BY <1>1, <1>2, <1>3, RestartKeepsSaves DEF StoreInv, Next

LEMMA StoreStarts == Init => StoreInv
<1> SUFFICES ASSUME Init PROVE StoreInv
  OBVIOUS
<1>1. TypeOK
  BY TypesAtStart
<1>2. Read = EmptyList /\ \A s \in Savers : pc[s] = "idle"
  BY DEF Init, Read, NoFile
<1>3. Sound(EmptyList) /\ Sound(mem) /\ Sound(Read)
  BY <1>2 DEF Init, Sound, EmptyList
<1>4. ListsInv
  BY <1>2 DEF Init, ListsInv, BelowNext, NoFile, EmptyList, MidSave, AtWork
<1>5. QED
  BY <1>1, <1>2, <1>3, <1>4 DEF StoreInv, SavesInv, InStep, MidSave, AtWork

LEMMA StoreInvariant == Spec => []StoreInv
BY StoreStarts, StoreInvInductive, PTL DEF Spec

---------------------------------------------------------------------------
(* Theorems, for any number of threads, ids, changes and mishaps. *)

\* A download whose removal has been saved is still gone after every restart, unless two
\* saves have crossed or three mishaps have followed each other.
THEOREM RemovedDownloadsStayRemoved == Spec => []RemovedStaysRemoved
<1>1. StoreInv => RemovedStaysRemoved
  BY DEF StoreInv, SavesInv, Sound, RemovedStaysRemoved, RemovedAreGone
<1>2. QED
  BY <1>1, StoreInvariant, PTL

\* Nothing less makes an id that clients have seen saved go to another download.
THEOREM IdsAreNeverReused == Spec => []IdsAreFresh
<1>1. StoreInv => IdsAreFresh
  BY ListFields DEF StoreInv, SavesInv, Sound, IdsAreFresh, TypeOK, Ids
<1>2. QED
  BY <1>1, StoreInvariant, PTL

LEMMA StepsKeepPromises ==
  ASSUME StoreInv, StoreInv', [Next]_vars
  PROVE  [Durable!Next]_(Durable!vars)
<1>1. /\ mem.version \in Nat /\ mem'.version \in Nat /\ acked \in Nat
  BY ListFields DEF StoreInv, TypeOK
<1>2. CASE ~ Calm'
  BY <1>2 DEF Durable!Next
<1>3. CASE Calm' /\ UNCHANGED vars
  BY <1>3 DEF vars, Durable!vars, Calm
<1>4. CASE Calm' /\ Next
  <2>1. Calm /\ SavesInv
    BY <1>4, CalmStays DEF StoreInv
  <2>2. CASE Restart
    <3>1. acked <= mem'.version /\ mem'.version <= mem.version /\ acked' = acked
      BY <1>4, <2>2, RestartKeepsSaves DEF Restart, history
    <3>2. QED
      BY <1>1, <1>4, <2>1, <3>1 DEF Durable!Restart, Durable!Next
  <2>3. ASSUME NEW s \in Savers, SaverStep(s) PROVE [Durable!Next]_(Durable!vars)
    <3>1. CASE Change(s) \/ ChangeLocked(s)
      <4>1. mem' \in Successors(mem) /\ acked' = acked
        BY <3>1 DEF Change, ChangeLocked, Successors, RowStates, history
      <4>2. mem'.version = mem.version + 1
        BY <4>1, SuccessorTypes DEF StoreInv, TypeOK
      <4>3. QED
        BY <1>4, <2>1, <4>1, <4>2 DEF Durable!Next, Durable!Change
    <3>2. CASE Rename(s) \/ Clean(s)
      <4>1. /\ Succeeds(s) /\ mem' = mem /\ copy[s].version \in Nat
            /\ copy[s].version <= mem.version
        BY <3>2, <1>4, SaveSteps DEF Rename, Clean, ListsInv, Precedes
      <4>2. acked <= mem.version
        BY <2>1 DEF SavesInv, Sound
      <4>3. acked' \in acked .. mem.version
        BY <1>1, <4>1, <4>2 DEF Succeeds
      <4>4. QED
        BY <1>4, <2>1, <4>1, <4>3 DEF Durable!Next, Durable!Save
    <3>3. CASE \/ Copy(s) \/ OpenTmp(s) \/ WriteTmp(s) \/ RenameRefused(s)
               \/ OpenMain(s) \/ WriteMain(s) \/ GiveUp(s)
      <4>1. mem' = mem /\ acked' = acked
        BY <3>3
           DEF Copy, OpenTmp, WriteTmp, RenameRefused, OpenMain, WriteMain, GiveUp, history
      <4>2. QED
        BY <1>4, <2>1, <4>1 DEF Durable!vars
    <3>4. QED
      BY <2>3, <3>1, <3>2, <3>3 DEF SaverStep
  <2>4. QED
    BY <1>4, <2>2, <2>3 DEF Next
<1>5. QED
  BY <1>2, <1>3, <1>4

\* A process that starts reads the list of the latest save that succeeded, or a newer
\* one, until two saves have crossed or three mishaps have followed each other: the
\* saves implement the promise of the list.
THEOREM StoreImplementsDurableList == Spec => ImplementsDurableList
<1>1. Init => Durable!Init
  BY DEF Init, EmptyList, Calm, Durable!Init
<1>2. StoreInv /\ StoreInv' /\ [Next]_vars => [Durable!Next]_(Durable!vars)
  BY StepsKeepPromises
<1>3. QED
  BY <1>1, <1>2, StoreInvariant, PTL DEF Spec, ImplementsDurableList, Durable!Spec
=============================================================================
