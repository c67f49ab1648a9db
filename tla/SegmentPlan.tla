---------------------------- MODULE SegmentPlan ----------------------------
(***************************************************************************)
(* The segment plan of the download engine (crates/fdm-core/src/plan.rs):  *)
(* a vector of byte ranges that together cover the file.  A segment's      *)
(* start is fixed, its end only moves down (a split), done counts the      *)
(* bytes written from start on, and active says that a worker has it.      *)
(*                                                                         *)
(* Only the data and the arithmetic are here; who changes a segment, and   *)
(* when, is in module Engine.                                              *)
(***************************************************************************)
EXTENDS Integers, Sequences, Functions

SegmentRec == [start: Nat, end: Nat, done: Nat, active: BOOLEAN]

\* What is kept of a segment in the control file.
SnapshotRec == [start: Nat, end: Nat, done: Nat]

NewSegment(first, last) ==
  [start |-> first, end |-> last, done |-> 0, active |-> FALSE]

\* The offset of the next byte to write.
Cursor(s) == s.start + s.done

SegLength(s) == s.end - s.start + 1

\* A split may put end behind a cursor that already passed it.
Remaining(s) == IF Cursor(s) > s.end THEN 0 ELSE s.end - Cursor(s) + 1

\* Mutant: complete only when the cursor stops exactly behind end.
ExactlyComplete(s) == s.done = SegLength(s)

IsComplete(s) == Remaining(s) = 0

\* Mutant: count what the worker wrote past end as well.
UnclampedDone(s) == s.done

\* Bytes past end belong to the segment that a split created there.
EffectiveDone(s) == IF s.done < SegLength(s) THEN s.done ELSE SegLength(s)

TotalDone(plan) == SumFunction([i \in DOMAIN plan |-> EffectiveDone(plan[i])])

PlanComplete(plan) == \A i \in DOMAIN plan : IsComplete(plan[i])

Snapshots(plan) ==
  [i \in DOMAIN plan |->
     [start |-> plan[i].start, end |-> plan[i].end, done |-> plan[i].done]]

FromSnapshots(snaps) ==
  [i \in DOMAIN snaps |->
     [start |-> snaps[i].start, end |-> snaps[i].end, done |-> snaps[i].done,
      active |-> FALSE]]

---------------------------------------------------------------------------
(* The plan of a fresh download. *)

Smaller(a, b) == IF a < b THEN a ELSE b
Larger(a, b)  == IF a > b THEN a ELSE b

\* How many segments: as many as there are connections, unless the pieces
\* would be smaller than minSplit.
EvenCount(total, n, minSplit) ==
  LET maxUseful == Larger(total \div Larger(minSplit, 1), 1)
  IN  Smaller(Larger(n, 1), maxUseful)

\* [0, total) in equal pieces, the first total % n of them one byte longer.
SplitEven(total, n, minSplit) ==
  LET count == IF total = 0 THEN 0 ELSE EvenCount(total, n, minSplit)
      base  == total \div count
      extra == total % count
      StartOf(i) == (i - 1) * base + Smaller(i - 1, extra)
  IN  [i \in 1..count |-> NewSegment(StartOf(i), StartOf(i + 1) - 1)]

\* One segment for the whole resource; openEnd stands for u64::MAX.
Single(total, sizeKnown, openEnd) ==
  << NewSegment(0, IF sizeKnown THEN Larger(total - 1, 0) ELSE openEnd) >>

---------------------------------------------------------------------------
(* Choosing work for a free connection. *)

\* Mutant: do not look at active.
AnyIncomplete(plan) == {i \in DOMAIN plan : ~IsComplete(plan[i])}

\* Incomplete segments nobody works on; the scan takes the first of them.
Idle(plan) == {i \in DOMAIN plan : ~IsComplete(plan[i]) /\ ~plan[i].active}

FirstIdle(plan) == CHOOSE i \in Idle(plan) : \A j \in Idle(plan) : i <= j

\* Segments with enough left to be cut in two; the largest is taken, and the
\* last of the largest when there are several.
Splittable(plan, minSplit) ==
  {i \in DOMAIN plan : Remaining(plan[i]) >= 2 * minSplit}

LargestSplittable(plan, minSplit) ==
  CHOOSE i \in Splittable(plan, minSplit) :
    \A j \in Splittable(plan, minSplit) :
      \/ Remaining(plan[j]) < Remaining(plan[i])
      \/ Remaining(plan[j]) = Remaining(plan[i]) /\ j <= i

\* The first byte of the new back half, from the cursor and end read last.
CutPoint(cursor, end) == cursor + (end - cursor + 1) \div 2

\* The split is given up unless both halves are worth a connection.
CutAllowed(cursor, end, minSplit) ==
  LET mid == CutPoint(cursor, end)
  IN  /\ cursor <= end
      /\ cursor < mid
      /\ mid <= end
      /\ end - mid + 1 >= minSplit

\* Mutant: the victim keeps the first byte of the back half.
ShrinkTooLittle(plan, victim, mid) == [plan EXCEPT ![victim].end = mid]

ShrinkEnd(plan, victim, mid) == [plan EXCEPT ![victim].end = mid - 1]
===========================================================================
