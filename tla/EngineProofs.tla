---------------------------- MODULE EngineProofs ----------------------------
(***************************************************************************)
(* Proofs about module Engine, for every value of its constants: that      *)
(* EngineInv is an inductive invariant, and the properties it implies.     *)
(***************************************************************************)
EXTENDS EngineInvariant, SegmentPlanProofs, FiniteSetTheorems

---------------------------------------------------------------------------
(* Choosing from a finite set. *)

\* A strict order has a greatest element in every finite set that is not empty.
LEMMA NothingAbove ==
  ASSUME NEW S, IsFiniteSet(S), S # {}, NEW R,
         \A x \in S : << x, x >> \notin R,
         \A x, y, z \in S : << x, y >> \in R /\ << y, z >> \in R => << x, z >> \in R
  PROVE  \E x \in S : \A y \in S : << x, y >> \notin R
<1> DEFINE Above(x) == {y \in S : << x, y >> \in R}
           T == {Above(x) : x \in S}
           Order == StrictSubsetOrdering(S)
<1>1. IsWellFoundedOn(Order, SUBSET S)
  BY FS_StrictSubsetOrderingWellFounded, FS_FiniteSubsetsOfFinite
<1>2. T \subseteq SUBSET S /\ T # {}
  <2>1. PICK x \in S : TRUE
    OBVIOUS
  <2>2. Above(x) \in T
    OBVIOUS
  <2>3. \A x1 \in S : Above(x1) \in SUBSET S
    OBVIOUS
  <2>4. ASSUME NEW t \in T PROVE t \in SUBSET S
    <3>1. PICK x1 \in S : t = Above(x1)
      OBVIOUS
    <3>2. QED
      BY <3>1
  <2>5. T # {}
    BY <2>2
  <2> HIDE DEF T
  <2>6. QED
    BY <2>4, <2>5
<1> HIDE DEF T
<1>3. PICK least \in T : \A other \in T : << other, least >> \notin Order
  BY <1>1, <1>2, WFMin
<1>4. PICK x \in S : least = Above(x)
  BY DEF T
<1>5. ASSUME NEW y \in S, << x, y >> \in R PROVE FALSE
  <2>1. Above(y) \subseteq Above(x) /\ Above(y) # Above(x)
    BY <1>5
  <2>2. Above(y) \in T
    BY DEF T
  <2>3. << Above(y), least >> \in Order
    BY <1>4, <2>1 DEF StrictSubsetOrdering
  <2>4. QED
    BY <1>3, <2>2, <2>3
<1>6. QED
  BY <1>5

\* The scan for an idle segment takes one of them.
LEMMA FirstIdleIsIdle ==
  ASSUME NEW plan \in Seq(SegmentRec), Idle(plan) # {}
  PROVE  FirstIdle(plan) \in Idle(plan)
<1> DEFINE S == Idle(plan)
           R == {ss \in S \X S : ss[2] < ss[1]}
<1>1. S \subseteq 1 .. Len(plan) /\ Len(plan) \in Nat
  BY DEF Idle
<1>2. IsFiniteSet(S)
  <2>1. IsFiniteSet(1 .. Len(plan))
    BY <1>1, FS_Interval
  <2> HIDE DEF S
  <2>2. QED
    BY <1>1, <2>1, FS_Subset
<1> HIDE DEF S
<1>3. \A x, y \in S : << x, y >> \in R <=> y < x
  OBVIOUS
<1> HIDE DEF R
<1>4. \A x, y \in S : x \in Int /\ y \in Int
  BY <1>1
<1>5. S # {}
  BY DEF S
<1>6. \E x \in S : \A y \in S : << x, y >> \notin R
  <2>1. \A x \in S : << x, x >> \notin R
    BY <1>3, <1>4
  <2>2. \A x, y, z \in S : << x, y >> \in R /\ << y, z >> \in R => << x, z >> \in R
    BY <1>3, <1>4
  <2>3. QED
    BY <1>2, <1>5, <2>1, <2>2, NothingAbove
<1>7. \E x \in S : \A y \in S : x <= y
  <2>1. PICK x \in S : \A y \in S : << x, y >> \notin R
    BY <1>6
  <2>2. \A y \in S : ~(y < x)
    BY <1>3, <2>1, Zenon
  <2>3. QED
    BY <1>4, <2>2
<1>8. QED
  BY <1>7 DEF FirstIdle, S

\* The segment chosen for a split is one that can be split.
LEMMA LargestIsSplittable ==
  ASSUME NEW plan \in Seq(SegmentRec), NEW floor \in Nat,
         Splittable(plan, floor) # {}
  PROVE  LargestSplittable(plan, floor) \in Splittable(plan, floor)
<1> DEFINE S == Splittable(plan, floor)
           Size(i) == Remaining(plan[i])
           R == {ss \in S \X S : \/ Size(ss[1]) < Size(ss[2])
                                 \/ Size(ss[1]) = Size(ss[2]) /\ ss[1] < ss[2]}
<1>1. S \subseteq 1 .. Len(plan) /\ Len(plan) \in Nat
  BY DEF Splittable
<1>2. IsFiniteSet(S)
  <2>1. IsFiniteSet(1 .. Len(plan))
    BY <1>1, FS_Interval
  <2> HIDE DEF S
  <2>2. QED
    BY <1>1, <2>1, FS_Subset
<1>3. \A x \in S : Size(x) \in Nat
  <2>1. \A x \in S : plan[x] \in SegmentRec
    BY DEF Splittable
  <2>2. QED
    BY <2>1 DEF SegmentRec, Remaining, Cursor
<1> HIDE DEF S, Size
<1>4. \A x, y \in S : << x, y >> \in R <=>
        Size(x) < Size(y) \/ (Size(x) = Size(y) /\ x < y)
  OBVIOUS
<1> HIDE DEF R
<1>5. \A x \in S : x \in Int
  BY <1>1
<1>6. S # {}
  BY DEF S
<1>7. \E x \in S : \A y \in S : << x, y >> \notin R
  <2>1. \A x \in S : << x, x >> \notin R
    BY <1>3, <1>4, <1>5
  <2>2. \A x, y, z \in S : << x, y >> \in R /\ << y, z >> \in R => << x, z >> \in R
    BY <1>3, <1>4, <1>5
  <2>3. QED
    BY <1>2, <1>6, <2>1, <2>2, NothingAbove
<1>8. \E x \in S : \A y \in S :
        Size(y) < Size(x) \/ (Size(y) = Size(x) /\ y <= x)
  <2>1. PICK x \in S : \A y \in S : << x, y >> \notin R
    BY <1>7
  <2>2. \A y \in S : ~(Size(x) < Size(y) \/ (Size(x) = Size(y) /\ x < y))
    BY <1>4, <2>1, Zenon
  <2>3. QED
    BY <1>3, <1>5, <2>2
<1>9. QED
  BY <1>8 DEF LargestSplittable, S, Size

---------------------------------------------------------------------------
(* The slots. *)

\* A slot without a task is a slot, and is free.
LEMMA FreeSlotType == FreeSlot \in SlotRec /\ FreeSlot.pc = "free"
BY DEF FreeSlot, SlotRec, WorkerSteps, Outcomes, Errors

\* The kinds of slot a worker moves to have their type.
LEMMA SlotTypes ==
  ASSUME TypeOK, NEW w \in Workers
  PROVE  /\ \A step \in WorkerSteps :
              /\ SlotAt(w, step) \in SlotRec
              /\ SlotAt(w, step).pc = step
              /\ SlotAt(w, step).seg = worker[w].seg
         /\ worker[w].attempt < MaxRetries =>
              /\ [SlotAt(w, "top") EXCEPT !.attempt = @ + 1] \in SlotRec
              /\ [SlotAt(w, "top") EXCEPT !.attempt = @ + 1].pc = "top"
              /\ [SlotAt(w, "top") EXCEPT !.attempt = @ + 1].seg = worker[w].seg
         /\ \A outcome \in Outcomes :
              /\ [FreeSlot EXCEPT !.pc = "sending", !.outcome = outcome] \in SlotRec
              /\ [FreeSlot EXCEPT !.pc = "sending", !.outcome = outcome].pc = "sending"
         /\ \A i \in Nat :
              /\ [FreeSlot EXCEPT !.pc = "top", !.seg = i] \in SlotRec
              /\ [FreeSlot EXCEPT !.pc = "top", !.seg = i].pc = "top"
              /\ [FreeSlot EXCEPT !.pc = "top", !.seg = i].seg = i
         /\ \A step, after \in WorkerSteps : \A pos \in Nat :
              [worker[w] EXCEPT !.pc = step, !.pos = pos, !.after = after] \in SlotRec
<1>1. worker[w] \in SlotRec
  BY DEF TypeOK
<1>2. FreeSlot \in SlotRec
  BY FreeSlotType
<1>3. {"top", "sending"} \subseteq WorkerSteps
  BY DEF WorkerSteps
<1>4. \A step \in WorkerSteps :
        /\ SlotAt(w, step) \in SlotRec
        /\ SlotAt(w, step).pc = step
        /\ SlotAt(w, step).seg = worker[w].seg
  BY <1>1, <1>2 DEF SlotAt, SlotRec
<1>5. worker[w].attempt < MaxRetries =>
        /\ [SlotAt(w, "top") EXCEPT !.attempt = @ + 1] \in SlotRec
        /\ [SlotAt(w, "top") EXCEPT !.attempt = @ + 1].pc = "top"
        /\ [SlotAt(w, "top") EXCEPT !.attempt = @ + 1].seg = worker[w].seg
  BY <1>1, <1>3, <1>4 DEF SlotRec
<1>6. \A outcome \in Outcomes :
        /\ [FreeSlot EXCEPT !.pc = "sending", !.outcome = outcome] \in SlotRec
        /\ [FreeSlot EXCEPT !.pc = "sending", !.outcome = outcome].pc = "sending"
  BY <1>2, <1>3 DEF SlotRec
<1>7. \A i \in Nat :
        /\ [FreeSlot EXCEPT !.pc = "top", !.seg = i] \in SlotRec
        /\ [FreeSlot EXCEPT !.pc = "top", !.seg = i].pc = "top"
        /\ [FreeSlot EXCEPT !.pc = "top", !.seg = i].seg = i
  BY <1>2, <1>3 DEF SlotRec
<1>8. \A step, after \in WorkerSteps : \A pos \in Nat :
        [worker[w] EXCEPT !.pc = step, !.pos = pos, !.after = after] \in SlotRec
  BY <1>1 DEF SlotRec
<1>9. QED
  BY <1>4, <1>5, <1>6, <1>7, <1>8

\* There are finitely many tasks.
LEMMA BusyIsFinite ==
  IsFiniteSet(Busy) /\ Cardinality(Busy) \in Nat
<1>1. Busy \subseteq Workers
  BY DEF Busy
<1>2. QED
  BY <1>1, EngineAssumption, FS_Subset, FS_CardinalityType

\* When the coordinator works alone, every slot is free and nothing is in the
\* mailbox.
LEMMA AloneMeansFree ==
  ASSUME TypeOK, Counted, inFlight = 0
  PROVE  Busy = {} /\ mailbox = << >> /\ \A w \in Workers : worker[w].pc = "free"
<1>1. Len(mailbox) \in Nat /\ (Len(mailbox) = 0 => mailbox = << >>)
  BY DEF TypeOK
<1>2. Cardinality(Busy) = 0 /\ Len(mailbox) = 0
  BY <1>1, BusyIsFinite DEF Counted
<1>3. Busy = {}
  BY <1>2, BusyIsFinite, FS_EmptySet
<1>4. QED
  BY <1>1, <1>2, <1>3 DEF Busy

---------------------------------------------------------------------------
(* The steps of the workers. *)

\* What the steps of worker w have in common: it moves to slot, keeps the
\* bounds of every segment and all of the other segments, and either goes on
\* with its segment, gives it up, or reports in.
Moves(w, slot) ==
  /\ slot \in SlotRec
  /\ worker' = [worker EXCEPT ![w] = slot]
  /\ segs' \in Seq(SegmentRec)
  /\ DOMAIN segs' = DOMAIN segs
  /\ \A i \in DOMAIN segs :
       /\ segs'[i].start = segs[i].start
       /\ segs'[i].end = segs[i].end
       /\ i # worker[w].seg => segs'[i] = segs[i]
  /\ \/ /\ Holding(w)
        /\ slot.pc \notin {"free", "sending"}
        /\ slot.seg = worker[w].seg
        /\ segs'[slot.seg].active = segs[slot.seg].active
        /\ mailbox' = mailbox
     \/ /\ Holding(w)
        /\ slot.pc = "sending"
        /\ mailbox' = mailbox
     \/ /\ worker[w].pc = "sending"
        /\ slot.pc = "free"
        /\ segs' = segs
        /\ mailbox' = Append(mailbox, worker[w].outcome)

\* A plan in which one field of a segment is replaced.
LEMMA ReplaceField ==
  ASSUME NEW plan \in Seq(SegmentRec), NEW i \in DOMAIN plan
  PROVE  /\ \A b \in BOOLEAN :
              LET new == [plan EXCEPT ![i].active = b]
              IN  /\ new \in Seq(SegmentRec)
                  /\ DOMAIN new = DOMAIN plan
                  /\ new[i] = [plan[i] EXCEPT !.active = b]
                  /\ \A j \in DOMAIN plan : j # i => new[j] = plan[j]
         /\ \A d \in Nat :
              LET new == [plan EXCEPT ![i].done = d]
              IN  /\ new \in Seq(SegmentRec)
                  /\ DOMAIN new = DOMAIN plan
                  /\ new[i] = [plan[i] EXCEPT !.done = d]
                  /\ \A j \in DOMAIN plan : j # i => new[j] = plan[j]
         /\ \A e \in Nat :
              LET new == [plan EXCEPT ![i].end = e]
              IN  /\ new \in Seq(SegmentRec)
                  /\ DOMAIN new = DOMAIN plan
                  /\ new[i] = [plan[i] EXCEPT !.end = e]
                  /\ \A j \in DOMAIN plan : j # i => new[j] = plan[j]
<1>1. plan[i] \in SegmentRec
  OBVIOUS
<1>2. /\ \A b \in BOOLEAN : [plan[i] EXCEPT !.active = b] \in SegmentRec
      /\ \A d \in Nat : [plan[i] EXCEPT !.done = d] \in SegmentRec
      /\ \A e \in Nat : [plan[i] EXCEPT !.end = e] \in SegmentRec
  BY <1>1, SegmentFields
<1>3. ASSUME NEW r \in SegmentRec
      PROVE  LET new == [plan EXCEPT ![i] = r]
             IN  /\ new \in Seq(SegmentRec)
                 /\ DOMAIN new = DOMAIN plan
                 /\ new[i] = r
                 /\ \A j \in DOMAIN plan : j # i => new[j] = plan[j]
  OBVIOUS
<1>4. QED
  BY <1>2, <1>3

\* A task that goes on moves as Moves says.
LEMMA GoesMoves ==
  ASSUME TypeOK, NEW w \in Workers, Holding(w), NEW slot \in SlotRec,
         Goes(w, slot), slot.pc \notin {"free", "sending"},
         slot.seg = worker[w].seg, segs' = segs, mailbox' = mailbox
  PROVE  Moves(w, slot)
BY DEF Moves, Goes, TypeOK

\* A task that gives its segment up moves as Moves says.
LEMMA LeaveMoves ==
  ASSUME TypeOK, NEW w \in Workers, Holding(w), worker[w].seg \in DOMAIN segs,
         NEW outcome \in Outcomes, Leave(w, outcome), mailbox' = mailbox
  PROVE  Moves(w, [FreeSlot EXCEPT !.pc = "sending", !.outcome = outcome])
<1> DEFINE slot == [FreeSlot EXCEPT !.pc = "sending", !.outcome = outcome]
           i == worker[w].seg
<1>1. slot \in SlotRec /\ slot.pc = "sending"
  BY SlotTypes
<1>2. segs \in Seq(SegmentRec)
  BY DEF TypeOK
<1>3. segs' = [segs EXCEPT ![i].active = FALSE] /\ worker' = [worker EXCEPT ![w] = slot]
  BY DEF Leave, Goes
<1>4. /\ segs' \in Seq(SegmentRec)
      /\ DOMAIN segs' = DOMAIN segs
      /\ segs'[i] = [segs[i] EXCEPT !.active = FALSE]
      /\ \A j \in DOMAIN segs : j # i => segs'[j] = segs[j]
  BY <1>2, <1>3, ReplaceField
<1>5. segs[i] \in SegmentRec
  BY <1>2
<1>6. segs'[i].start = segs[i].start /\ segs'[i].end = segs[i].end
  BY <1>4, <1>5 DEF SegmentRec
<1> HIDE DEF slot, i
<1>7. QED
  BY <1>1, <1>3, <1>4, <1>6 DEF Moves, i, slot

\* A task that tries again, or has no try left, moves as Moves says.
LEMMA TryAgainMoves ==
  ASSUME TypeOK, NEW w \in Workers, Holding(w), worker[w].seg \in DOMAIN segs,
         NEW rewind \in BOOLEAN, TryAgain(w, rewind), mailbox' = mailbox
  PROVE  \E slot : Moves(w, slot)
<1>1. CASE worker[w].attempt < MaxRetries
  <2> DEFINE slot == [SlotAt(w, "top") EXCEPT !.attempt = @ + 1]
             i == worker[w].seg
  <2>1. slot \in SlotRec /\ slot.pc = "top" /\ slot.seg = i
    BY <1>1, SlotTypes
  <2>2. segs \in Seq(SegmentRec)
    BY DEF TypeOK
  <2>3. /\ worker' = [worker EXCEPT ![w] = slot]
        /\ segs' = segs \/ segs' = [segs EXCEPT ![i].done = 0]
    BY <1>1 DEF TryAgain, Goes
  <2>4. /\ segs' \in Seq(SegmentRec)
        /\ DOMAIN segs' = DOMAIN segs
        /\ segs'[i] = segs[i] \/ segs'[i] = [segs[i] EXCEPT !.done = 0]
        /\ \A j \in DOMAIN segs : j # i => segs'[j] = segs[j]
    <3>1. CASE segs' = segs
      BY <3>1, <2>2
    <3>2. CASE segs' = [segs EXCEPT ![i].done = 0]
      BY <3>2, <2>2, ReplaceField
    <3>3. QED
      BY <2>3, <3>1, <3>2
  <2>5. segs[i] \in SegmentRec
    BY <2>2
  <2>6. /\ segs'[i].start = segs[i].start
        /\ segs'[i].end = segs[i].end
        /\ segs'[i].active = segs[i].active
    BY <2>4, <2>5 DEF SegmentRec
  <2> HIDE DEF slot, i
  <2>7. Moves(w, slot)
    BY <2>1, <2>3, <2>4, <2>6 DEF Moves, i
  <2>8. QED
    BY <2>7
<1>2. CASE ~(worker[w].attempt < MaxRetries)
  BY <1>2, LeaveMoves DEF TryAgain, Outcomes, Errors
<1>3. QED
  BY <1>1, <1>2

\* The steps a worker takes while it has a segment.
LEMMA HoldingMoves ==
  ASSUME EngineInv, NEW w \in Workers, Worker(w), worker[w].pc # "sending"
  PROVE  \E slot : Moves(w, slot)
<1> DEFINE slot == worker[w]
           s == segs[slot.seg]
           Step(new) == new \in SlotRec /\ new.pc \notin {"free", "sending"}
                        /\ new.seg = slot.seg
<1>1. /\ TypeOK
      /\ slot \in SlotRec
      /\ MaxChunk \in Nat /\ Total \in Nat
      /\ Aligned(w)
  BY EngineAssumption DEF EngineInv, TypeOK
<1>2. slot.pc # "free"
  BY DEF Worker, Top, Respond, RespondFull, RespondFatal, RespondRetryable,
         StopSeen, BodyEnds, BodyBreaks, Write, WriteFails, Credit, Ended,
         Retry, Stopped, Send, Chunk
<1>3. Holding(w)
  BY <1>2 DEF Holding
<1>4. slot.seg \in DOMAIN segs
  BY <1>3 DEF EngineInv, SegmentsAreExclusive
<1>5. s \in SegmentRec
  BY <1>1, <1>4 DEF TypeOK
<1>6. Cursor(s) \in Nat /\ s.end \in Nat /\ s.done \in Nat
  BY <1>5 DEF SegmentRec, Cursor
<1>7. ASSUME NEW outcome \in Outcomes, Leave(w, outcome), mailbox' = mailbox
      PROVE  \E new : Moves(w, new)
  BY <1>1, <1>3, <1>4, <1>7, LeaveMoves
<1>8. ASSUME NEW new, Step(new), Goes(w, new), segs' = segs, mailbox' = mailbox
      PROVE  \E new1 : Moves(w, new1)
  BY <1>1, <1>3, <1>8, GoesMoves
<1>9. ASSUME NEW rewind \in BOOLEAN, TryAgain(w, rewind), mailbox' = mailbox
      PROVE  \E new : Moves(w, new)
  BY <1>1, <1>3, <1>4, <1>9, TryAgainMoves
<1>10. {"ok", "failed", "cancelled", "rangeLost"} \subseteq Outcomes
  BY DEF Outcomes, Errors
<1>11. {"top", "asked", "stream", "flush", "credit", "ended", "retry",
        "cancelled"} \subseteq WorkerSteps
  BY DEF WorkerSteps
<1>12. \A step \in {"ended", "retry", "cancelled"} : Step(SlotAt(w, step))
  <2> SUFFICES ASSUME NEW step \in {"ended", "retry", "cancelled"}
               PROVE  Step(SlotAt(w, step))
    OBVIOUS
  <2>1. step \in WorkerSteps
    BY <1>11
  <2>2. /\ SlotAt(w, step) \in SlotRec
        /\ SlotAt(w, step).pc = step
        /\ SlotAt(w, step).seg = slot.seg
    BY <1>1, <2>1, SlotTypes, Zenon
  <2>3. QED
    BY <2>2
<1>13. slot.pc \in {"flush", "credit"} => Step(Flushed(w))
  <2>1. SUFFICES ASSUME slot.pc \in {"flush", "credit"} PROVE Step(Flushed(w))
    OBVIOUS
  <2>2. slot.after \in {"stream", "ended", "retry", "cancelled"}
    BY <1>1, <2>1 DEF Aligned
  <2>3. CASE slot.after = "stream"
    BY <2>3, <1>1, <1>11 DEF Flushed, SlotRec
  <2>4. CASE slot.after # "stream"
    <3>1. Flushed(w) = SlotAt(w, slot.after)
      BY <2>4 DEF Flushed
    <3>2. Step(SlotAt(w, slot.after))
      BY <2>2, <2>4, <1>12
    <3>3. QED
      BY <3>1, <3>2, Zenon
  <2>5. QED
    BY <2>3, <2>4
<1>14. \A pos \in Nat : \A after \in {"stream", "ended", "retry", "cancelled"} :
         Step([slot EXCEPT !.pc = "flush", !.pos = pos, !.after = after])
  BY <1>1, <1>11 DEF SlotRec
<1>15. CASE Top(w)
  <2>1. \A c, d \in Nat, e \in Int :
          Step([slot EXCEPT !.pc = "asked", !.from = c, !.pos = d, !.limit = e])
    BY <1>1, <1>11 DEF SlotRec
  <2>2. QED
    <3> DEFINE new == [slot EXCEPT !.pc = "asked", !.from = Cursor(s),
                                   !.pos = Cursor(s), !.limit = s.end]
    <3>1. /\ mailbox' = mailbox
          /\ \/ \E outcome \in {"ok", "failed", "cancelled"} : Leave(w, outcome)
             \/ Goes(w, new) /\ segs' = segs
      BY <1>15 DEF Top
    <3>2. s.end \in Int
      BY <1>6
    <3> HIDE DEF Step
    <3>3. Step(new)
      BY <2>1, <1>6, <3>2
    <3> HIDE DEF new
    <3>4. QED
      BY <3>1, <3>3, <1>7, <1>8, <1>10
<1>16. CASE Respond(w)
  <2>1. /\ Step([slot EXCEPT !.pc = "stream"])
        /\ \A k, l \in Int :
             Step([slot EXCEPT !.pc = "stream", !.skew = k, !.limit = l])
    BY <1>1, <1>11 DEF SlotRec
  <2>2. -slot.pos \in Int /\ slot.pos + Total - 1 \in Int
    BY <1>1 DEF SlotRec
  <2>3. QED
    BY <1>16, <2>1, <2>2, <1>8 DEF Respond
<1>17. CASE RespondFull(w) \/ RespondFatal(w) \/ Stopped(w)
  BY <1>17, <1>7, <1>10 DEF RespondFull, RespondFatal, Stopped
<1>18. CASE RespondRetryable(w) \/ WriteFails(w)
  <2>1. Step(SlotAt(w, "retry"))
    BY <1>12
  <2>2. QED
    BY <1>18, <2>1, <1>7, <1>8, <1>10 DEF RespondRetryable, WriteFails
<1>19. CASE StopSeen(w) \/ BodyEnds(w) \/ BodyBreaks(w)
  <2>1. slot.pos \in Nat
    BY <1>1 DEF SlotRec
  <2>2. QED
    BY <1>19, <2>1, <1>8, <1>14 DEF StopSeen, BodyEnds, BodyBreaks, FlushThen
<1>20. CASE Write(w)
  <2>1. slot.pc = "flush" => Step([slot EXCEPT !.pc = "credit"])
    BY <1>1, <1>11 DEF SlotRec
  <2>2. QED
    BY <1>20, <2>1, <1>8, <1>13 DEF Write
<1>21. CASE Credit(w)
  <2> DEFINE i == slot.seg
             new == [segs EXCEPT ![i].done = @ + (slot.pos - slot.from)]
  <2>1. slot.pc = "credit" /\ segs' = new /\ mailbox' = mailbox
        /\ worker' = [worker EXCEPT ![w] = Flushed(w)]
    BY <1>21 DEF Credit, Goes
  <2>2. segs[i].done + (slot.pos - slot.from) \in Nat
    BY <2>1, <1>1, <1>6 DEF Aligned, SlotRec
  <2>3. new = [segs EXCEPT ![i].done = segs[i].done + (slot.pos - slot.from)]
    OBVIOUS
  <2> HIDE DEF new
  <2>4. segs \in Seq(SegmentRec)
    BY <1>1 DEF TypeOK
  <2>5. /\ segs' \in Seq(SegmentRec)
        /\ DOMAIN segs' = DOMAIN segs
        /\ \A j \in DOMAIN segs : j # i => segs'[j] = segs[j]
        /\ segs'[i] = [segs[i] EXCEPT !.done = segs[i].done + (slot.pos - slot.from)]
    BY <2>1, <2>2, <2>3, <2>4, <1>4, ReplaceField
  <2>6. /\ segs'[i].start = segs[i].start
        /\ segs'[i].end = segs[i].end
        /\ segs'[i].active = segs[i].active
    BY <2>5, <1>5 DEF SegmentRec
  <2>7. Step(Flushed(w))
    BY <2>1, <1>13
  <2>8. Moves(w, Flushed(w))
    BY <2>1, <2>5, <2>6, <2>7, <1>3 DEF Moves
  <2>9. QED
    BY <2>8
<1>22. CASE Ended(w) \/ Retry(w)
  BY <1>22, <1>7, <1>9, <1>10 DEF Ended, Retry
<1>23. CASE \E n \in 1 .. MaxChunk : Chunk(w, n)
  <2>1. PICK n \in 1 .. MaxChunk : Chunk(w, n)
    BY <1>23
  <2> DEFINE next == slot.pos + Smaller(n, s.end - slot.pos + 1)
  <2>2. slot.pos \in Nat
    BY <1>1 DEF SlotRec
  <2>3. slot.pos <= s.end => next \in Nat
    BY <2>2, <1>1, <1>6 DEF Smaller
  <2>4. \A pos \in Nat : slot.pc = "stream" => Step([slot EXCEPT !.pos = pos])
    BY <1>1 DEF SlotRec
  <2>5. /\ mailbox' = mailbox /\ segs' = segs /\ slot.pc = "stream"
        /\ \/ FlushThen(w, slot.pos, "ended")
           \/ slot.pos <= s.end /\ FlushThen(w, next, "ended")
           \/ slot.pos <= s.end /\ FlushThen(w, next, "stream")
           \/ slot.pos <= s.end /\ Goes(w, [slot EXCEPT !.pos = next])
    BY <2>1, <2>2, <1>6 DEF Chunk
  <2> HIDE DEF next
  <2>6. QED
    BY <2>2, <2>3, <2>4, <2>5, <1>8, <1>14 DEF FlushThen
<1>24. CASE Send(w)
  BY <1>24 DEF Send
<1>25. QED
  BY <1>15, <1>16, <1>17, <1>18, <1>19, <1>20, <1>21, <1>22, <1>23, <1>24
     DEF Worker

\* Whatever a worker does, it moves as Moves says.
LEMMA WorkerMoves ==
  ASSUME EngineInv, NEW w \in Workers, Worker(w)
  PROVE  \E slot : Moves(w, slot)
<1>1. CASE worker[w].pc # "sending"
  BY <1>1, HoldingMoves
<1>2. CASE worker[w].pc = "sending"
  <2>1. Send(w)
    BY <1>2 DEF Worker, Top, Respond, RespondFull, RespondFatal, RespondRetryable,
         StopSeen, BodyEnds, BodyBreaks, Write, WriteFails, Credit, Ended,
         Retry, Stopped, Send, Chunk
  <2>2. segs \in Seq(SegmentRec)
    BY DEF EngineInv, TypeOK
  <2>3. Moves(w, FreeSlot)
    BY <1>2, <2>1, <2>2, FreeSlotType DEF Send, Goes, Moves
  <2>4. QED
    BY <2>3
<1>3. QED
  BY <1>1, <1>2

\* What no worker changes.
LEMMA WorkerFrame ==
  ASSUME EngineInv, NEW w \in Workers, Worker(w)
  PROVE  /\ UNCHANGED <<hasPart, control, final, useRanges, co, cut, inFlight,
                        stop, fatal, cancel, result, attempts>>
         /\ part' \in [Byte -> Int]
         /\ faults' \in Nat
<1>1. /\ part \in [Byte -> Int]
      /\ faults \in Nat
      /\ worker[w] \in SlotRec
  BY DEF EngineInv, TypeOK
<1>2. worker[w].skew \in Int
  BY <1>1 DEF SlotRec
<1>3. \A p \in Byte : p + worker[w].skew \in Int
  BY <1>2 DEF Byte
<1>4. WorkerLeavesAlone
  BY DEF Worker, Top, Respond, RespondFull, RespondFatal, RespondRetryable,
         StopSeen, BodyEnds, BodyBreaks, Write, WriteFails, Credit, Ended,
         Retry, Stopped, Send, Chunk
<1>5. part' \in [Byte -> Int]
  <2>1. CASE Write(w)
    BY <2>1, <1>1, <1>3 DEF Write
  <2>2. CASE WriteFails(w)
    BY <2>2, <1>1, <1>3 DEF WriteFails
  <2>3. CASE ~Write(w) /\ ~WriteFails(w)
    BY <2>3, <1>1 DEF Worker, Top, Respond, RespondFull, RespondFatal,
       RespondRetryable, StopSeen, BodyEnds, BodyBreaks, Credit, Ended, Retry,
       Stopped, Send, Chunk
  <2>4. QED
    BY <2>1, <2>2, <2>3
<1>6. faults' = faults \/ (faults > 0 /\ faults' = faults - 1)
  BY DEF Worker, Top, Respond, RespondFull, RespondFatal, RespondRetryable,
         StopSeen, BodyEnds, BodyBreaks, Write, WriteFails, Credit, Ended,
         Retry, Stopped, Send, Chunk
<1>7. QED
  BY <1>1, <1>4, <1>5, <1>6 DEF WorkerLeavesAlone, coordination

\* A worker's step keeps the types, the count of results to come, and the
\* exclusive hold on segments.
LEMMA WorkerTyped ==
  ASSUME EngineInv, NEW w \in Workers, Worker(w)
  PROVE  TypeOK'
<1>1. PICK slot : Moves(w, slot)
  BY WorkerMoves
<1>2. TypeOK
  BY DEF EngineInv
<1>3. worker' \in [Workers -> SlotRec]
  BY <1>1, <1>2 DEF Moves, TypeOK
<1>4. mailbox' \in Seq(Outcomes)
  <2>1. mailbox \in Seq(Outcomes) /\ worker[w].outcome \in Outcomes
    BY <1>2 DEF TypeOK, SlotRec
  <2>2. QED
    BY <2>1, <1>1 DEF Moves
<1>5. segs' \in Seq(SegmentRec)
  BY <1>1 DEF Moves
<1>6. QED
  BY <1>2, <1>3, <1>4, <1>5, WorkerFrame DEF TypeOK

\* A worker's step keeps the count of results to come.
LEMMA WorkerCounted ==
  ASSUME EngineInv, NEW w \in Workers, Worker(w)
  PROVE  Counted'
<1>1. PICK slot : Moves(w, slot)
  BY WorkerMoves
<1>2. TypeOK /\ Counted
  BY DEF EngineInv
<1>3. inFlight' = inFlight /\ co' = co
  BY WorkerFrame
<1>4. worker \in [Workers -> SlotRec] /\ worker' = [worker EXCEPT ![w] = slot]
  BY <1>1, <1>2 DEF Moves, TypeOK
<1>5. CASE Holding(w) /\ slot.pc # "free" /\ mailbox' = mailbox
  <2>1. Busy' = Busy
    BY <1>4, <1>5 DEF Busy, Holding
  <2>2. QED
    BY <1>2, <1>3, <1>5, <2>1 DEF Counted
<1>6. CASE worker[w].pc = "sending" /\ slot.pc = "free"
           /\ mailbox' = Append(mailbox, worker[w].outcome)
  <2>1. Busy' = Busy \ {w} /\ w \in Busy
    BY <1>4, <1>6 DEF Busy
  <2>2. Cardinality(Busy') = Cardinality(Busy) - 1
    BY <2>1, BusyIsFinite, FS_RemoveElement
  <2>3. Len(mailbox') = Len(mailbox) + 1 /\ Len(mailbox) \in Nat
    BY <1>2, <1>6 DEF TypeOK
  <2>4. QED
    BY <1>2, <1>3, <2>2, <2>3, BusyIsFinite DEF Counted
<1>7. QED
  BY <1>1, <1>5, <1>6 DEF Moves

\* A worker's step gives nobody a segment another worker has.
LEMMA WorkerExclusive ==
  ASSUME EngineInv, NEW w \in Workers, Worker(w)
  PROVE  SegmentsAreExclusive'
<1>1. PICK slot : Moves(w, slot)
  BY WorkerMoves
<1>2. TypeOK /\ SegmentsAreExclusive
  BY DEF EngineInv
<1>3. /\ worker' = [worker EXCEPT ![w] = slot]
      /\ \A v \in Workers : v # w => worker'[v] = worker[v]
      /\ worker'[w] = slot
  BY <1>1, <1>2 DEF Moves, TypeOK
<1>4. \A v \in Workers : Holding(v)' =>
        Holding(v) /\ worker'[v].seg = worker[v].seg
  BY <1>1, <1>3 DEF Moves, Holding
<1>5. ASSUME NEW v \in Workers, Holding(v)'
      PROVE  worker'[v].seg \in DOMAIN segs' /\ segs'[worker'[v].seg].active
  <2>1. Holding(v) /\ worker'[v].seg = worker[v].seg
    BY <1>4, <1>5
  <2>2. worker[v].seg \in DOMAIN segs /\ segs[worker[v].seg].active
    BY <1>2, <2>1 DEF SegmentsAreExclusive
  <2>3. CASE v = w
    BY <2>1, <2>2, <2>3, <1>1, <1>3, <1>5 DEF Moves, Holding
  <2>4. CASE v # w /\ Holding(w)
    <3>1. worker[v].seg # worker[w].seg
      BY <2>1, <2>4, <1>2 DEF SegmentsAreExclusive
    <3>2. QED
      BY <3>1, <2>1, <2>2, <1>1 DEF Moves
  <2>5. CASE ~Holding(w)
    BY <2>5, <2>1, <2>2, <1>1 DEF Moves
  <2>6. QED
    BY <2>3, <2>4, <2>5
<1>6. QED
  BY <1>2, <1>4, <1>5 DEF SegmentsAreExclusive

\* The bounds of the segments stay as they are, and with them what depends on
\* the bounds only.
LEMMA WorkerKeepsBounds ==
  ASSUME EngineInv, NEW w \in Workers, Worker(w)
  PROVE  CutIsInside' /\ PlanIsThere' /\ PlanTilesFile'
<1>1. PICK slot : Moves(w, slot)
  BY WorkerMoves
<1>2. /\ UNCHANGED <<co, cut, control, hasPart, useRanges>>
      /\ DOMAIN segs' = DOMAIN segs
      /\ \A i \in DOMAIN segs :
           segs'[i].start = segs[i].start /\ segs'[i].end = segs[i].end
      /\ segs \in Seq(SegmentRec) /\ segs' \in Seq(SegmentRec)
  BY <1>1, WorkerFrame DEF Moves, EngineInv, TypeOK
<1>3. segs' = << >> <=> segs = << >>
  BY <1>2
<1>4. CutIsInside'
  BY <1>2 DEF EngineInv, CutIsInside
<1>5. PlanIsThere'
  BY <1>2, <1>3 DEF EngineInv, PlanIsThere
<1>6. PlanTilesFile'
  BY <1>2, <1>3 DEF EngineInv, PlanTilesFile, Tiles
<1>7. QED
  BY <1>4, <1>5, <1>6

\* What a worker writes is always the byte that belongs there.
LEMMA WorkerBytes ==
  ASSUME EngineInv, NEW w \in Workers, Worker(w)
  PROVE  \A p \in Byte : part'[p] = part[p] \/ part'[p] = p
<1>1. Aligned(w) /\ worker[w] \in SlotRec /\ part \in [Byte -> Int]
  BY DEF EngineInv, TypeOK
<1>2. worker[w].pc = "flush" => worker[w].skew = 0
  BY <1>1 DEF Aligned
<1>3. \A p \in Byte : p + 0 = p
  BY DEF Byte
<1>4. CASE Write(w)
  BY <1>4, <1>1, <1>2, <1>3 DEF Write
<1>5. CASE WriteFails(w)
  BY <1>5, <1>1, <1>2, <1>3 DEF WriteFails
<1>6. CASE ~Write(w) /\ ~WriteFails(w)
  BY <1>6 DEF Worker, Top, Respond, RespondFull, RespondFatal,
     RespondRetryable, StopSeen, BodyEnds, BodyBreaks, Credit, Ended, Retry,
     Stopped, Send, Chunk
<1>7. QED
  BY <1>4, <1>5, <1>6

\* Of the segment it holds, a worker's step leaves done alone, or takes it back
\* to zero, or moves the cursor behind a buffer that is in the file.
LEMMA WorkerCursor ==
  ASSUME EngineInv, NEW w \in Workers, Worker(w),
         worker[w].pc # "sending"
  PROVE  LET i == worker[w].seg
         IN  \/ segs'[i].done = segs[i].done
             \/ segs'[i].done = 0
             \/ /\ worker[w].pc = "credit"
                /\ segs'[i].done = segs[i].done + (worker[w].pos - worker[w].from)
<1> DEFINE i == worker[w].seg
<1>1. segs \in Seq(SegmentRec)
  BY DEF EngineInv, TypeOK
<1>2. worker[w].pc # "free"
  BY DEF Worker, Top, Respond, RespondFull, RespondFatal, RespondRetryable,
         StopSeen, BodyEnds, BodyBreaks, Write, WriteFails, Credit, Ended,
         Retry, Stopped, Send, Chunk
<1>3. i \in DOMAIN segs
  BY <1>2 DEF EngineInv, SegmentsAreExclusive, Holding
<1>4. segs[i] \in SegmentRec
  BY <1>1, <1>3
<1>5. ASSUME NEW outcome, Leave(w, outcome)
      PROVE  segs'[i].done = segs[i].done
  BY <1>1, <1>3, <1>4, <1>5, ReplaceField DEF Leave, SegmentRec
<1>6. ASSUME NEW rewind, TryAgain(w, rewind)
      PROVE  segs'[i].done = segs[i].done \/ segs'[i].done = 0
  <2>1. segs' = segs \/ segs' = [segs EXCEPT ![i].done = 0] \/ Leave(w, "failed")
    BY <1>6 DEF TryAgain
  <2>2. CASE segs' = [segs EXCEPT ![i].done = 0]
    BY <2>2, <1>1, <1>3, <1>4, ReplaceField DEF SegmentRec
  <2>3. QED
    BY <2>1, <2>2, <1>5
<1>7. CASE Credit(w)
  <2>1. segs' = [segs EXCEPT ![i].done = @ + (worker[w].pos - worker[w].from)]
        /\ worker[w].pc = "credit"
    BY <1>7 DEF Credit
  <2>2. QED
    BY <2>1, <1>1, <1>3, <1>4 DEF SegmentRec
<1>8. CASE ~Credit(w)
  <2>1. \/ segs' = segs
        \/ \E outcome : Leave(w, outcome)
        \/ \E rewind : TryAgain(w, rewind)
    BY <1>8 DEF Worker, Top, Respond, RespondFull, RespondFatal,
       RespondRetryable, StopSeen, BodyEnds, BodyBreaks, Write, WriteFails,
       Ended, Retry, Stopped, Send, Chunk
  <2>2. QED
    BY <2>1, <1>5, <1>6
<1>9. QED
  BY <1>7, <1>8

\* What is counted stays written, and stays within the file.
LEMMA WorkerClaims ==
  ASSUME EngineInv, NEW w \in Workers, Worker(w)
  PROVE  DoneIsWritten' /\ ControlIsWritten' /\ WithinFile(segs)'
<1>1. PICK slot : Moves(w, slot)
  BY WorkerMoves
<1>2. /\ segs \in Seq(SegmentRec) /\ segs' \in Seq(SegmentRec)
      /\ DOMAIN segs' = DOMAIN segs
      /\ worker[w] \in SlotRec
      /\ Aligned(w)
      /\ Total \in Nat
  BY <1>1, EngineAssumption DEF EngineInv, TypeOK, Moves
<1>3. \A p \in Byte : part[p] = p => part'[p] = p
  BY WorkerBytes
<1>4. ControlIsWritten'
  BY <1>3, WorkerFrame DEF EngineInv, ControlIsWritten, Claims, Cursor
<1>5. ASSUME NEW i \in DOMAIN segs
      PROVE  /\ segs'[i].start <= segs'[i].end
             /\ segs'[i].done > 0 => Cursor(segs'[i]) <= Total
             /\ SizeKnown /\ Total > 0 => segs'[i].end < Total
             /\ \A p \in Byte :
                  segs'[i].start <= p /\ p < Cursor(segs'[i]) => part'[p] = p
  <2>1. /\ segs[i].start <= segs[i].end
        /\ segs[i].done > 0 => Cursor(segs[i]) <= Total
        /\ SizeKnown /\ Total > 0 => segs[i].end < Total
        /\ \A p \in Byte :
             segs[i].start <= p /\ p < Cursor(segs[i]) => part'[p] = p
    BY <1>3 DEF EngineInv, WithinFile, DoneIsWritten, Claims
  <2>2. /\ segs'[i].start = segs[i].start
        /\ segs'[i].end = segs[i].end
    BY <1>1 DEF Moves
  <2>3. segs[i] \in SegmentRec /\ segs'[i] \in SegmentRec
    BY <1>2
  <2>4. CASE segs'[i].done = segs[i].done
    BY <2>1, <2>2, <2>4 DEF Cursor
  <2>5. CASE segs'[i].done = 0
    <3>1. Cursor(segs'[i]) = segs[i].start /\ ~(segs'[i].done > 0)
      BY <2>2, <2>3, <2>5 DEF Cursor, SegmentRec
    <3>2. \A p \in Byte : ~(segs[i].start <= p /\ p < segs[i].start)
      BY <2>3 DEF Byte, SegmentRec
    <3>3. QED
      BY <3>1, <3>2, <2>1, <2>2
  <2>6. CASE /\ i = worker[w].seg
             /\ worker[w].pc = "credit"
             /\ segs'[i].done = segs[i].done + (worker[w].pos - worker[w].from)
    <3>1. /\ worker[w].from = Cursor(segs[i])
          /\ worker[w].pos <= Total
          /\ \A p \in Byte : worker[w].from <= p /\ p < worker[w].pos => part[p] = p
      BY <2>6, <1>2 DEF Aligned
    <3>2. /\ worker[w].pos \in Nat
          /\ segs[i].start \in Nat /\ segs[i].done \in Nat
      BY <2>3, <1>2 DEF SegmentRec, SlotRec
    <3>3. Cursor(segs'[i]) = worker[w].pos /\ Cursor(segs[i]) \in Nat
      BY <3>1, <3>2, <2>2, <2>6 DEF Cursor
    <3>4. \A p \in Byte :
            segs[i].start <= p /\ p < worker[w].pos => part'[p] = p
      BY <3>1, <3>2, <3>3, <2>1, <1>3 DEF Byte
    <3>5. QED
      BY <3>1, <3>3, <3>4, <2>1, <2>2
  <2>7. QED
    <3>1. CASE worker[w].pc = "sending"
      BY <3>1, <2>4, <1>1 DEF Moves, Holding
    <3>2. CASE i # worker[w].seg
      BY <3>2, <2>4, <1>1 DEF Moves
    <3>3. CASE worker[w].pc # "sending" /\ i = worker[w].seg
      BY <3>3, <2>4, <2>5, <2>6, WorkerCursor
    <3>4. QED
      BY <3>1, <3>2, <3>3
<1>6. QED
  BY <1>2, <1>4, <1>5 DEF DoneIsWritten, Claims, WithinFile

\* The other workers stay aligned, because they hold other segments.
LEMMA OthersAligned ==
  ASSUME EngineInv, NEW w \in Workers, Worker(w), NEW v \in Workers, v # w
  PROVE  Aligned(v)'
<1>1. PICK slot : Moves(w, slot)
  BY WorkerMoves
<1>2. /\ worker'[v] = worker[v]
      /\ Aligned(v)
      /\ UNCHANGED useRanges
  BY <1>1, WorkerFrame DEF EngineInv, TypeOK, Moves
<1>3. \A p \in Byte : part[p] = p => part'[p] = p
  BY WorkerBytes
<1>4. Holding(v) => segs'[worker[v].seg] = segs[worker[v].seg]
  <2>1. SUFFICES ASSUME Holding(v)
                 PROVE  segs'[worker[v].seg] = segs[worker[v].seg]
    OBVIOUS
  <2>2. worker[v].seg \in DOMAIN segs
    BY <2>1 DEF EngineInv, SegmentsAreExclusive
  <2>3. Holding(w) => worker[v].seg # worker[w].seg
    BY <2>1 DEF EngineInv, SegmentsAreExclusive
  <2>4. QED
    BY <2>2, <2>3, <1>1 DEF Moves
<1>5. CASE Holding(v)
  <2>1. segs'[worker'[v].seg] = segs[worker[v].seg]
    BY <1>2, <1>4, <1>5
  <2>2. QED
    BY <2>1, <1>2, <1>3 DEF Aligned
<1>6. CASE ~Holding(v)
  BY <1>2, <1>6 DEF Aligned, Holding
<1>7. QED
  BY <1>5, <1>6

\* A worker stays aligned itself.
LEMMA StaysAligned ==
  ASSUME EngineInv, NEW w \in Workers, Worker(w)
  PROVE  Aligned(w)'
<1> DEFINE slot == worker[w]
           s == segs[slot.seg]
           new == worker'[w]
<1>1. PICK to : Moves(w, to)
  BY WorkerMoves
<1>2. /\ worker \in [Workers -> SlotRec] /\ slot \in SlotRec
      /\ UNCHANGED useRanges
      /\ Aligned(w)
      /\ useRanges => SizeKnown /\ Total > 0
      /\ WithinFile(segs)
      /\ segs \in Seq(SegmentRec)
      /\ Total \in Nat
  BY WorkerFrame, EngineAssumption DEF EngineInv, TypeOK, PlanIsThere
<1>3. new = to /\ new \in SlotRec
  BY <1>1, <1>2 DEF Moves
<1>4. Holding(w) => slot.seg \in DOMAIN segs
  BY DEF EngineInv, SegmentsAreExclusive
<1>5. Holding(w) => s \in SegmentRec
  BY <1>2, <1>4
<1>6. /\ slot.pos \in Nat /\ slot.from \in Nat /\ slot.limit \in Int
  BY <1>2 DEF SlotRec
<1>7. ASSUME new.skew = 0,
             new.pc \in {"free", "top", "ended", "retry", "cancelled", "sending"}
      PROVE  Aligned(w)'
  BY <1>7 DEF Aligned
<1>8. ASSUME NEW outcome, Leave(w, outcome)
      PROVE  Aligned(w)'
  <2>1. new = [FreeSlot EXCEPT !.pc = "sending", !.outcome = outcome]
    BY <1>8, <1>2 DEF Leave, Goes
  <2>2. new.pc = "sending" /\ new.skew = 0
    BY <2>1 DEF FreeSlot
  <2>3. QED
    BY <2>2, <1>7
<1>9. ASSUME NEW step \in {"top", "ended", "retry", "cancelled"},
             Goes(w, SlotAt(w, step))
      PROVE  Aligned(w)'
  <2>1. new = SlotAt(w, step)
    BY <1>9, <1>2 DEF Goes
  <2>2. new.pc = step /\ new.skew = 0
    BY <2>1 DEF SlotAt, FreeSlot
  <2>3. QED
    BY <2>2, <1>7
<1>10. ASSUME NEW rewind, TryAgain(w, rewind)
       PROVE  Aligned(w)'
  <2>1. CASE Goes(w, [SlotAt(w, "top") EXCEPT !.attempt = @ + 1])
    <3>1. new = [SlotAt(w, "top") EXCEPT !.attempt = @ + 1]
      BY <2>1, <1>2 DEF Goes
    <3>2. new.pc = "top" /\ new.skew = 0
      BY <3>1 DEF SlotAt, FreeSlot
    <3>3. QED
      BY <3>2, <1>7
  <2>2. QED
    BY <2>1, <1>8, <1>10 DEF TryAgain
\* Where the stream is kept, it is as aligned as it was.
<1>11. ASSUME segs' = segs, part' = part, slot.pc = "stream",
              NEW pos \in Nat, slot.pos <= pos, pos <= Total,
              NEW after \in {"stream", "ended", "retry", "cancelled"},
              FlushThen(w, pos, after)
       PROVE  Aligned(w)'
  <2>1. new = [slot EXCEPT !.pc = "flush", !.pos = pos, !.after = after]
    BY <1>11, <1>2 DEF FlushThen, Goes
  <2>2. /\ new.pc = "flush" /\ new.pos = pos /\ new.after = after
        /\ new.from = slot.from /\ new.seg = slot.seg /\ new.skew = slot.skew
        /\ new.limit = slot.limit
    BY <2>1, <1>2 DEF SlotRec
  <2>3. /\ slot.from = Cursor(s) /\ slot.from <= slot.pos /\ slot.skew = 0
        /\ slot.limit < Total
    BY <1>2, <1>11 DEF Aligned
  <2>4. slot.from <= pos
    BY <2>3, <1>6, <1>11
  <2> HIDE DEF new
  <2>5. QED
    BY <2>2, <2>3, <2>4, <1>11 DEF Aligned, new
<1>12. ASSUME slot.pc \in {"flush", "credit"}, Goes(w, Flushed(w)),
              segs'[slot.seg].start = s.start,
              Cursor(segs'[slot.seg]) = slot.pos
       PROVE  Aligned(w)'
  <2>1. new = Flushed(w)
    BY <1>12, <1>2 DEF Goes
  <2>2. slot.after \in {"stream", "ended", "retry", "cancelled"}
    BY <1>2, <1>12 DEF Aligned
  <2>3. CASE slot.after # "stream"
    BY <2>2, <2>3, <1>9, <1>12 DEF Flushed
  <2>4. CASE slot.after = "stream"
    <3>1. new = [slot EXCEPT !.pc = "stream", !.from = slot.pos]
      BY <2>1, <2>4 DEF Flushed
    <3>2. /\ new.pc = "stream" /\ new.pos = slot.pos /\ new.from = slot.pos
          /\ new.seg = slot.seg /\ new.skew = slot.skew /\ new.limit = slot.limit
      BY <3>1, <1>2 DEF SlotRec
    <3>3. slot.skew = 0 /\ slot.limit < Total /\ slot.pos <= Total
      BY <2>4, <1>2, <1>12 DEF Aligned
    <3> HIDE DEF new
    <3>4. QED
      BY <3>2, <3>3, <1>6, <1>12 DEF Aligned, new
  <2>5. QED
    BY <2>3, <2>4
<1>13. CASE Top(w)
  <2>1. CASE \E outcome : Leave(w, outcome)
    BY <2>1, <1>8
  <2>2. CASE /\ Goes(w, [slot EXCEPT !.pc = "asked", !.from = Cursor(s),
                                     !.pos = Cursor(s), !.limit = s.end])
             /\ segs' = segs
             /\ ~IsComplete(s)
             /\ ~(~useRanges /\ Cursor(s) > 0)
    <3>1. new = [slot EXCEPT !.pc = "asked", !.from = Cursor(s),
                             !.pos = Cursor(s), !.limit = s.end]
      BY <2>2, <1>2 DEF Goes
    <3>2. /\ new.pc = "asked" /\ new.pos = Cursor(s) /\ new.from = Cursor(s)
          /\ new.seg = slot.seg /\ new.skew = slot.skew /\ new.limit = s.end
      BY <3>1, <1>2 DEF SlotRec
    <3>3. slot.pc = "top"
      BY <1>13 DEF Top
    <3>4. slot.seg \in DOMAIN segs /\ s \in SegmentRec
      BY <3>3, <1>4, <1>5 DEF Holding
    <3>5. Cursor(s) \in Nat /\ Cursor(s) <= Total
          /\ (SizeKnown /\ Total > 0 => s.end < Total)
      <4>1. Cursor(s) \in Nat /\ s.end \in Nat
        BY <3>4 DEF Cursor, SegmentRec
      <4>2. SizeKnown /\ Total > 0 => s.end < Total
        BY <3>4, <1>2 DEF WithinFile
      <4>3. Cursor(s) <= s.end
        BY <4>1, <2>2 DEF IsComplete, Remaining
      <4>4. CASE useRanges
        BY <4>1, <4>2, <4>3, <4>4, <1>2
      <4>5. CASE ~useRanges
        BY <4>1, <4>2, <4>5, <2>2, <1>2
      <4>6. QED
        BY <4>4, <4>5
    <3>6. slot.skew = 0 /\ Cursor(s) <= Cursor(s)
      BY <3>5, <1>2 DEF Aligned
    <3>7. segs'[new.seg] = s
      BY <3>2, <2>2
    <3> HIDE DEF new
    <3>8. QED
      BY <3>2, <3>5, <3>6, <3>7, <2>2, <1>2 DEF Aligned, new
  <2>3. QED
    BY <1>13, <2>1, <2>2 DEF Top
<1>14. CASE Respond(w)
  <2>1. slot.pc = "asked" /\ segs' = segs
    BY <1>14 DEF Respond
  <2>2. /\ slot.from = Cursor(s) /\ slot.from <= slot.pos /\ slot.pos <= Total
        /\ slot.skew = 0
        /\ IF useRanges THEN slot.limit < Total ELSE slot.pos = 0
    BY <2>1, <1>2 DEF Aligned
  <2>3. /\ new.pc = "stream" /\ new.pos = slot.pos /\ new.from = slot.from
        /\ new.seg = slot.seg /\ new.skew = 0 /\ new.limit < Total
    <3>1. CASE useRanges
      <4>1. new = [slot EXCEPT !.pc = "stream"]
        BY <3>1, <1>14, <1>2 DEF Respond, Goes
      <4>2. QED
        BY <4>1, <3>1, <2>2, <1>2 DEF SlotRec
    <3>2. CASE ~useRanges
      <4>1. new = [slot EXCEPT !.pc = "stream", !.skew = -slot.pos,
                               !.limit = slot.pos + Total - 1]
        BY <3>2, <1>14, <1>2 DEF Respond, Goes
      <4>2. /\ new.pc = "stream" /\ new.pos = slot.pos /\ new.from = slot.from
            /\ new.seg = slot.seg /\ new.skew = -slot.pos
            /\ new.limit = slot.pos + Total - 1
        BY <4>1, <1>2 DEF SlotRec
      <4> HIDE DEF new
      <4>3. QED
        BY <4>2, <3>2, <2>2, <1>2
    <3>3. QED
      BY <3>1, <3>2
  <2> HIDE DEF new
  <2>4. QED
    BY <2>1, <2>2, <2>3 DEF Aligned, new
<1>15. CASE RespondFull(w) \/ RespondFatal(w) \/ Stopped(w)
  BY <1>15, <1>8 DEF RespondFull, RespondFatal, Stopped
<1>16. CASE RespondRetryable(w) \/ WriteFails(w)
  BY <1>16, <1>8, <1>9 DEF RespondRetryable, WriteFails
<1>17. CASE StopSeen(w) \/ BodyEnds(w) \/ BodyBreaks(w)
  <2>1. /\ slot.pc = "stream" /\ segs' = segs /\ part' = part
        /\ \E after \in {"ended", "retry", "cancelled"} :
             FlushThen(w, slot.pos, after)
    BY <1>17 DEF StopSeen, BodyEnds, BodyBreaks
  <2>2. slot.pos <= Total /\ slot.pos <= slot.pos
    BY <2>1, <1>2, <1>6 DEF Aligned
  <2>3. QED
    BY <2>1, <2>2, <1>6, <1>11
<1>18. CASE \E n \in 1 .. MaxChunk : Chunk(w, n)
  <2>1. PICK n \in 1 .. MaxChunk : Chunk(w, n)
    BY <1>18
  <2> DEFINE take == Smaller(n, s.end - slot.pos + 1)
             next == slot.pos + take
  <2>2. /\ slot.pc = "stream" /\ segs' = segs /\ part' = part
        /\ slot.pos + n - 1 <= slot.limit
    BY <2>1 DEF Chunk
  <2>3. /\ slot.limit < Total /\ slot.pos <= Total
        /\ slot.from = Cursor(s) /\ slot.from <= slot.pos /\ slot.skew = 0
    BY <2>2, <1>2 DEF Aligned
  <2>4. s.end \in Nat /\ n \in Nat /\ n >= 1
    BY <2>2, <1>5, EngineAssumption DEF Holding, SegmentRec
  <2>5. slot.pos <= s.end =>
          next \in Nat /\ slot.pos <= next /\ next <= Total
    BY <2>2, <2>3, <2>4, <1>2, <1>6 DEF Smaller
  <2>6. \/ FlushThen(w, slot.pos, "ended")
        \/ slot.pos <= s.end /\ FlushThen(w, next, "ended")
        \/ slot.pos <= s.end /\ FlushThen(w, next, "stream")
        \/ slot.pos <= s.end /\ Goes(w, [slot EXCEPT !.pos = next])
    BY <2>1, <2>4, <1>6 DEF Chunk
  <2>7. CASE slot.pos <= s.end /\ Goes(w, [slot EXCEPT !.pos = next])
    <3>1. new = [slot EXCEPT !.pos = next]
      BY <2>7, <1>2 DEF Goes
    <3> HIDE DEF next
    <3>2. /\ new.pc = "stream" /\ new.pos = next /\ new.from = slot.from
          /\ new.seg = slot.seg /\ new.skew = slot.skew /\ new.limit = slot.limit
      BY <3>1, <2>2, <1>2 DEF SlotRec
    <3> HIDE DEF new
    <3>3. slot.from <= next
      BY <2>3, <2>5, <2>7, <1>6
    <3>4. QED
      BY <3>2, <3>3, <2>2, <2>3, <2>5, <2>7 DEF Aligned, new
  <2> HIDE DEF next
  <2>8. slot.pos <= slot.pos
    BY <1>6
  <2>9. QED
    BY <2>2, <2>3, <2>5, <2>6, <2>7, <2>8, <1>6, <1>11
<1>19. CASE Write(w)
  <2>1. slot.pc = "flush" /\ segs' = segs
    BY <1>19 DEF Write
  <2>2. /\ slot.from = Cursor(s) /\ slot.from <= slot.pos /\ slot.pos <= Total
        /\ slot.skew = 0 /\ slot.limit < Total
        /\ slot.after \in {"stream", "ended", "retry", "cancelled"}
    BY <2>1, <1>2 DEF Aligned
  <2>3. CASE slot.from = slot.pos
    BY <2>1, <2>2, <2>3, <1>12, <1>19 DEF Write
  <2>4. CASE slot.from # slot.pos
    <3>1. new = [slot EXCEPT !.pc = "credit"]
      BY <2>4, <1>19, <1>2 DEF Write, Goes
    <3>2. /\ new.pc = "credit" /\ new.pos = slot.pos /\ new.from = slot.from
          /\ new.seg = slot.seg /\ new.skew = 0 /\ new.limit = slot.limit
          /\ new.after = slot.after
      BY <3>1, <2>2, <1>2 DEF SlotRec
    <3>3. \A p \in Byte : slot.from <= p /\ p < slot.pos => part'[p] = p + 0
      BY <2>2, <2>4, <1>19 DEF Write
    <3>4. \A p \in Byte : p + 0 = p
      BY DEF Byte
    <3> HIDE DEF new
    <3>5. QED
      BY <3>2, <3>3, <3>4, <2>1, <2>2 DEF Aligned, new
  <2>5. QED
    BY <2>3, <2>4
<1>20. CASE Credit(w)
  <2>1. /\ slot.pc = "credit" /\ Goes(w, Flushed(w))
        /\ segs' = [segs EXCEPT ![slot.seg].done = @ + (slot.pos - slot.from)]
    BY <1>20 DEF Credit
  <2>2. slot.seg \in DOMAIN segs /\ s \in SegmentRec
    BY <2>1, <1>4, <1>5 DEF Holding
  <2>3. /\ segs'[slot.seg].start = s.start
        /\ segs'[slot.seg].done = s.done + (slot.pos - slot.from)
    BY <2>1, <2>2, <1>2 DEF SegmentRec
  <2>4. slot.from = s.start + s.done /\ s.start \in Nat /\ s.done \in Nat
    BY <2>1, <2>2, <1>2 DEF Aligned, Cursor, SegmentRec
  <2>5. Cursor(segs'[slot.seg]) = slot.pos
    BY <2>3, <2>4, <1>6 DEF Cursor
  <2>6. QED
    BY <2>1, <2>3, <2>5, <1>12
<1>21. CASE Ended(w) \/ Retry(w)
  BY <1>21, <1>8, <1>10 DEF Ended, Retry
<1>22. CASE Send(w)
  <2>1. new = FreeSlot
    BY <1>22, <1>2 DEF Send, Goes
  <2>2. new.pc = "free" /\ new.skew = 0
    BY <2>1 DEF FreeSlot
  <2>3. QED
    BY <2>2, <1>7
<1>23. QED
  BY <1>13, <1>14, <1>15, <1>16, <1>17, <1>18, <1>19, <1>20, <1>21, <1>22
     DEF Worker

\* A step of a worker keeps the invariant.
LEMMA WorkerStep ==
  ASSUME EngineInv, NEW w \in Workers, Worker(w)
  PROVE  EngineInv'
<1>1. TypeOK' /\ Counted' /\ SegmentsAreExclusive'
  BY WorkerTyped, WorkerCounted, WorkerExclusive
<1>2. CutIsInside' /\ PlanIsThere' /\ PlanTilesFile'
  BY WorkerKeepsBounds
<1>3. DoneIsWritten' /\ ControlIsWritten' /\ WithinFile(segs)'
  BY WorkerClaims
<1>4. \A v \in Workers : Aligned(v)'
  BY OthersAligned, StaysAligned
<1>5. UNCHANGED <<control, co, final, result>>
  BY WorkerFrame
<1>6. WithinFile(control)'
  BY <1>5 DEF EngineInv, WithinFile, Cursor
<1>7. co' # "finalize"
  <2>1. SUFFICES ASSUME co = "finalize" PROVE FALSE
    BY <1>5
  <2>2. inFlight = 0
    BY <2>1 DEF EngineInv, Counted, Alone
  <2>3. worker[w].pc = "free"
    BY <2>2, AloneMeansFree DEF EngineInv
  <2>4. QED
    BY <2>3 DEF Worker, Top, Respond, RespondFull, RespondFatal, RespondRetryable,
         StopSeen, BodyEnds, BodyBreaks, Write, WriteFails, Credit, Ended,
         Retry, Stopped, Send, Chunk
<1>8. FinishedFileIsWhole' /\ (co' = "forget" => final' # << >>)
  BY <1>5 DEF EngineInv, FinishedFileIsWhole
<1>9. QED
  BY <1>1, <1>2, <1>3, <1>4, <1>6, <1>7, <1>8 DEF EngineInv

---------------------------------------------------------------------------
(* The steps of the coordinator, of the user and of the machine. *)

\* The part of the invariant about the files and the plan.
DataInv ==
  /\ PlanIsThere
  /\ WithinFile(segs) /\ WithinFile(control)
  /\ PlanTilesFile
  /\ DoneIsWritten
  /\ ControlIsWritten
  /\ co = "finalize" => PlanComplete(segs)
  /\ FinishedFileIsWhole
  /\ co = "forget" => final # << >>

\* The part of the invariant about the tasks.
TaskInv ==
  /\ Counted
  /\ SegmentsAreExclusive
  /\ CutIsInside
  /\ \A w \in Workers : Aligned(w)

\* EngineInv is types, tasks and data.
LEMMA TwoParts == EngineInv <=> TypeOK /\ TaskInv /\ DataInv
BY DEF EngineInv, TaskInv, DataInv

\* A step that leaves files and plan alone, and stays on one side of the line
\* between having a plan and not having one, keeps the data part.
LEMMA DataKept ==
  ASSUME EngineInv,
         UNCHANGED <<part, hasPart, control, final, segs, useRanges, result>>,
         co' \notin {"open", "finalize", "forget"} \/ co' = co,
         co' \in NoPlan <=> co \in NoPlan
  PROVE  DataInv'
<1>1. DataInv
  BY TwoParts
<1>2. PlanIsThere'
  BY <1>1 DEF DataInv, PlanIsThere
<1>3. WithinFile(segs)' /\ WithinFile(control)'
  BY <1>1 DEF DataInv, WithinFile, Cursor
<1>4. PlanTilesFile'
  BY <1>1 DEF DataInv, PlanTilesFile, Tiles
<1>5. DoneIsWritten' /\ ControlIsWritten'
  BY <1>1 DEF DataInv, DoneIsWritten, ControlIsWritten, Claims, Cursor
<1>6. co' = "finalize" => PlanComplete(segs)'
  BY <1>1 DEF DataInv, PlanComplete, IsComplete, Remaining, Cursor
<1>7. FinishedFileIsWhole' /\ (co' = "forget" => final' # << >>)
  BY <1>1 DEF DataInv, FinishedFileIsWhole
<1>8. QED
  BY <1>2, <1>3, <1>4, <1>5, <1>6, <1>7 DEF DataInv

\* When the coordinator works alone there are no tasks to speak of, before and
\* after its step.
LEMMA TasksAbsent ==
  ASSUME EngineInv, co \in Alone, co' \notin {"cut", "split"},
         UNCHANGED <<worker, mailbox, inFlight>>
  PROVE  TaskInv'
<1>1. inFlight = 0 /\ \A w \in Workers : worker[w].pc = "free"
  BY AloneMeansFree DEF EngineInv, Counted
<1>2. Counted'
  BY <1>1 DEF EngineInv, Counted, Busy
<1>3. SegmentsAreExclusive'
  BY <1>1 DEF SegmentsAreExclusive, Holding
<1>4. CutIsInside'
  BY DEF CutIsInside
<1>5. \A w \in Workers : Aligned(w)'
  BY <1>1 DEF EngineInv, Aligned
<1>6. QED
  BY <1>2, <1>3, <1>4, <1>5 DEF TaskInv

\* A step of the coordinator that leaves slots and plan alone.
LEMMA TasksKept ==
  ASSUME EngineInv, UNCHANGED <<worker, segs, part, useRanges>>,
         inFlight' = Cardinality(Busy) + Len(mailbox'),
         co' \in Alone => inFlight' = 0,
         CutIsInside'
  PROVE  TaskInv'
<1>1. Busy' = Busy
  BY DEF Busy
<1>2. Counted'
  BY <1>1 DEF Counted
<1>3. SegmentsAreExclusive'
  BY DEF EngineInv, SegmentsAreExclusive, Holding
<1>4. \A w \in Workers : Aligned(w)'
  BY DEF EngineInv, Aligned, Cursor
<1>5. QED
  BY <1>2, <1>3, <1>4 DEF TaskInv

\* Facts about a state that satisfies the invariant, as the steps use them.
LEMMA Basics ==
  ASSUME EngineInv
  PROVE  /\ TypeOK /\ TaskInv /\ DataInv
         /\ part \in [Byte -> Int]
         /\ control \in Seq(SnapshotRec)
         /\ segs \in Seq(SegmentRec)
         /\ mailbox \in Seq(Outcomes)
         /\ inFlight = Cardinality(Busy) + Len(mailbox)
         /\ Cardinality(Busy) \in Nat /\ Len(mailbox) \in Nat
         /\ inFlight \in Nat
         /\ inFlight = 0 => mailbox = << >>
         /\ faults \in Nat
         /\ Total \in Nat
<1>1. TypeOK /\ TaskInv /\ DataInv
  BY TwoParts
<1>2. /\ part \in [Byte -> Int]
      /\ control \in Seq(SnapshotRec)
      /\ segs \in Seq(SegmentRec)
      /\ mailbox \in Seq(Outcomes)
      /\ faults \in Nat
      /\ Total \in Nat
  BY <1>1, EngineAssumption DEF TypeOK
<1>3. inFlight = Cardinality(Busy) + Len(mailbox)
  BY <1>1 DEF TaskInv, Counted
<1>4. Cardinality(Busy) \in Nat /\ Len(mailbox) \in Nat
  BY <1>2, BusyIsFinite
<1>5. inFlight \in Nat /\ (inFlight = 0 => mailbox = << >>)
  BY <1>2, <1>3, <1>4
<1>6. QED
  BY <1>1, <1>2, <1>3, <1>4, <1>5

\* Starting an attempt keeps the invariant.
LEMMA BeginStep ==
  ASSUME EngineInv, Begin
  PROVE  EngineInv'
<1>1. TypeOK'
  <2>1. TypeOK
    BY Basics
  <2>2. useRanges' \in BOOLEAN /\ cancel' \in BOOLEAN
    BY DEF Begin
  <2>3. QED
    BY <2>1, <2>2 DEF Begin, TypeOK, files, coordination, CoordinatorSteps
<1>2. TaskInv'
  BY TasksAbsent DEF Begin, coordination, Alone
<1>3. DataInv'
  <2>1. DataInv
    BY Basics
  <2>2. /\ UNCHANGED <<part, hasPart, control, final, segs>>
        /\ co = "idle" /\ co' = "decide" /\ result' = "none"
        /\ useRanges' => SizeKnown /\ Total > 0
    BY EngineAssumption DEF Begin, files
  <2>3. PlanIsThere'
    BY <2>1, <2>2 DEF DataInv, PlanIsThere, NoPlan
  <2>4. WithinFile(segs)' /\ WithinFile(control)' /\ PlanTilesFile'
    BY <2>1, <2>2 DEF DataInv, WithinFile, Cursor, PlanTilesFile, Tiles
  <2>5. DoneIsWritten' /\ ControlIsWritten' /\ FinishedFileIsWhole'
    BY <2>1, <2>2 DEF DataInv, DoneIsWritten, ControlIsWritten, Claims, Cursor,
       FinishedFileIsWhole
  <2>6. QED
    BY <2>2, <2>3, <2>4, <2>5 DEF DataInv
<1>4. QED
  BY <1>1, <1>2, <1>3 DEF EngineInv, TaskInv, DataInv

\* The coordinator's bookkeeping while tasks run: it looks at the mailbox, at
\* the cancel token or at the victim of a split.
LEMMA LoopStep ==
  ASSUME EngineInv,
         LoopEnds \/ Receive \/ ChooseCut \/ TickCancelled \/ Drain \/ Cancel
  PROVE  EngineInv'
<1>1. TypeOK'
  <2>1. mailbox # << >> => Tail(mailbox) \in Seq(Outcomes) /\ Head(mailbox) \in Outcomes
    BY Basics
  <2>2. stop' \in BOOLEAN /\ cancel' \in BOOLEAN
    <3>1. stop \in BOOLEAN /\ cancel \in BOOLEAN
      BY Basics DEF TypeOK
    <3>2. /\ stop' = stop \/ stop' = TRUE
          /\ cancel' = cancel \/ cancel' = TRUE
      BY DEF LoopEnds, Receive, ChooseCut, TickCancelled, Drain, Cancel,
         coordination, environment
    <3>3. QED
      BY <3>1, <3>2
  <2>3. CASE LoopEnds \/ TickCancelled \/ Cancel
    <3>1. TypeOK
      BY Basics
    <3>2. QED
      BY <2>2, <2>3, <3>1 DEF LoopEnds, TickCancelled, Cancel, TypeOK, files,
         coordination, environment, CoordinatorSteps, Outcomes, Errors
  <2>4. CASE Receive \/ Drain
    <3>1. TypeOK
      BY Basics
    <3>2. UNCHANGED <<part, hasPart, control, final, segs, useRanges, cut,
                      worker, result, attempts, faults>>
      BY <2>4 DEF Receive, Drain, files, environment
    <3>3. \/ UNCHANGED <<mailbox, inFlight>>
          \/ mailbox # << >> /\ mailbox' = Tail(mailbox) /\ inFlight' = inFlight - 1
      BY <2>4 DEF Receive, Drain
    <3>4. fatal' = fatal \/ (mailbox # << >> /\ fatal' = Head(mailbox))
      BY <2>4 DEF Receive, Drain
    <3>5. co' = co \/ co' \in {"topUp", "drain", "save"}
      BY <2>4 DEF Receive, Drain
    <3>6. mailbox' \in Seq(Outcomes) /\ inFlight' \in Int /\ fatal' \in Outcomes
      <4>1. fatal \in Outcomes /\ inFlight \in Int /\ mailbox \in Seq(Outcomes)
        BY <3>1 DEF TypeOK
      <4>2. mailbox' \in Seq(Outcomes) /\ fatal' \in Outcomes
        BY <2>1, <3>3, <3>4, <4>1
      <4>3. inFlight' \in Int
        BY <3>3, <4>1
      <4>4. QED
        BY <4>2, <4>3
    <3>7. QED
      BY <2>2, <3>1, <3>2, <3>5, <3>6 DEF TypeOK, CoordinatorSteps
  <2>5. CASE ChooseCut
    <3>1. cut.victim \in DOMAIN segs
      BY <2>5, Basics DEF ChooseCut, TaskInv, CutIsInside
    <3>2. segs[cut.victim] \in SegmentRec
      BY <3>1, Basics
    <3>3. \A m \in Int, e \in Nat :
            [cut EXCEPT !.mid = m, !.end = e] \in [victim: Nat, mid: Int, end: Nat]
      BY Basics DEF TypeOK
    <3>4. /\ segs[cut.victim].end \in Nat
          /\ CutPoint(Cursor(segs[cut.victim]), segs[cut.victim].end) \in Int
      BY <3>2 DEF CutPoint, Cursor, SegmentRec
    <3>5. NoCut \in [victim: Nat, mid: Int, end: Nat]
      BY DEF NoCut
    <3>6. cut' \in [victim: Nat, mid: Int, end: Nat]
      BY <2>5, <3>3, <3>4, <3>5 DEF ChooseCut
    <3>7. QED
      BY <2>2, <2>5, <3>6, Basics DEF ChooseCut, TypeOK, files, environment,
         CoordinatorSteps
  <2>6. QED
    BY <2>3, <2>4, <2>5
<1>2. TaskInv'
  <2>1. /\ UNCHANGED <<worker, segs, part, useRanges>>
    BY DEF LoopEnds, Receive, ChooseCut, TickCancelled, Drain, Cancel, files
  <2>2. inFlight' = Cardinality(Busy) + Len(mailbox')
    <3>1. CASE UNCHANGED <<inFlight, mailbox>>
      BY <3>1, Basics
    <3>2. CASE /\ mailbox # << >> /\ mailbox' = Tail(mailbox)
               /\ inFlight' = inFlight - 1
      <4>1. Len(mailbox') = Len(mailbox) - 1
        BY <3>2, Basics
      <4>2. QED
        BY <4>1, <3>2, Basics
    <3>3. QED
      BY <3>1, <3>2 DEF LoopEnds, Receive, ChooseCut, TickCancelled, Drain,
         Cancel, coordination
  <2>3. co' \in Alone => inFlight' = 0
    BY Basics DEF LoopEnds, Receive, ChooseCut, TickCancelled, Drain,
       Cancel, coordination, Alone, NobodyInFlight, TaskInv, Counted
  <2>4. CutIsInside'
    <3>1. CASE ChooseCut
      <4> DEFINE victim == segs[cut.victim]
      <4>1. cut.victim \in DOMAIN segs
        BY <3>1, Basics DEF ChooseCut, TaskInv, CutIsInside
      <4>2. victim \in SegmentRec
        BY <4>1, Basics
      <4>3. CASE CutAllowed(Cursor(victim), victim.end, MinSplit)
        <5>1. /\ cut' = [cut EXCEPT
                           !.mid = CutPoint(Cursor(victim), victim.end),
                           !.end = victim.end]
              /\ segs' = segs
          BY <3>1, <4>3 DEF ChooseCut
        <5>2. /\ cut'.victim = cut.victim
              /\ cut'.mid = CutPoint(Cursor(victim), victim.end)
              /\ cut'.end = victim.end
          BY <5>1, Basics DEF TypeOK
        <5>3. /\ Cursor(victim) < cut'.mid
              /\ cut'.mid <= victim.end
              /\ victim.start <= Cursor(victim)
              /\ CutPoint(Cursor(victim), victim.end) \in Int
              /\ victim.start \in Nat /\ Cursor(victim) \in Nat
          BY <5>2, <4>2, <4>3 DEF CutAllowed, CutPoint, Cursor, SegmentRec
        <5>4. victim.start < cut'.mid
          BY <5>2, <5>3
        <5> HIDE DEF victim
        <5>5. QED
          BY <4>1, <5>1, <5>2, <5>3, <5>4 DEF CutIsInside, victim
      <4>4. CASE ~CutAllowed(Cursor(victim), victim.end, MinSplit)
        BY <4>4, <3>1 DEF ChooseCut, CutIsInside
      <4>5. QED
        BY <4>3, <4>4
    <3>2. CASE Cancel
      BY <3>2, Basics DEF Cancel, TaskInv, CutIsInside, coordination
    <3>3. CASE LoopEnds \/ Receive \/ TickCancelled \/ Drain
      BY <3>3 DEF LoopEnds, Receive, TickCancelled, Drain, CutIsInside
    <3>4. QED
      BY <3>1, <3>2, <3>3
  <2>5. QED
    BY <2>1, <2>2, <2>3, <2>4, TasksKept
<1>3. DataInv'
  BY DataKept DEF LoopEnds, Receive, ChooseCut, TickCancelled, Drain, Cancel,
     files, environment, NoPlan
<1>4. QED
  BY <1>1, <1>2, <1>3 DEF EngineInv, TaskInv, DataInv

\* Snapshots, and plans made from them, claim and cover what the plan does.
LEMMA SnapshotsSound ==
  ASSUME NEW plan \in Seq(SegmentRec)
  PROVE  /\ Snapshots(plan) \in Seq(SnapshotRec)
         /\ Snapshots(plan) = << >> <=> plan = << >>
         /\ Tiles(plan) => Tiles(Snapshots(plan))
         /\ WithinFile(plan) => WithinFile(Snapshots(plan))
         /\ Claims(plan) => Claims(Snapshots(plan))
<1>1. /\ Snapshots(plan) \in Seq(SnapshotRec)
      /\ DOMAIN Snapshots(plan) = DOMAIN plan
  BY SnapshotsType
<1>2. \A i \in DOMAIN plan :
        /\ Snapshots(plan)[i].start = plan[i].start
        /\ Snapshots(plan)[i].end = plan[i].end
        /\ Snapshots(plan)[i].done = plan[i].done
  BY DEF Snapshots
<1>3. Snapshots(plan) = << >> <=> plan = << >>
  BY <1>1
<1>4. QED
  BY <1>1, <1>2, <1>3 DEF Tiles, WithinFile, Claims, Cursor

\* Reading a control file back keeps what is known of its segments.
LEMMA FromSnapshotsSound ==
  ASSUME NEW snaps \in Seq(SnapshotRec)
  PROVE  /\ FromSnapshots(snaps) \in Seq(SegmentRec)
         /\ FromSnapshots(snaps) = << >> <=> snaps = << >>
         /\ Tiles(snaps) => Tiles(FromSnapshots(snaps))
         /\ WithinFile(snaps) => WithinFile(FromSnapshots(snaps))
         /\ Claims(snaps) => Claims(FromSnapshots(snaps))
<1>1. /\ FromSnapshots(snaps) \in Seq(SegmentRec)
      /\ DOMAIN FromSnapshots(snaps) = DOMAIN snaps
  BY FromSnapshotsType
<1>2. \A i \in DOMAIN snaps :
        /\ FromSnapshots(snaps)[i].start = snaps[i].start
        /\ FromSnapshots(snaps)[i].end = snaps[i].end
        /\ FromSnapshots(snaps)[i].done = snaps[i].done
  BY DEF FromSnapshots
<1>3. FromSnapshots(snaps) = << >> <=> snaps = << >>
  BY <1>1
<1>4. QED
  BY <1>1, <1>2, <1>3 DEF Tiles, WithinFile, Claims, Cursor

\* The plan of a fresh download covers the file and claims nothing.
LEMMA UntouchedPlan ==
  ASSUME NEW plan \in Seq(SegmentRec),
         \A i \in DOMAIN plan :
           /\ plan[i].done = 0
           /\ plan[i].start <= plan[i].end
           /\ SizeKnown /\ Total > 0 => plan[i].end < Total
  PROVE  WithinFile(plan) /\ Claims(plan)
<1>1. \A i \in DOMAIN plan : plan[i].start \in Nat
  <2>1. \A i \in DOMAIN plan : plan[i] \in SegmentRec
    OBVIOUS
  <2>2. QED
    BY <2>1 DEF SegmentRec
<1>2. \A i \in DOMAIN plan : Cursor(plan[i]) = plan[i].start
  BY <1>1 DEF Cursor
<1>3. \A i \in DOMAIN plan : \A p \in Byte :
        ~(plan[i].start <= p /\ p < plan[i].start)
  BY <1>1 DEF Byte
<1>4. QED
  BY <1>2, <1>3 DEF WithinFile, Claims

\* The plan of a fresh ranged download covers the file and claims nothing.
LEMMA EvenPlan ==
  ASSUME Total \in Nat \ {0}
  PROVE  LET plan == SplitEven(Total, MaxConnections, MinSplit)
         IN  /\ plan \in Seq(SegmentRec) /\ plan # << >>
             /\ Tiles(plan) /\ WithinFile(plan) /\ Claims(plan)
<1> DEFINE plan == SplitEven(Total, MaxConnections, MinSplit)
<1>1. MaxConnections \in Nat /\ MinSplit \in Nat
  BY EngineAssumption, FS_CardinalityType DEF MaxConnections
<1>2. /\ plan \in Seq(SegmentRec)
      /\ plan # << >>
      /\ \A i \in DOMAIN plan :
           /\ plan[i].done = 0
           /\ plan[i].start <= plan[i].end
           /\ plan[i].end < Total
      /\ \A p \in 0 .. Total - 1 :
           /\ \E i \in DOMAIN plan : plan[i].start <= p /\ p <= plan[i].end
           /\ \A i, j \in DOMAIN plan :
                (/\ plan[i].start <= p /\ p <= plan[i].end
                 /\ plan[j].start <= p /\ p <= plan[j].end) => i = j
  BY <1>1, SplitEvenSound
<1> HIDE DEF plan
<1>3. Tiles(plan)
  BY <1>2 DEF Tiles, Byte
<1>4. WithinFile(plan) /\ Claims(plan)
  BY <1>2, UntouchedPlan
<1>5. QED
  BY <1>2, <1>3, <1>4 DEF plan

\* So does the plan of a download without ranges.
LEMMA SinglePlan ==
  LET plan == Single(Total, SizeKnown, OpenEnd)
  IN  /\ plan \in Seq(SegmentRec) /\ plan # << >>
      /\ Tiles(plan) /\ WithinFile(plan) /\ Claims(plan)
<1> DEFINE plan == Single(Total, SizeKnown, OpenEnd)
           last == IF SizeKnown THEN Larger(Total - 1, 0) ELSE OpenEnd
<1>1. /\ Total \in Nat /\ last \in Nat
      /\ \A p \in Byte : p <= last
      /\ SizeKnown /\ Total > 0 => last < Total
  BY EngineAssumption DEF Larger, OpenEnd, Byte
<1>2. plan = << NewSegment(0, last) >>
  BY DEF Single
<1> HIDE DEF plan, last
<1>3. NewSegment(0, last) \in SegmentRec
  BY <1>1 DEF NewSegment, SegmentRec
<1>4. plan \in Seq(SegmentRec) /\ plan # << >> /\ DOMAIN plan = {1}
  BY <1>2, <1>3
<1>5. /\ plan[1].start = 0 /\ plan[1].end = last /\ plan[1].done = 0
  BY <1>2 DEF NewSegment
<1>6. Tiles(plan)
  BY <1>1, <1>4, <1>5 DEF Tiles, Byte
<1>7. WithinFile(plan) /\ Claims(plan)
  BY <1>1, <1>4, <1>5, UntouchedPlan
<1>8. QED
  BY <1>4, <1>6, <1>7 DEF plan

\* Steps at which the coordinator works alone.  The tasks are absent before
\* and after, so only types and data are left to show.
LEMMA AloneStep ==
  ASSUME EngineInv, co \in Alone, co' \notin {"cut", "split"},
         UNCHANGED <<worker, mailbox, inFlight, cut, attempts>>,
         part' \in [Byte -> Int], hasPart' \in BOOLEAN,
         control' \in Seq(SnapshotRec),
         final' = final \/ final' \in [Byte -> Int],
         segs' \in Seq(SegmentRec),
         useRanges' \in BOOLEAN, stop' \in BOOLEAN, cancel' \in BOOLEAN,
         co' \in CoordinatorSteps,
         fatal' \in Outcomes,
         result' \in {"none", "ok", "cancelled", "failed"},
         faults' \in Nat,
         DataInv'
  PROVE  EngineInv'
<1>1. TypeOK
  BY Basics
<1>2. TypeOK'
  BY <1>1 DEF TypeOK
<1>3. TaskInv'
  BY TasksAbsent
<1>4. QED
  BY <1>2, <1>3 DEF EngineInv, TaskInv, DataInv

\* The files and flags as the steps below find them.
LEMMA AloneTypes ==
  ASSUME EngineInv
  PROVE  /\ hasPart \in BOOLEAN /\ useRanges \in BOOLEAN
         /\ stop \in BOOLEAN /\ cancel \in BOOLEAN
         /\ fatal \in Outcomes
         /\ result \in {"none", "ok", "cancelled", "failed"}
         /\ final = << >> \/ final \in [Byte -> Int]
         /\ PartDomain(Hole) \in [Byte -> Int]
         /\ << >> \in Seq(SegmentRec) /\ << >> \in Seq(SnapshotRec)
         /\ Claims(<< >>) /\ WithinFile(<< >>)
<1>1. PartDomain(Hole) \in [Byte -> Int]
  BY DEF PartDomain, Hole
<1>2. << >> \in Seq(SegmentRec) /\ << >> \in Seq(SnapshotRec)
  OBVIOUS
<1>3. Claims(<< >>) /\ WithinFile(<< >>)
  BY DEF Claims, WithinFile
<1>4. TypeOK
  BY Basics
<1>5. QED
  BY <1>1, <1>2, <1>3, <1>4 DEF TypeOK

\* A step that drops the plan and leaves the files alone keeps the data part.
LEMMA PlanDropped ==
  ASSUME EngineInv, segs' = << >>,
         UNCHANGED <<part, hasPart, control, final>>,
         co' \in {"idle", "decide", "discardPart"},
         useRanges' => SizeKnown /\ Total > 0,
         result' = result \/ result' # "ok"
  PROVE  DataInv'
<1>1. DataInv
  BY Basics
<1>2. PlanIsThere'
  BY DEF PlanIsThere, NoPlan
<1>3. WithinFile(segs)' /\ WithinFile(control)'
  BY <1>1 DEF DataInv, WithinFile, Cursor
<1>4. PlanTilesFile'
  BY <1>1 DEF DataInv, PlanTilesFile, Tiles
<1>5. DoneIsWritten' /\ ControlIsWritten'
  BY <1>1 DEF DataInv, DoneIsWritten, ControlIsWritten, Claims, Cursor
<1>6. FinishedFileIsWhole'
  BY <1>1 DEF DataInv, FinishedFileIsWhole
<1>7. QED
  BY <1>2, <1>3, <1>4, <1>5, <1>6 DEF DataInv

\* Deciding to resume or to start over keeps the invariant.
LEMMA DecideStep ==
  ASSUME EngineInv, Decide
  PROVE  EngineInv'
<1>1. /\ co = "decide"
      /\ UNCHANGED <<part, hasPart, control, final, useRanges, cut, inFlight,
                     stop, fatal, cancel, worker, mailbox, result, attempts, faults>>
  BY DEF Decide, files, coordination, environment
<1>2. DataInv
  BY Basics
<1>3. CASE CanResume
  <2>1. segs' = FromSnapshots(control) /\ co' = "open"
    BY <1>3 DEF Decide
  <2>2. hasPart /\ control # << >> /\ Claims(control) /\ Tiles(control) /\ WithinFile(control)
    BY <1>2, <1>3 DEF CanResume, DataInv, ControlIsWritten, PlanTilesFile
  <2>3. /\ segs' \in Seq(SegmentRec) /\ segs' # << >>
        /\ Tiles(FromSnapshots(control)) /\ WithinFile(FromSnapshots(control))
        /\ Claims(FromSnapshots(control))
    BY <2>1, <2>2, Basics, FromSnapshotsSound
  <2>4. PlanIsThere'
    BY <1>1, <1>2, <2>1, <2>2, <2>3 DEF DataInv, PlanIsThere, NoPlan
  <2>5. WithinFile(segs)' /\ WithinFile(control)'
    BY <1>1, <1>2, <2>1, <2>3 DEF DataInv, WithinFile, Cursor
  <2>6. PlanTilesFile'
    BY <1>1, <1>2, <2>1, <2>3 DEF DataInv, PlanTilesFile, Tiles
  <2>7. DoneIsWritten' /\ ControlIsWritten'
    BY <1>1, <1>2, <2>1, <2>3 DEF DataInv, DoneIsWritten, ControlIsWritten, Claims, Cursor
  <2>8. FinishedFileIsWhole'
    BY <1>1, <1>2 DEF DataInv, FinishedFileIsWhole
  <2>9. DataInv'
    BY <2>1, <2>4, <2>5, <2>6, <2>7, <2>8 DEF DataInv
  <2>10. co \in Alone /\ co' \notin {"cut", "split"} /\ co' \in CoordinatorSteps
    BY <1>1, <2>1 DEF Alone, CoordinatorSteps
  <2>11. QED
    BY <1>1, <2>3, <2>9, <2>10, Basics, AloneTypes, AloneStep
<1>4. CASE ~CanResume
  <2>1. segs' = << >> /\ co' = "discardPart"
    BY <1>4 DEF Decide
  <2>2. useRanges' => SizeKnown /\ Total > 0
    BY <1>1, <1>2 DEF DataInv, PlanIsThere
  <2>3. DataInv'
    BY <1>1, <2>1, <2>2, PlanDropped
  <2>4. co \in Alone /\ co' \notin {"cut", "split"} /\ co' \in CoordinatorSteps
    BY <1>1, <2>1 DEF Alone, CoordinatorSteps
  <2>5. QED
    BY <1>1, <2>1, <2>3, <2>4, Basics, AloneTypes, AloneStep
<1>5. QED
  BY <1>3, <1>4

\* Throwing the part file away keeps the invariant: without a part file
\* the control file claims nothing.
LEMMA DiscardPartStep ==
  ASSUME EngineInv, DiscardPart
  PROVE  EngineInv'
<1>1. /\ co = "discardPart" /\ co' = "discardControl"
      /\ part' = PartDomain(Hole) /\ hasPart' = FALSE
      /\ UNCHANGED <<control, final, segs, useRanges, cut, inFlight,
                     stop, fatal, cancel, worker, mailbox, result, attempts, faults>>
  BY DEF DiscardPart, coordination, environment
<1>2. DataInv
  BY Basics
<1>3. PlanIsThere' /\ segs' = << >>
  BY <1>1, <1>2 DEF DataInv, PlanIsThere, NoPlan
<1>4. WithinFile(segs)' /\ WithinFile(control)'
  BY <1>1, <1>2 DEF DataInv, WithinFile, Cursor
<1>5. PlanTilesFile'
  BY <1>1, <1>2 DEF DataInv, PlanTilesFile, Tiles
<1>6. DoneIsWritten' /\ ControlIsWritten'
  BY <1>1, <1>3 DEF DoneIsWritten, ControlIsWritten, Claims
<1>7. FinishedFileIsWhole'
  BY <1>1, <1>2 DEF DataInv, FinishedFileIsWhole
<1>8. DataInv'
  BY <1>1, <1>3, <1>4, <1>5, <1>6, <1>7 DEF DataInv
<1>9. co \in Alone /\ co' \notin {"cut", "split"} /\ co' \in CoordinatorSteps
  BY <1>1 DEF Alone, CoordinatorSteps
<1>10. hasPart' \in BOOLEAN
  BY <1>1
<1>11. QED
  BY <1>1, <1>8, <1>9, <1>10, Basics, AloneTypes, AloneStep

\* Throwing the control file away and planning afresh keeps the invariant.
LEMMA DiscardControlStep ==
  ASSUME EngineInv, DiscardControl
  PROVE  EngineInv'
<1> DEFINE fresh == IF useRanges
                    THEN SplitEven(Total, MaxConnections, MinSplit)
                    ELSE Single(Total, SizeKnown, OpenEnd)
<1>1. /\ co = "discardControl" /\ co' = "open"
      /\ control' = << >> /\ segs' = fresh
      /\ UNCHANGED <<part, hasPart, final, useRanges, cut, inFlight,
                     stop, fatal, cancel, worker, mailbox, result, attempts, faults>>
  BY DEF DiscardControl, DeleteControlFile, coordination, environment
<1>2. DataInv
  BY Basics
<1>3. /\ fresh \in Seq(SegmentRec) /\ fresh # << >>
      /\ Tiles(fresh) /\ WithinFile(fresh) /\ Claims(fresh)
  <2>1. CASE useRanges
    <3>1. Total \in Nat \ {0}
      BY <2>1, <1>2, Basics DEF DataInv, PlanIsThere
    <3>2. QED
      BY <2>1, <3>1, EvenPlan
  <2>2. CASE ~useRanges
    BY <2>2, SinglePlan
  <2>3. QED
    BY <2>1, <2>2
<1> HIDE DEF fresh
<1>4. PlanIsThere'
  BY <1>1, <1>2, <1>3 DEF DataInv, PlanIsThere, NoPlan
<1>5. WithinFile(segs)' /\ WithinFile(control)'
  BY <1>1, <1>3 DEF WithinFile, Cursor
<1>6. PlanTilesFile'
  BY <1>1, <1>3 DEF PlanTilesFile, Tiles
<1>7. DoneIsWritten' /\ ControlIsWritten'
  BY <1>1, <1>3 DEF DoneIsWritten, ControlIsWritten, Claims, Cursor
<1>8. FinishedFileIsWhole'
  BY <1>1, <1>2 DEF DataInv, FinishedFileIsWhole
<1>9. DataInv'
  BY <1>1, <1>4, <1>5, <1>6, <1>7, <1>8 DEF DataInv
<1>10. co \in Alone /\ co' \notin {"cut", "split"} /\ co' \in CoordinatorSteps
  BY <1>1 DEF Alone, CoordinatorSteps
<1>11. QED
  BY <1>1, <1>3, <1>9, <1>10, Basics, AloneTypes, AloneStep

\* Opening the part file keeps the invariant: it is opened beside a control
\* file only when it was there already.
LEMMA OpenPartStep ==
  ASSUME EngineInv, OpenPart
  PROVE  EngineInv'
<1>1. /\ co = "open" /\ co' = "firstSave" /\ hasPart' = TRUE
      /\ UNCHANGED <<part, control, final, segs, useRanges, cut, inFlight,
                     stop, fatal, cancel, worker, mailbox, result, attempts, faults>>
  BY DEF OpenPart, coordination, environment
<1>2. DataInv
  BY Basics
<1>3. PlanIsThere'
  BY <1>1, <1>2 DEF DataInv, PlanIsThere, NoPlan
<1>4. WithinFile(segs)' /\ WithinFile(control)' /\ PlanTilesFile'
  BY <1>1, <1>2 DEF DataInv, WithinFile, Cursor, PlanTilesFile, Tiles
<1>5. Claims(control)
  BY <1>1, <1>2 DEF DataInv, PlanIsThere, ControlIsWritten, Claims
<1>6. DoneIsWritten' /\ ControlIsWritten'
  BY <1>1, <1>2, <1>5 DEF DataInv, DoneIsWritten, ControlIsWritten, Claims, Cursor
<1>7. FinishedFileIsWhole'
  BY <1>1, <1>2 DEF DataInv, FinishedFileIsWhole
<1>8. DataInv'
  BY <1>1, <1>3, <1>4, <1>6, <1>7 DEF DataInv
<1>9. co \in Alone /\ co' \notin {"cut", "split"} /\ co' \in CoordinatorSteps
  BY <1>1 DEF Alone, CoordinatorSteps
<1>10. hasPart' \in BOOLEAN
  BY <1>1
<1>11. QED
  BY <1>1, <1>8, <1>9, <1>10, Basics, AloneTypes, AloneStep

\* A save keeps the data part: the plan's claims become the control file's.
LEMMA DataSaved ==
  ASSUME EngineInv, control' = Snapshots(segs),
         UNCHANGED <<part, hasPart, final, segs, useRanges, result>>,
         co \notin NoPlan, co' \notin NoPlan, co' \notin {"open", "finalize"}
  PROVE  DataInv'
<1>1. DataInv
  BY Basics
<1>2. /\ Tiles(segs) /\ WithinFile(segs) /\ Claims(segs) /\ segs # << >>
  BY <1>1 DEF DataInv, PlanIsThere, PlanTilesFile, DoneIsWritten
<1>3. /\ Tiles(Snapshots(segs)) /\ WithinFile(Snapshots(segs))
      /\ Claims(Snapshots(segs))
  BY <1>2, Basics, SnapshotsSound
<1>4. PlanIsThere'
  BY <1>1 DEF DataInv, PlanIsThere
<1>5. WithinFile(segs)' /\ WithinFile(control)'
  BY <1>2, <1>3 DEF WithinFile, Cursor
<1>6. PlanTilesFile'
  BY <1>2, <1>3 DEF PlanTilesFile, Tiles
<1>7. DoneIsWritten' /\ ControlIsWritten'
  BY <1>2, <1>3 DEF DoneIsWritten, ControlIsWritten, Claims, Cursor
<1>8. FinishedFileIsWhole'
  BY <1>1 DEF DataInv, FinishedFileIsWhole
<1>9. QED
  BY <1>4, <1>5, <1>6, <1>7, <1>8 DEF DataInv, NoPlan

\* The first save keeps the invariant.
LEMMA FirstSaveStep ==
  ASSUME EngineInv, FirstSave
  PROVE  EngineInv'
<1>1. /\ co = "firstSave" /\ co' = "spawn" /\ control' = Snapshots(segs)
      /\ UNCHANGED <<part, hasPart, final, segs, useRanges, cut, inFlight,
                     stop, fatal, cancel, worker, mailbox, result, attempts, faults>>
  BY DEF FirstSave, coordination, environment
<1>2. control' \in Seq(SnapshotRec)
  BY <1>1, Basics, SnapshotsType
<1>3. DataInv'
  BY <1>1, DataSaved DEF NoPlan
<1>4. co \in Alone /\ co' \notin {"cut", "split"} /\ co' \in CoordinatorSteps
  BY <1>1 DEF Alone, CoordinatorSteps
<1>5. QED
  BY <1>1, <1>2, <1>3, <1>4, Basics, AloneTypes, AloneStep

\* So does an attempt that cannot start.
LEMMA StartFailsStep ==
  ASSUME EngineInv, StartFails
  PROVE  EngineInv'
<1>1. /\ co \in {"open", "firstSave"} /\ co' = "idle" /\ segs' = << >>
      /\ result' = "failed" /\ faults > 0 /\ faults' = faults - 1
      /\ UNCHANGED <<part, hasPart, control, final, useRanges, cut, inFlight,
                     stop, fatal, cancel, worker, mailbox, attempts>>
  BY DEF StartFails, files, coordination
<1>2. faults' \in Nat
  BY <1>1, Basics
<1>3. useRanges' => SizeKnown /\ Total > 0
  BY <1>1, Basics DEF DataInv, PlanIsThere
<1>4. DataInv'
  BY <1>1, <1>3, PlanDropped
<1>5. co \in Alone /\ co' \notin {"cut", "split"} /\ co' \in CoordinatorSteps
  BY <1>1 DEF Alone, CoordinatorSteps
<1>6. QED
  BY <1>1, <1>2, <1>4, <1>5, Basics, AloneTypes, AloneStep

\* A checkpoint while tasks write keeps the invariant.
LEMMA CheckpointStep ==
  ASSUME EngineInv, Checkpoint
  PROVE  EngineInv'
<1>1. /\ co = "loop" /\ co' = co /\ control' = Snapshots(segs)
      /\ UNCHANGED <<part, hasPart, final, segs, useRanges, cut, inFlight,
                     stop, fatal, cancel, worker, mailbox, result, attempts, faults>>
  BY DEF Checkpoint, coordination, environment
<1>2. control' \in Seq(SnapshotRec)
  BY <1>1, Basics, SnapshotsType
<1>3. TypeOK'
  <2>1. TypeOK
    BY Basics
  <2>2. QED
    BY <1>1, <1>2, <2>1 DEF TypeOK
<1>4. DataInv'
  BY <1>1, DataSaved DEF NoPlan
<1>5. CutIsInside' /\ co' \notin Alone
  BY <1>1 DEF CutIsInside, Alone
<1>6. TaskInv'
  BY <1>1, <1>5, Basics, TasksKept
<1>7. QED
  BY <1>3, <1>4, <1>6 DEF EngineInv, TaskInv, DataInv

\* The last save keeps the invariant, whether it works or not.
LEMMA FinalSaveStep ==
  ASSUME EngineInv, FinalSave
  PROVE  EngineInv'
<1>1. /\ co = "save" /\ co' = "verdict"
      /\ UNCHANGED <<part, hasPart, final, segs, useRanges, cut, inFlight,
                     stop, fatal, cancel, worker, mailbox, result, attempts>>
      /\ \/ control' = Snapshots(segs) /\ faults' = faults
         \/ faults > 0 /\ faults' = faults - 1 /\ control' = control
  BY DEF FinalSave, coordination
<1>2. control' \in Seq(SnapshotRec) /\ faults' \in Nat
  BY <1>1, Basics, SnapshotsType
<1>3. co \in Alone /\ co' \notin {"cut", "split"} /\ co' \in CoordinatorSteps
  BY <1>1 DEF Alone, CoordinatorSteps
<1>4. DataInv'
  <2>1. CASE control' = Snapshots(segs)
    BY <1>1, <2>1, DataSaved DEF NoPlan
  <2>2. CASE control' = control
    BY <1>1, <2>2, DataKept DEF NoPlan
  <2>3. QED
    BY <1>1, <2>1, <2>2
<1>5. QED
  BY <1>1, <1>2, <1>3, <1>4, Basics, AloneTypes, AloneStep

\* A failed run drops the plan, and either ends the attempt or runs again
\* without ranges.
LEMMA RunFailsStep ==
  ASSUME EngineInv, NEW e \in Errors, RunFails(e), co \in {"verdict", "finalize"},
         UNCHANGED <<part, hasPart, control, final, cut, inFlight, cancel, worker,
                     mailbox, attempts>>,
         faults' \in Nat
  PROVE  EngineInv'
<1>1. /\ segs' = << >> /\ stop' = FALSE /\ fatal' = "ok"
      /\ \/ useRanges' = FALSE /\ co' = "decide" /\ result' = result
         \/ e # "rangeLost" /\ result' = e /\ co' = "idle" /\ useRanges' = useRanges
  BY DEF RunFails
<1>2. /\ result' \in {"none", "ok", "cancelled", "failed"}
      /\ result' = result \/ result' # "ok"
  BY <1>1, AloneTypes DEF Errors
<1>3. useRanges' \in BOOLEAN /\ stop' \in BOOLEAN
  BY <1>1, AloneTypes
<1>4. fatal' \in Outcomes
  BY <1>1 DEF Outcomes
<1>5. useRanges' => SizeKnown /\ Total > 0
  BY <1>1, Basics DEF DataInv, PlanIsThere
<1>6. DataInv'
  BY <1>1, <1>2, <1>5, PlanDropped
<1>7. co \in Alone /\ co' \notin {"cut", "split"} /\ co' \in CoordinatorSteps
  BY <1>1 DEF Alone, CoordinatorSteps
<1>8. QED
  BY <1>1, <1>2, <1>3, <1>4, <1>6, <1>7, Basics, AloneTypes, AloneStep

\* Judging the run keeps the invariant.
LEMMA VerdictStep ==
  ASSUME EngineInv, Verdict
  PROVE  EngineInv'
<1>1. /\ co = "verdict"
      /\ UNCHANGED <<part, hasPart, control, final, cut, inFlight, cancel, worker,
                     mailbox, attempts, faults>>
  BY DEF Verdict, files
<1>2. faults' \in Nat
  BY <1>1, Basics
<1>3. CASE fatal # "ok"
  <2>1. RunFails(fatal)
    BY <1>3 DEF Verdict
  <2>2. fatal \in Errors
    BY <1>3, AloneTypes DEF Outcomes
  <2>3. QED
    BY <1>1, <1>2, <2>1, <2>2, RunFailsStep
<1>4. CASE fatal = "ok" /\ (~PlanComplete(segs) \/ TotalDone(segs) = 0)
  <2>1. RunFails("failed")
    BY <1>4 DEF Verdict
  <2>2. "failed" \in Errors
    BY DEF Errors
  <2>3. QED
    BY <1>1, <1>2, <2>1, <2>2, RunFailsStep
<1>5. CASE fatal = "ok" /\ ~(~PlanComplete(segs) \/ TotalDone(segs) = 0)
  <2>1. /\ co' = "finalize"
        /\ UNCHANGED <<segs, stop, fatal, useRanges, result>>
        /\ PlanComplete(segs)
    BY <1>5 DEF Verdict
  <2>2. DataInv
    BY Basics
  <2>3. PlanIsThere'
    BY <1>1, <2>1, <2>2 DEF DataInv, PlanIsThere, NoPlan
  <2>4. WithinFile(segs)' /\ WithinFile(control)' /\ PlanTilesFile'
    BY <1>1, <2>1, <2>2 DEF DataInv, WithinFile, Cursor, PlanTilesFile, Tiles
  <2>5. DoneIsWritten' /\ ControlIsWritten'
    BY <1>1, <2>1, <2>2 DEF DataInv, DoneIsWritten, ControlIsWritten, Claims, Cursor
  <2>6. PlanComplete(segs)'
    BY <2>1 DEF PlanComplete, IsComplete, Remaining, Cursor
  <2>7. FinishedFileIsWhole'
    BY <1>1, <2>1, <2>2 DEF DataInv, FinishedFileIsWhole
  <2>8. DataInv'
    BY <2>1, <2>3, <2>4, <2>5, <2>6, <2>7 DEF DataInv
  <2>9. co \in Alone /\ co' \notin {"cut", "split"} /\ co' \in CoordinatorSteps
    BY <1>1, <2>1 DEF Alone, CoordinatorSteps
  <2>10. QED
    BY <1>1, <1>2, <2>1, <2>8, <2>9, Basics, AloneTypes, AloneStep
<1>6. QED
  BY <1>3, <1>4, <1>5

\* A complete plan that covers the file and whose claims are written has every
\* byte in its place; and there is a byte.
LEMMA CompleteMeansWhole ==
  ASSUME EngineInv, PlanComplete(segs), segs # << >>
  PROVE  Total > 0 /\ \A p \in Byte : part[p] = p
<1>1. DataInv /\ segs \in Seq(SegmentRec) /\ Total \in Nat
  BY Basics
<1>2. ASSUME NEW i \in DOMAIN segs
      PROVE  /\ segs[i].start \in Nat /\ segs[i].end \in Nat
             /\ Cursor(segs[i]) \in Nat /\ Cursor(segs[i]) > segs[i].end
  <2>1. segs[i] \in SegmentRec
    BY <1>1
  <2>2. segs[i].start \in Nat /\ segs[i].end \in Nat /\ Cursor(segs[i]) \in Nat
    BY <2>1 DEF SegmentRec, Cursor
  <2>3. Remaining(segs[i]) = 0
    BY DEF PlanComplete, IsComplete
  <2>4. QED
    BY <2>2, <2>3 DEF Remaining
<1>3. Total > 0
  <2>1. PICK i \in DOMAIN segs : TRUE
    BY <1>1
  <2>2. /\ segs[i].done > 0 => Cursor(segs[i]) <= Total
        /\ segs[i].start <= segs[i].end
    BY <1>1 DEF DataInv, WithinFile
  <2>3. segs[i] \in SegmentRec
    BY <1>1
  <2>4. segs[i].done > 0
    BY <1>2, <2>2, <2>3 DEF Cursor, SegmentRec
  <2>5. QED
    BY <1>1, <1>2, <2>2, <2>4
<1>4. ASSUME NEW p \in Byte PROVE part[p] = p
  <2>1. PICK i \in DOMAIN segs : segs[i].start <= p /\ p <= segs[i].end
    BY <1>1 DEF DataInv, PlanTilesFile, Tiles
  <2>2. p < Cursor(segs[i])
    BY <1>2, <2>1 DEF Byte
  <2>3. QED
    BY <1>1, <2>1, <2>2 DEF DataInv, DoneIsWritten, Claims
<1>5. QED
  BY <1>3, <1>4

\* Moving the part file into place keeps the invariant: the plan is complete.
LEMMA MoveIntoPlaceStep ==
  ASSUME EngineInv, MoveIntoPlace
  PROVE  EngineInv'
<1>1. /\ co = "finalize" /\ co' = "forget"
      /\ final' = part /\ part' = PartDomain(Hole) /\ hasPart' = FALSE
      /\ segs' = << >>
      /\ UNCHANGED <<control, useRanges, cut, inFlight, stop, fatal, cancel,
                     worker, mailbox, result, attempts, faults>>
  BY DEF MoveIntoPlace, coordination, environment
<1>2. DataInv
  BY Basics
<1>3. Total > 0 /\ \A p \in Byte : part[p] = p
  BY <1>1, <1>2, CompleteMeansWhole DEF DataInv, PlanIsThere, NoPlan
<1>4. final' # << >>
  <2>1. 0 \in Byte /\ DOMAIN final' = Byte
    BY <1>1, <1>3, Basics DEF Byte
  <2>2. QED
    BY <2>1
<1>5. PlanIsThere'
  BY <1>1, <1>2 DEF DataInv, PlanIsThere, NoPlan
<1>6. WithinFile(segs)' /\ WithinFile(control)' /\ PlanTilesFile'
  BY <1>1, <1>2 DEF DataInv, WithinFile, Cursor, PlanTilesFile, Tiles
<1>7. DoneIsWritten' /\ ControlIsWritten'
  BY <1>1 DEF DoneIsWritten, ControlIsWritten, Claims
<1>8. FinishedFileIsWhole'
  BY <1>1, <1>3, <1>4 DEF FinishedFileIsWhole
<1>9. DataInv'
  BY <1>1, <1>4, <1>5, <1>6, <1>7, <1>8 DEF DataInv
<1>10. co \in Alone /\ co' \notin {"cut", "split"} /\ co' \in CoordinatorSteps
  BY <1>1 DEF Alone, CoordinatorSteps
<1>11. hasPart' \in BOOLEAN
  BY <1>1
<1>12. QED
  BY <1>1, <1>9, <1>10, <1>11, Basics, AloneTypes, AloneStep

\* So does a move that fails.
LEMMA MoveFailsStep ==
  ASSUME EngineInv, MoveFails
  PROVE  EngineInv'
<1>1. /\ co = "finalize" /\ RunFails("failed")
      /\ UNCHANGED <<part, hasPart, control, final, cut, inFlight, cancel, worker,
                     mailbox, attempts>>
      /\ faults > 0 /\ faults' = faults - 1
  BY DEF MoveFails, files
<1>2. faults' \in Nat
  BY <1>1, Basics
<1>3. "failed" \in Errors
  BY DEF Errors
<1>4. QED
  BY <1>1, <1>2, <1>3, RunFailsStep

\* Deleting the control file of a finished download keeps the invariant.
LEMMA DeleteControlStep ==
  ASSUME EngineInv, DeleteControl
  PROVE  EngineInv'
<1>1. /\ co = "forget" /\ co' = "idle" /\ control' = << >> /\ result' = "ok"
      /\ UNCHANGED <<part, hasPart, final, segs, useRanges, cut, inFlight,
                     stop, fatal, cancel, worker, mailbox, attempts, faults>>
  BY DEF DeleteControl, DeleteControlFile, coordination
<1>2. DataInv
  BY Basics
<1>3. PlanIsThere'
  BY <1>1, <1>2 DEF DataInv, PlanIsThere, NoPlan
<1>4. WithinFile(segs)' /\ WithinFile(control)' /\ PlanTilesFile'
  BY <1>1, <1>2 DEF DataInv, WithinFile, Cursor, PlanTilesFile, Tiles
<1>5. DoneIsWritten' /\ ControlIsWritten'
  BY <1>1, <1>2 DEF DataInv, DoneIsWritten, ControlIsWritten, Claims, Cursor
<1>6. FinishedFileIsWhole'
  BY <1>1, <1>2 DEF DataInv, FinishedFileIsWhole
<1>7. DataInv'
  BY <1>1, <1>3, <1>4, <1>5, <1>6 DEF DataInv
<1>8. co \in Alone /\ co' \notin {"cut", "split"} /\ co' \in CoordinatorSteps
  BY <1>1 DEF Alone, CoordinatorSteps
<1>9. QED
  BY <1>1, <1>7, <1>8, Basics, AloneTypes, AloneStep

\* A crash keeps the invariant: it loses the plan, not the files.
LEMMA CrashStep ==
  ASSUME EngineInv, Crash
  PROVE  EngineInv'
<1>1. /\ co' = "idle" /\ segs' = << >> /\ useRanges' = FALSE /\ cut' = NoCut
      /\ inFlight' = 0 /\ stop' = FALSE /\ fatal' = "ok" /\ cancel' = FALSE
      /\ worker' = [w \in Workers |-> FreeSlot] /\ mailbox' = << >>
      /\ result' = "none"
      /\ UNCHANGED <<part, hasPart, control, final, attempts, faults>>
  BY DEF Crash, files
<1>2. DataInv'
  BY <1>1, PlanDropped
<1>3. \A w \in Workers : worker'[w] = FreeSlot
  BY <1>1
<1>4. TaskInv'
  <2>1. Busy' = {}
    BY <1>3, FreeSlotType DEF Busy
  <2>2. Counted'
    BY <1>1, <2>1, FS_EmptySet DEF Counted
  <2>3. SegmentsAreExclusive'
    BY <1>3, FreeSlotType DEF SegmentsAreExclusive, Holding
  <2>4. CutIsInside'
    BY <1>1 DEF CutIsInside
  <2>5. FreeSlot.skew = 0
    BY DEF FreeSlot
  <2>6. \A w \in Workers : Aligned(w)'
    BY <1>3, <2>5, FreeSlotType DEF Aligned
  <2>7. QED
    BY <2>2, <2>3, <2>4, <2>6 DEF TaskInv
<1>5. TypeOK'
  <2>1. TypeOK
    BY Basics
  <2>2. /\ worker' \in [Workers -> SlotRec]
        /\ mailbox' \in Seq(Outcomes)
        /\ segs' \in Seq(SegmentRec)
        /\ cut' \in [victim: Nat, mid: Int, end: Nat]
        /\ fatal' \in Outcomes
        /\ co' \in CoordinatorSteps
    BY <1>1, FreeSlotType DEF NoCut, Outcomes, CoordinatorSteps
  <2>3. useRanges' \in BOOLEAN /\ stop' \in BOOLEAN /\ cancel' \in BOOLEAN
    BY <1>1
  <2>4. inFlight' \in Int /\ result' \in {"none", "ok", "cancelled", "failed"}
    BY <1>1
  <2>5. QED
    BY <1>1, <2>1, <2>2, <2>3, <2>4 DEF TypeOK
<1>6. QED
  BY <1>2, <1>4, <1>5 DEF EngineInv, TaskInv, DataInv

---------------------------------------------------------------------------
(* Starting tasks. *)

\* Handing out a segment nobody has keeps the tasks apart.
LEMMA SpawnTasks ==
  ASSUME EngineInv, NEW plan \in Seq(SegmentRec), NEW i \in DOMAIN plan,
         Spawn(i, plan),
         DOMAIN segs \subseteq DOMAIN plan,
         \A j \in DOMAIN segs :
           /\ plan[j].start = segs[j].start
           /\ plan[j].done = segs[j].done
           /\ plan[j].active = segs[j].active,
         i \in DOMAIN segs => ~segs[i].active,
         UNCHANGED <<part, useRanges, mailbox>>,
         co' \notin Alone, co' \notin {"cut", "split"}
  PROVE  /\ TaskInv'
         /\ worker' \in [Workers -> SlotRec]
         /\ inFlight' \in Int
         /\ segs' \in Seq(SegmentRec)
         /\ DOMAIN segs' = DOMAIN plan
         /\ \A j \in DOMAIN plan :
              /\ segs'[j].start = plan[j].start
              /\ segs'[j].end = plan[j].end
              /\ segs'[j].done = plan[j].done
<1>1. TypeOK /\ TaskInv
  BY Basics
<1>2. PICK w \in Workers :
        /\ worker[w].pc = "free"
        /\ worker' = [worker EXCEPT ![w] = [FreeSlot EXCEPT !.pc = "top", !.seg = i]]
        /\ segs' = [plan EXCEPT ![i].active = TRUE]
        /\ inFlight' = inFlight + 1
  BY DEF Spawn
<1> DEFINE slot == [FreeSlot EXCEPT !.pc = "top", !.seg = i]
<1>3. i \in Nat
  OBVIOUS
<1>4. slot \in SlotRec /\ slot.pc = "top" /\ slot.seg = i /\ slot.skew = 0
  <2>1. slot \in SlotRec /\ slot.pc = "top" /\ slot.seg = i
    BY <1>1, <1>2, <1>3, SlotTypes
  <2>2. slot.skew = 0
    BY DEF FreeSlot
  <2>3. QED
    BY <2>1, <2>2
<1>5. worker' = [worker EXCEPT ![w] = slot] /\ worker \in [Workers -> SlotRec]
  BY <1>1, <1>2 DEF TypeOK
<1> HIDE DEF slot
<1>6. /\ worker' \in [Workers -> SlotRec]
      /\ worker'[w] = slot
      /\ \A v \in Workers : v # w => worker'[v] = worker[v]
  BY <1>4, <1>5
<1>7. /\ segs' \in Seq(SegmentRec)
      /\ DOMAIN segs' = DOMAIN plan
      /\ segs'[i] = [plan[i] EXCEPT !.active = TRUE]
      /\ \A j \in DOMAIN plan : j # i => segs'[j] = plan[j]
  BY <1>2, ReplaceField
<1>8. plan[i] \in SegmentRec
  OBVIOUS
<1>9. /\ segs'[i].start = plan[i].start
      /\ segs'[i].end = plan[i].end
      /\ segs'[i].done = plan[i].done
      /\ segs'[i].active = TRUE
  BY <1>7, <1>8 DEF SegmentRec
<1>10. \A v \in Workers : v # w /\ Holding(v)' =>
         /\ Holding(v)
         /\ worker[v].seg \in DOMAIN segs
         /\ segs[worker[v].seg].active
         /\ worker[v].seg # i
  BY <1>1, <1>6 DEF TaskInv, SegmentsAreExclusive, Holding
<1>11. Counted'
  <2>1. Busy' = Busy \cup {w} /\ w \notin Busy
    BY <1>2, <1>4, <1>6 DEF Busy
  <2>2. Cardinality(Busy') = Cardinality(Busy) + 1
    BY <2>1, BusyIsFinite, FS_AddElement
  <2>3. QED
    BY <2>2, <1>2, Basics DEF Counted
<1>12. SegmentsAreExclusive'
  <2>1. ASSUME NEW v \in Workers, Holding(v)'
        PROVE  worker'[v].seg \in DOMAIN segs' /\ segs'[worker'[v].seg].active
    <3>1. CASE v = w
      BY <3>1, <1>4, <1>6, <1>7, <1>9
    <3>2. CASE v # w
      BY <3>2, <2>1, <1>6, <1>7, <1>10
    <3>3. QED
      BY <3>1, <3>2
  <2>2. ASSUME NEW u \in Workers, NEW v \in Workers, Holding(u)', Holding(v)',
               worker'[u].seg = worker'[v].seg
        PROVE  u = v
    <3>1. CASE u # w /\ v # w
      BY <3>1, <2>2, <1>1, <1>6, <1>10 DEF TaskInv, SegmentsAreExclusive
    <3>2. CASE u = w \/ v = w
      BY <3>2, <2>2, <1>4, <1>6, <1>10
    <3>3. QED
      BY <3>1, <3>2
  <2>3. QED
    BY <2>1, <2>2 DEF SegmentsAreExclusive
<1>13. CutIsInside'
  BY DEF CutIsInside
<1>14. ASSUME NEW v \in Workers PROVE Aligned(v)'
  <2>1. CASE v = w
    BY <2>1, <1>4, <1>6 DEF Aligned
  <2>2. CASE v # w /\ ~(Holding(v)')
    BY <2>2, <1>1, <1>6 DEF Aligned, Holding, TaskInv
  <2>3. CASE v # w /\ Holding(v)'
    <3>1. worker'[v] = worker[v] /\ Aligned(v)
      BY <2>3, <1>1, <1>6 DEF TaskInv
    <3>2. Cursor(segs'[worker'[v].seg]) = Cursor(segs[worker[v].seg])
      BY <2>3, <3>1, <1>7, <1>10 DEF Cursor
    <3>3. QED
      BY <3>1, <3>2 DEF Aligned
  <2>4. QED
    BY <2>1, <2>2, <2>3
<1>15. TaskInv'
  BY <1>11, <1>12, <1>13, <1>14 DEF TaskInv
<1>16. inFlight' \in Int
  BY <1>2, Basics
<1>17. QED
  BY <1>6, <1>7, <1>9, <1>15, <1>16

\* An idle segment is handed out: the plan claims and covers what it did.
LEMMA SpawnIdleStep ==
  ASSUME EngineInv, co \in {"spawn", "topUp"}, co' = co,
         Idle(segs) # {}, Spawn(FirstIdle(segs), segs),
         UNCHANGED <<part, hasPart, control, final, useRanges, cut, stop, fatal,
                     cancel, mailbox, result, attempts, faults>>
  PROVE  EngineInv'
<1> DEFINE i == FirstIdle(segs)
<1>1. DataInv /\ TypeOK /\ segs \in Seq(SegmentRec)
  BY Basics
<1>2. i \in Idle(segs)
  BY <1>1, FirstIdleIsIdle
<1> HIDE DEF i
<1>3. i \in DOMAIN segs /\ ~segs[i].active
  BY <1>2 DEF Idle
<1>4. /\ TaskInv'
      /\ worker' \in [Workers -> SlotRec]
      /\ inFlight' \in Int
      /\ segs' \in Seq(SegmentRec)
      /\ DOMAIN segs' = DOMAIN segs
      /\ \A j \in DOMAIN segs :
           /\ segs'[j].start = segs[j].start
           /\ segs'[j].end = segs[j].end
           /\ segs'[j].done = segs[j].done
  <2>1. co' \notin Alone /\ co' \notin {"cut", "split"}
    BY DEF Alone
  <2>2. Spawn(i, segs)
    BY DEF i
  <2>3. QED
    BY <1>1, <1>3, <2>1, <2>2, SpawnTasks
<1>5. TypeOK'
  BY <1>1, <1>4 DEF TypeOK
<1>6. segs' = << >> <=> segs = << >>
  BY <1>1, <1>4
<1>7. PlanIsThere'
  BY <1>1, <1>6 DEF DataInv, PlanIsThere
<1>8. WithinFile(segs)' /\ WithinFile(control)'
  BY <1>1, <1>4 DEF DataInv, WithinFile, Cursor
<1>9. PlanTilesFile'
  BY <1>1, <1>4, <1>6 DEF DataInv, PlanTilesFile, Tiles
<1>10. DoneIsWritten' /\ ControlIsWritten'
  BY <1>1, <1>4 DEF DataInv, DoneIsWritten, ControlIsWritten, Claims, Cursor
<1>11. FinishedFileIsWhole'
  BY <1>1 DEF DataInv, FinishedFileIsWhole
<1>12. DataInv'
  BY <1>7, <1>8, <1>9, <1>10, <1>11 DEF DataInv
<1>13. QED
  BY <1>4, <1>5, <1>12 DEF EngineInv, TaskInv, DataInv

\* The coordinator looks at the plan and goes on without starting a task.
LEMMA NoSpawnStep ==
  ASSUME EngineInv, co \in {"spawn", "topUp"}, co' \in {"loop", "cut"},
         cut' \in [victim: Nat, mid: Int, end: Nat],
         co' = "cut" => cut'.victim \in DOMAIN segs,
         UNCHANGED <<part, hasPart, control, final, segs, useRanges, inFlight,
                     stop, fatal, cancel, worker, mailbox, result, attempts, faults>>
  PROVE  EngineInv'
<1>1. TypeOK
  BY Basics
<1>2. TypeOK'
  BY <1>1 DEF TypeOK, CoordinatorSteps
<1>3. CutIsInside' /\ co' \notin Alone
  BY DEF CutIsInside, Alone
<1>4. TaskInv'
  BY <1>3, Basics, TasksKept
<1>5. DataInv'
  BY DataKept DEF NoPlan
<1>6. QED
  BY <1>2, <1>4, <1>5 DEF EngineInv, TaskInv, DataInv

\* Starting the first tasks keeps the invariant.
LEMMA SpawnFirstStep ==
  ASSUME EngineInv, SpawnFirst
  PROVE  EngineInv'
<1>1. /\ co = "spawn"
      /\ UNCHANGED <<part, hasPart, control, final, useRanges, cut, stop, fatal,
                     cancel, mailbox, result, attempts, faults>>
  BY DEF SpawnFirst, files, environment
<1>2. CASE inFlight < EffectiveMax /\ Idle(segs) # {}
  BY <1>1, <1>2, SpawnIdleStep DEF SpawnFirst
<1>3. CASE ~(inFlight < EffectiveMax /\ Idle(segs) # {})
  <2>1. co' = "loop" /\ UNCHANGED <<segs, worker, inFlight>>
    BY <1>3 DEF SpawnFirst
  <2>2. cut' \in [victim: Nat, mid: Int, end: Nat]
    BY <1>1, Basics DEF TypeOK
  <2>3. QED
    BY <1>1, <2>1, <2>2, NoSpawnStep
<1>4. QED
  BY <1>2, <1>3

\* Handing leftover work out, or choosing a victim, keeps the invariant.
LEMMA TopUpStep ==
  ASSUME EngineInv, TopUp
  PROVE  EngineInv'
<1>1. /\ co = "topUp"
      /\ UNCHANGED <<part, hasPart, control, final, useRanges, stop, fatal,
                     cancel, mailbox, result, attempts, faults>>
  BY DEF TopUp, files, environment
<1>2. cut \in [victim: Nat, mid: Int, end: Nat] /\ segs \in Seq(SegmentRec)
  BY Basics DEF TypeOK
<1>3. CASE inFlight < EffectiveMax /\ Idle(segs) # {}
  BY <1>1, <1>3, SpawnIdleStep DEF TopUp
<1>4. CASE /\ inFlight < EffectiveMax /\ Idle(segs) = {}
           /\ Splittable(segs, MinSplit) # {}
  <2> DEFINE v == LargestSplittable(segs, MinSplit)
  <2>1. v \in DOMAIN segs
    BY <1>2, <1>4, EngineAssumption, LargestIsSplittable DEF Splittable
  <2>2. v \in Nat
    BY <1>2, <2>1
  <2>3. cut' = [NoCut EXCEPT !.victim = v] /\ co' = "cut"
        /\ UNCHANGED <<segs, worker, inFlight>>
    BY <1>4 DEF TopUp
  <2> HIDE DEF v
  <2>4. cut' \in [victim: Nat, mid: Int, end: Nat] /\ cut'.victim = v
    BY <2>2, <2>3 DEF NoCut
  <2>5. QED
    BY <1>1, <2>1, <2>3, <2>4, NoSpawnStep
<1>5. CASE \/ ~(inFlight < EffectiveMax)
           \/ Idle(segs) = {} /\ Splittable(segs, MinSplit) = {}
  <2>1. co' = "loop" /\ cut' = cut /\ UNCHANGED <<segs, worker, inFlight>>
    BY <1>5 DEF TopUp
  <2>2. QED
    BY <1>1, <1>2, <2>1, NoSpawnStep
<1>6. QED
  BY <1>3, <1>4, <1>5

\* Cutting segment v at mid leaves every offset with one segment, because the
\* two halves are what the whole was.
LEMMA CutKeepsTiles ==
  ASSUME NEW plan \in Seq(SegmentRec), NEW v \in DOMAIN plan, NEW mid \in Nat,
         plan[v].start < mid, mid <= plan[v].end,
         NEW new \in Seq(SegmentRec),
         DOMAIN new = DOMAIN plan \cup {Len(plan) + 1},
         \A j \in DOMAIN plan :
           /\ new[j].start = plan[j].start
           /\ new[j].end = IF j = v THEN mid - 1 ELSE plan[j].end,
         new[Len(plan) + 1].start = mid,
         new[Len(plan) + 1].end = plan[v].end,
         Tiles(plan)
  PROVE  Tiles(new)
<1> DEFINE last == Len(plan) + 1
           In(s, p) == s.start <= p /\ p <= s.end
<1>1. /\ DOMAIN plan \subseteq Nat /\ last \notin DOMAIN plan
      /\ DOMAIN new = DOMAIN plan \cup {last}
  OBVIOUS
<1>2. \A j \in DOMAIN plan : plan[j].start \in Nat /\ plan[j].end \in Nat
  <2>1. \A j \in DOMAIN plan : plan[j] \in SegmentRec
    OBVIOUS
  <2>2. QED
    BY <2>1 DEF SegmentRec
<1>3. \A p \in Byte : p \in Nat
  BY DEF Byte
<1>4. \A p \in Byte : \A j \in DOMAIN plan :
        In(new[j], p) <=> In(plan[j], p) /\ (j = v => p < mid)
  BY <1>2, <1>3
<1>5. \A p \in Byte : In(new[last], p) <=> In(plan[v], p) /\ mid <= p
  BY <1>2, <1>3
<1>6. \A p \in Byte :
        /\ \E i \in DOMAIN plan : In(plan[i], p)
        /\ \A i, j \in DOMAIN plan : In(plan[i], p) /\ In(plan[j], p) => i = j
  BY DEF Tiles
<1> HIDE DEF In, last
<1>7. ASSUME NEW p \in Byte
      PROVE  \E i \in DOMAIN new : In(new[i], p)
  <2>1. PICK i \in DOMAIN plan : In(plan[i], p)
    BY <1>6
  <2>2. CASE i = v /\ mid <= p
    BY <2>1, <2>2, <1>1, <1>5
  <2>3. CASE i = v => p < mid
    BY <2>1, <2>3, <1>1, <1>4
  <2>4. QED
    BY <2>2, <2>3, <1>3
<1>8. ASSUME NEW p \in Byte, NEW i \in DOMAIN new, NEW j \in DOMAIN new,
             In(new[i], p), In(new[j], p)
      PROVE  i = j
  <2>1. CASE i \in DOMAIN plan /\ j \in DOMAIN plan
    BY <2>1, <1>4, <1>6, <1>8
  <2>2. ASSUME NEW k \in DOMAIN plan, In(new[k], p), In(new[last], p)
        PROVE  FALSE
    <3>1. In(plan[k], p) /\ (k = v => p < mid) /\ In(plan[v], p) /\ mid <= p
      BY <2>2, <1>4, <1>5
    <3>2. k = v
      BY <3>1, <1>6
    <3>3. QED
      BY <3>1, <3>2, <1>3
  <2>3. QED
    BY <2>1, <2>2, <1>1, <1>8
<1>9. QED
  BY <1>7, <1>8 DEF Tiles, In

\* A split keeps the invariant, even when the worker moved past the cut.
LEMMA SplitStep ==
  ASSUME EngineInv, Split
  PROVE  EngineInv'
<1> DEFINE v == cut.victim
           last == Len(segs) + 1
           back == NewSegment(cut.mid, cut.end)
           front == ShrinkEnd(segs, v, cut.mid)
           plan == Append(front, back)
<1>1. /\ co = "split" /\ co' = "topUp" /\ cut' = NoCut
      /\ Spawn(last, plan)
      /\ UNCHANGED <<part, hasPart, control, final, useRanges, stop, fatal,
                     cancel, mailbox, result, attempts, faults>>
  BY DEF Split, files, environment
<1>2. DataInv /\ TaskInv /\ TypeOK /\ segs \in Seq(SegmentRec) /\ Total \in Nat
  BY Basics
<1>3. /\ v \in DOMAIN segs /\ cut.end = segs[v].end
      /\ segs[v].start < cut.mid /\ cut.mid <= cut.end
  BY <1>1, <1>2 DEF TaskInv, CutIsInside
<1>4. segs[v] \in SegmentRec
  BY <1>2, <1>3
<1>5. /\ segs[v].start \in Nat /\ segs[v].end \in Nat /\ segs[v].done \in Nat
      /\ cut.mid \in Nat /\ cut.end \in Nat /\ cut.mid - 1 \in Nat
  <2>1. segs[v].start \in Nat /\ segs[v].end \in Nat /\ segs[v].done \in Nat
    BY <1>4 DEF SegmentRec
  <2>2. cut.mid \in Int
    BY <1>2 DEF TypeOK
  <2>3. QED
    BY <2>1, <2>2, <1>3
<1>6. /\ back \in SegmentRec /\ back.start = cut.mid /\ back.end = cut.end
      /\ back.done = 0
  BY <1>5 DEF NewSegment, SegmentRec
<1>7. /\ front \in Seq(SegmentRec)
      /\ DOMAIN front = DOMAIN segs
      /\ front[v] = [segs[v] EXCEPT !.end = cut.mid - 1]
      /\ \A j \in DOMAIN segs : j # v => front[j] = segs[j]
  BY <1>2, <1>3, <1>5, ReplaceField DEF ShrinkEnd
<1>8. \A j \in DOMAIN segs :
        /\ front[j].start = segs[j].start
        /\ front[j].end = IF j = v THEN cut.mid - 1 ELSE segs[j].end
        /\ front[j].done = segs[j].done
        /\ front[j].active = segs[j].active
  BY <1>4, <1>7 DEF SegmentRec
<1> HIDE DEF front, back, v
<1>9. /\ plan \in Seq(SegmentRec)
      /\ DOMAIN plan = DOMAIN segs \cup {last}
      /\ last \notin DOMAIN segs
      /\ plan[last] = back
      /\ \A j \in DOMAIN segs : plan[j] = front[j]
  <2>1. Len(front) = Len(segs) /\ Len(segs) \in Nat
    BY <1>2, <1>7
  <2>2. QED
    BY <1>2, <1>6, <1>7, <2>1
<1> HIDE DEF plan
<1>10. Tiles(plan)
  <2>1. Tiles(segs)
    BY <1>2, <1>3 DEF DataInv, PlanTilesFile
  <2>2. cut.mid \in Nat /\ segs[v].start < cut.mid /\ cut.mid <= segs[v].end
    BY <1>3, <1>5
  <2>3. DOMAIN plan = DOMAIN segs \cup {Len(segs) + 1}
    BY <1>9 DEF last
  <2>4. \A j \in DOMAIN segs :
          /\ plan[j].start = segs[j].start
          /\ plan[j].end = IF j = v THEN cut.mid - 1 ELSE segs[j].end
    BY <1>8, <1>9
  <2>5. plan[Len(segs) + 1].start = cut.mid /\ plan[Len(segs) + 1].end = segs[v].end
    BY <1>3, <1>6, <1>9 DEF last
  <2>6. segs \in Seq(SegmentRec) /\ plan \in Seq(SegmentRec) /\ v \in DOMAIN segs
    BY <1>2, <1>3, <1>9
  <2>7. QED
    BY <2>1, <2>2, <2>3, <2>4, <2>5, <2>6, CutKeepsTiles, ZenonT(60)
<1>11. WithinFile(plan)
  <2>1. WithinFile(segs)
    BY <1>2 DEF DataInv
  <2>2. ASSUME NEW j \in DOMAIN segs
        PROVE  /\ plan[j].start <= plan[j].end
               /\ plan[j].done > 0 => Cursor(plan[j]) <= Total
               /\ SizeKnown /\ Total > 0 => plan[j].end < Total
    <3>1. /\ segs[j].start <= segs[j].end
          /\ segs[j].done > 0 => Cursor(segs[j]) <= Total
          /\ SizeKnown /\ Total > 0 => segs[j].end < Total
      BY <2>1 DEF WithinFile
    <3>2. Cursor(plan[j]) = Cursor(segs[j])
      BY <1>8, <1>9 DEF Cursor
    <3>3. CASE j = v
      BY <3>1, <3>2, <3>3, <1>2, <1>3, <1>5, <1>8, <1>9
    <3>4. CASE j # v
      BY <3>1, <3>2, <3>4, <1>8, <1>9
    <3>5. QED
      BY <3>3, <3>4
  <2>3. /\ plan[last].start <= plan[last].end
        /\ ~(plan[last].done > 0)
        /\ SizeKnown /\ Total > 0 => plan[last].end < Total
    BY <2>1, <1>3, <1>6, <1>9 DEF WithinFile
  <2>4. QED
    BY <2>2, <2>3, <1>9 DEF WithinFile
<1>12. Claims(plan)
  <2>1. Claims(segs)
    BY <1>2 DEF DataInv, DoneIsWritten
  <2>2. \A j \in DOMAIN segs :
          plan[j].start = segs[j].start /\ Cursor(plan[j]) = Cursor(segs[j])
    BY <1>8, <1>9 DEF Cursor
  <2>3. plan[last].start = cut.mid /\ Cursor(plan[last]) = cut.mid
    BY <1>5, <1>6, <1>9 DEF Cursor
  <2>4. \A p \in Byte : ~(cut.mid <= p /\ p < cut.mid)
    BY <1>5 DEF Byte
  <2>5. QED
    BY <2>1, <2>2, <2>3, <2>4, <1>9 DEF Claims
<1>13. /\ TaskInv'
       /\ worker' \in [Workers -> SlotRec]
       /\ inFlight' \in Int
       /\ segs' \in Seq(SegmentRec)
       /\ DOMAIN segs' = DOMAIN plan
       /\ \A j \in DOMAIN plan :
            /\ segs'[j].start = plan[j].start
            /\ segs'[j].end = plan[j].end
            /\ segs'[j].done = plan[j].done
  <2>1. co' \notin Alone /\ co' \notin {"cut", "split"}
    BY <1>1 DEF Alone
  <2>2. last \in DOMAIN plan /\ DOMAIN segs \subseteq DOMAIN plan
    BY <1>9
  <2>3. \A j \in DOMAIN segs :
          /\ plan[j].start = segs[j].start
          /\ plan[j].done = segs[j].done
          /\ plan[j].active = segs[j].active
    BY <1>8, <1>9
  <2> HIDE DEF last
  <2>4. QED
    BY <1>1, <1>9, <2>1, <2>2, <2>3, SpawnTasks
<1>14. TypeOK'
  <2>1. cut' \in [victim: Nat, mid: Int, end: Nat]
    BY <1>1 DEF NoCut
  <2>2. QED
    BY <1>1, <1>2, <1>13, <2>1 DEF TypeOK, CoordinatorSteps
<1>15. segs' # << >>
  <2>1. v \in DOMAIN segs'
    BY <1>3, <1>9, <1>13
  <2>2. QED
    BY <2>1
<1>16. PlanIsThere'
  BY <1>1, <1>2, <1>15 DEF DataInv, PlanIsThere, NoPlan
<1>17. WithinFile(segs)' /\ WithinFile(control)'
  BY <1>1, <1>2, <1>11, <1>13 DEF DataInv, WithinFile, Cursor
<1>18. PlanTilesFile'
  BY <1>1, <1>2, <1>10, <1>13 DEF DataInv, PlanTilesFile, Tiles
<1>19. DoneIsWritten' /\ ControlIsWritten'
  BY <1>1, <1>2, <1>12, <1>13 DEF DataInv, DoneIsWritten, ControlIsWritten, Claims, Cursor
<1>20. FinishedFileIsWhole'
  BY <1>1, <1>2 DEF DataInv, FinishedFileIsWhole
<1>21. DataInv'
  BY <1>1, <1>16, <1>17, <1>18, <1>19, <1>20 DEF DataInv
<1>22. QED
  BY <1>13, <1>14, <1>21 DEF EngineInv, TaskInv, DataInv

---------------------------------------------------------------------------
(* The invariant, and what it implies. *)

\* A step that changes nothing keeps the invariant.
LEMMA StutterStep ==
  ASSUME EngineInv, UNCHANGED vars
  PROVE  EngineInv'
<1>1. UNCHANGED <<part, hasPart, control, final, segs, useRanges, co, cut,
                  inFlight, stop, fatal, cancel, worker, mailbox, result,
                  attempts, faults>>
  BY DEF vars
<1>2. DataInv'
  BY <1>1, DataKept
<1>3. TaskInv'
  <2>1. CutIsInside'
    BY <1>1 DEF EngineInv, CutIsInside
  <2>2. co' \in Alone => inFlight' = 0
    BY <1>1 DEF EngineInv, Counted
  <2>3. inFlight' = Cardinality(Busy) + Len(mailbox')
    BY <1>1, Basics
  <2>4. QED
    BY <1>1, <2>1, <2>2, <2>3, TasksKept
<1>4. TypeOK'
  <2>1. TypeOK
    BY Basics
  <2>2. QED
    BY <1>1, <2>1 DEF TypeOK
<1>5. QED
  BY <1>2, <1>3, <1>4 DEF EngineInv, TaskInv, DataInv

\* A download that was never started satisfies the invariant.
LEMMA InitInv == Init => EngineInv
<1> SUFFICES ASSUME Init PROVE EngineInv
  OBVIOUS
<1>1. /\ part = PartDomain(Hole) /\ hasPart = FALSE /\ control = << >>
      /\ final = << >> /\ segs = << >> /\ useRanges = FALSE /\ co = "idle"
      /\ cut = NoCut /\ inFlight = 0 /\ stop = FALSE /\ fatal = "ok"
      /\ cancel = FALSE /\ worker = [w \in Workers |-> FreeSlot]
      /\ mailbox = << >> /\ result = "none" /\ attempts = 0
      /\ faults = MaxFaults
  BY DEF Init
<1>2. \A w \in Workers : worker[w] = FreeSlot
  BY <1>1
<1>3. TypeOK
  <2>1. part \in [Byte -> Int]
    BY <1>1 DEF PartDomain, Hole
  <2>2. /\ worker \in [Workers -> SlotRec]
        /\ mailbox \in Seq(Outcomes)
        /\ segs \in Seq(SegmentRec) /\ control \in Seq(SnapshotRec)
        /\ cut \in [victim: Nat, mid: Int, end: Nat]
        /\ fatal \in Outcomes
        /\ co \in CoordinatorSteps
    BY <1>1, FreeSlotType DEF NoCut, Outcomes, CoordinatorSteps
  <2>3. /\ hasPart \in BOOLEAN /\ useRanges \in BOOLEAN /\ stop \in BOOLEAN
        /\ cancel \in BOOLEAN
    BY <1>1
  <2>4. /\ inFlight \in Int /\ attempts \in Nat /\ faults \in Nat
        /\ result \in {"none", "ok", "cancelled", "failed"}
        /\ final = << >>
    BY <1>1, EngineAssumption
  <2>5. QED
    BY <2>1, <2>2, <2>3, <2>4 DEF TypeOK
<1>4. TaskInv
  <2>1. Busy = {}
    BY <1>2, FreeSlotType DEF Busy
  <2>2. Counted
    BY <1>1, <2>1, FS_EmptySet DEF Counted
  <2>3. SegmentsAreExclusive
    BY <1>2, FreeSlotType DEF SegmentsAreExclusive, Holding
  <2>4. CutIsInside
    BY <1>1 DEF CutIsInside
  <2>5. FreeSlot.skew = 0
    BY DEF FreeSlot
  <2>6. \A w \in Workers : Aligned(w)
    BY <1>2, <2>5, FreeSlotType DEF Aligned
  <2>7. QED
    BY <2>2, <2>3, <2>4, <2>6 DEF TaskInv
<1>5. DataInv
  <2>1. DOMAIN segs = {} /\ DOMAIN control = {}
    BY <1>1
  <2>2. PlanIsThere
    BY <1>1 DEF PlanIsThere, NoPlan
  <2>3. WithinFile(segs) /\ WithinFile(control)
    BY <2>1 DEF WithinFile
  <2>4. PlanTilesFile
    BY <1>1 DEF PlanTilesFile
  <2>5. DoneIsWritten /\ ControlIsWritten
    BY <2>1 DEF DoneIsWritten, ControlIsWritten, Claims
  <2>6. FinishedFileIsWhole /\ ~(co = "finalize") /\ ~(co = "forget")
    BY <1>1 DEF FinishedFileIsWhole
  <2>7. QED
    BY <2>2, <2>3, <2>4, <2>5, <2>6 DEF DataInv
<1>6. QED
  BY <1>3, <1>4, <1>5, TwoParts

\* Every step of the coordinator keeps the invariant.
LEMMA CoordinatorStep ==
  ASSUME EngineInv, Coordinator
  PROVE  EngineInv'
<1>1. CASE Decide \/ DiscardPart \/ DiscardControl \/ OpenPart \/ FirstSave \/ StartFails
  BY <1>1, DecideStep, DiscardPartStep, DiscardControlStep, OpenPartStep,
     FirstSaveStep, StartFailsStep
<1>2. CASE SpawnFirst \/ TopUp \/ Split
  BY <1>2, SpawnFirstStep, TopUpStep, SplitStep
<1>3. CASE LoopEnds \/ Receive \/ ChooseCut \/ TickCancelled \/ Drain
  BY <1>3, LoopStep
<1>4. CASE Checkpoint \/ FinalSave \/ Verdict \/ MoveIntoPlace \/ MoveFails \/ DeleteControl
  BY <1>4, CheckpointStep, FinalSaveStep, VerdictStep, MoveIntoPlaceStep,
     MoveFailsStep, DeleteControlStep
<1>5. QED
  BY <1>1, <1>2, <1>3, <1>4 DEF Coordinator

\* The invariant is inductive.
LEMMA NextInv == EngineInv /\ [Next]_vars => EngineInv'
<1> SUFFICES ASSUME EngineInv, [Next]_vars PROVE EngineInv'
  OBVIOUS
<1>1. CASE Begin
  BY <1>1, BeginStep
<1>2. CASE Coordinator
  BY <1>2, CoordinatorStep
<1>3. CASE Cancel
  BY <1>3, LoopStep
<1>4. CASE Crash
  BY <1>4, CrashStep
<1>5. CASE Rest \/ UNCHANGED vars
  BY <1>5, StutterStep DEF Rest
<1>6. CASE \E w \in Workers : Worker(w)
  BY <1>6, WorkerStep
<1>7. QED
  BY <1>1, <1>2, <1>3, <1>4, <1>5, <1>6 DEF Next

\* The engine keeps EngineInv, whatever the size of the file, the number of
\* connections, the floors, the buffer, the faults, cancels, crashes and
\* attempts.
THEOREM EngineInvHolds == Spec => []EngineInv
<1>1. QED
  BY InitInv, NextInv, PTL DEF Spec

\* Every variable of the engine keeps its type.
THEOREM TypeCorrect == Spec => []TypeOK
<1>1. EngineInv => TypeOK
  BY DEF EngineInv
<1>2. QED
  BY <1>1, EngineInvHolds, PTL

\* The resume guarantee of flush (download.rs:878-883): at every moment, every
\* byte the running plan counts as done is in its place in the part file.
THEOREM DoneIsOnDisk == Spec => []DoneIsWritten
<1>1. EngineInv => DoneIsWritten
  BY DEF EngineInv
<1>2. QED
  BY <1>1, EngineInvHolds, PTL

\* The same for the control file that a crash leaves behind: a resume
\* (download.rs:293-304) never skips a byte that is not there.
THEOREM ControlIsOnDisk == Spec => []ControlIsWritten
<1>1. EngineInv => ControlIsWritten
  BY DEF EngineInv
<1>2. QED
  BY <1>1, EngineInvHolds, PTL

\* Splits (plan.rs:293-319), resumes and restarts never lose an offset of the
\* file and never give one to two segments.
THEOREM PlanAlwaysTiles == Spec => []PlanTilesFile
<1>1. EngineInv => PlanTilesFile
  BY DEF EngineInv
<1>2. QED
  BY <1>1, EngineInvHolds, PTL

\* The claim by try_activate (plan.rs:112-116) keeps workers apart: no segment
\* is ever in the hands of two.
THEOREM NeverTwoWorkers == Spec => []SegmentsAreExclusive
<1>1. EngineInv => SegmentsAreExclusive
  BY DEF EngineInv
<1>2. QED
  BY <1>1, EngineInvHolds, PTL

\* When the coordinator saves, judges and moves the part file no task is left
\* that could still write to it (download.rs:482-489).
THEOREM NobodyWritesAfterDrain == Spec => []NobodyUnheard
<1>1. EngineInv => NobodyUnheard
  <2> SUFFICES ASSUME EngineInv PROVE NobodyUnheard
    OBVIOUS
  <2>1. inFlight = Cardinality(Busy) + Len(mailbox)
    BY DEF EngineInv, Counted
  <2>2. ASSUME co \in {"save", "verdict", "finalize", "forget", "idle"}
        PROVE  Busy = {}
    <3>1. co \in Alone
      BY <2>2 DEF Alone
    <3>2. inFlight = 0
      BY <3>1 DEF EngineInv, Counted
    <3>3. QED
      BY <3>2, AloneMeansFree DEF EngineInv
  <2>3. QED
    BY <2>1, <2>2 DEF NobodyUnheard
<1>2. QED
  BY <1>1, EngineInvHolds, PTL

\* A file that reached its final place (download.rs:544-633) is the resource,
\* byte for byte, whatever was cancelled, crashed, split and retried before.
THEOREM DeliveredFileIsWhole == Spec => []FinishedFileIsWhole
<1>1. EngineInv => FinishedFileIsWhole
  BY DEF EngineInv
<1>2. QED
  BY <1>1, EngineInvHolds, PTL

---------------------------------------------------------------------------
(* The progress counter. *)

\* The counter is the number of bytes of the file that the segments of the plan
\* have: no segment runs past the file and none counts a byte of another.
LEMMA ProgressCounts ==
  ASSUME EngineInv
  PROVE  /\ TotalDone(segs) =
              Cardinality(UNION {BytesOf(segs[i], Total) : i \in DOMAIN segs})
         /\ TotalDone(segs) \in Nat
         /\ TotalDone(segs) <= Total
<1>1. segs \in Seq(SegmentRec) /\ Total \in Nat
  BY Basics
<1>2. \A i \in DOMAIN segs :
        /\ segs[i].start <= segs[i].end
        /\ segs[i].done > 0 => Cursor(segs[i]) <= Total
  BY DEF EngineInv, WithinFile
<1>3. \A p \in 0 .. Total - 1 : \A i, j \in DOMAIN segs :
        (/\ segs[i].start <= p /\ p <= segs[i].end
         /\ segs[j].start <= p /\ p <= segs[j].end) => i = j
  <2>1. CASE segs = << >>
    BY <2>1
  <2>2. CASE segs # << >>
    BY <2>2 DEF EngineInv, PlanTilesFile, Tiles, Byte
  <2>3. QED
    BY <2>1, <2>2
<1>4. QED
  BY <1>1, <1>2, <1>3, TotalDoneCounts

\* What the progress bar shows (plan.rs:98-100, 251-258) never exceeds the
\* length of the file, although a worker may run past the end that a split gave
\* its segment: the bytes behind it are counted where they now belong.
THEOREM ProgressStaysWithinFile == Spec => []ProgressWithinFile
<1>1. EngineInv => ProgressWithinFile
  BY ProgressCounts DEF ProgressWithinFile
<1>2. QED
  BY <1>1, EngineInvHolds, PTL

---------------------------------------------------------------------------
(* The engine implements Transfer. *)

\* The bytes that are in their place.
InPlace == {p \in Byte : part[p] = p}

\* A step that leaves the part file and the finished file alone is none for
\* Transfer.
LEMMA QuietSteps ==
  ASSUME UNCHANGED <<part, final>>
  PROVE  UNCHANGED Promise!vars
<1>1. {p \in Byte : part[p] = p}' = {p \in Byte : part[p] = p}
  OBVIOUS
<1>2. QED
  BY <1>1 DEF Promise!vars

\* What a worker writes only adds to the bytes in their place.
LEMMA WorkerArrives ==
  ASSUME EngineInv, NEW w \in Workers, Worker(w)
  PROVE  Promise!Arrive
<1>1. \A p \in Byte : part'[p] = part[p] \/ part'[p] = p
  BY WorkerBytes
<1>2. final' = final
  BY WorkerFrame
<1>3. InPlace' \subseteq Byte /\ InPlace \subseteq InPlace'
  BY <1>1 DEF InPlace
<1>4. QED
  BY <1>2, <1>3 DEF Promise!Arrive, Promise!All, InPlace, Byte

\* Every step of the engine is one of Transfer, or none.
LEMMA StepsImplement ==
  ASSUME EngineInv, [Next]_vars
  PROVE  [Promise!Next]_(Promise!vars)
<1>1. CASE \E w \in Workers : Worker(w)
  BY <1>1, WorkerArrives DEF Promise!Next
<1>2. CASE DiscardPart
  <2>1. part' = PartDomain(Hole) /\ final' = final
    BY <1>2 DEF DiscardPart
  <2>2. InPlace' = {}
    <3>1. \A p \in Byte : p \in Nat /\ part'[p] = -1
      BY <2>1 DEF PartDomain, Hole, Byte
    <3>2. QED
      BY <3>1 DEF InPlace
  <2>3. QED
    BY <2>1, <2>2 DEF Promise!Next, Promise!Discard, InPlace
<1>3. CASE MoveIntoPlace
  <2>1. /\ co = "finalize" /\ co' = "forget" /\ part' = PartDomain(Hole)
    BY <1>3 DEF MoveIntoPlace
  <2>2. \A p \in Byte : part[p] = p
    BY <2>1, CompleteMeansWhole DEF EngineInv, PlanIsThere, NoPlan
  <2>3. InPlace = Promise!All
    BY <2>2 DEF InPlace, Promise!All, Byte
  <2>4. final' # << >>
    BY <1>3, <2>1, MoveIntoPlaceStep DEF EngineInv
  <2>5. InPlace' = {}
    <3>1. \A p \in Byte : p \in Nat /\ part'[p] = -1
      BY <2>1 DEF PartDomain, Hole, Byte
    <3>2. QED
      BY <3>1 DEF InPlace
  <2>6. QED
    BY <2>3, <2>4, <2>5 DEF Promise!Next, Promise!Deliver, InPlace
<1>4. CASE /\ Coordinator \/ Begin \/ Cancel \/ Crash \/ Rest \/ UNCHANGED vars
           /\ ~DiscardPart /\ ~MoveIntoPlace
  <2>1. UNCHANGED <<part, final>>
    BY <1>4 DEF Coordinator, Begin, Cancel, Crash, Rest, vars, files, Decide,
       DiscardControl, OpenPart, FirstSave, StartFails, SpawnFirst, LoopEnds,
       Receive, TopUp, ChooseCut, Split, TickCancelled, Checkpoint, Drain,
       FinalSave, Verdict, MoveFails, DeleteControl
  <2>2. QED
    BY <2>1, QuietSteps
<1>5. QED
  BY <1>1, <1>2, <1>3, <1>4 DEF Next

\* A download that was never started is a transfer that was never started.
LEMMA InitImplements == Init => Promise!Init
<1> SUFFICES ASSUME Init PROVE Promise!Init
  OBVIOUS
<1>1. part = PartDomain(Hole) /\ final = << >>
  BY DEF Init
<1>2. \A p \in Byte : p \in Nat /\ part[p] = -1
  BY <1>1 DEF PartDomain, Hole, Byte
<1>3. QED
  BY <1>1, <1>2 DEF Promise!Init

\* The engine implements Transfer for every file, number of connections and
\* number of faults, cancels, crashes and attempts: what has arrived is never
\* spoiled, and only a whole file is delivered.
THEOREM EngineImplementsTransfer == Spec => ImplementsTransfer
<1>1. EngineInv /\ [Next]_vars => [Promise!Next]_(Promise!vars)
  BY StepsImplement
<1>2. QED
  BY <1>1, InitImplements, EngineInvHolds, PTL
     DEF Spec, ImplementsTransfer, Promise!Spec
=============================================================================
