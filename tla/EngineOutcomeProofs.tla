------------------------ MODULE EngineOutcomeProofs ------------------------
(***************************************************************************)
(* Proofs about module Engine, continued: how a run ends.  A run that no   *)
(* error ended has all of its segments (VerdictInv), and a download of a   *)
(* known size fails only when server or disk misbehaved (FaultInv).        *)
(***************************************************************************)
EXTENDS EngineProofs

---------------------------------------------------------------------------
(* A run that no error ended has all of its segments: the workers. *)

\* A worker that gives its segment up reports success for a complete one only.
LEMMA GivesUp ==
  ASSUME EngineInv, NEW w \in Workers, Worker(w), Holding(w),
         worker'[w].pc = "sending"
  PROVE  \E outcome \in Outcomes :
           /\ Leave(w, outcome)
           /\ outcome = "ok" => IsComplete(segs[worker[w].seg])
<1> DEFINE slot == worker[w]
           Goal == \E outcome \in Outcomes :
                     /\ Leave(w, outcome)
                     /\ outcome = "ok" => IsComplete(segs[slot.seg])
<1>1. worker \in [Workers -> SlotRec] /\ slot \in SlotRec /\ Aligned(w)
  BY Basics DEF EngineInv, TypeOK
<1>2. {"ok", "failed", "cancelled", "rangeLost"} \subseteq Outcomes
  BY DEF Outcomes, Errors
<1>3. ASSUME NEW new, Goes(w, new), new.pc # "sending" PROVE FALSE
  BY <1>1, <1>3 DEF Goes
<1>4. ASSUME NEW new, Goes(w, new), slot.pc \in {"flush", "credit"}, new = Flushed(w)
      PROVE  FALSE
  <2>1. slot.after \in {"stream", "ended", "retry", "cancelled"}
    BY <1>1, <1>4 DEF Aligned
  <2>2. new.pc # "sending"
    BY <2>1, <1>1, <1>4 DEF Flushed, SlotAt, FreeSlot, SlotRec
  <2>3. QED
    BY <2>2, <1>3, <1>4
<1>5. ASSUME NEW pos, NEW after, FlushThen(w, pos, after) PROVE FALSE
  <2>1. [slot EXCEPT !.pc = "flush", !.pos = pos, !.after = after].pc = "flush"
    BY <1>1 DEF SlotRec
  <2>2. QED
    BY <2>1, <1>3, <1>5 DEF FlushThen
<1>6. ASSUME NEW rewind, TryAgain(w, rewind) PROVE Leave(w, "failed")
  <2>1. [SlotAt(w, "top") EXCEPT !.attempt = @ + 1].pc = "top"
    BY DEF SlotAt, FreeSlot
  <2>2. QED
    BY <2>1, <1>3, <1>6 DEF TryAgain
<1>7. SUFFICES Goal
  OBVIOUS
<1> HIDE DEF Goal
<1>8. ASSUME NEW outcome \in {"failed", "cancelled", "rangeLost"}, Leave(w, outcome)
      PROVE  Goal
  BY <1>2, <1>8 DEF Goal
<1>9. ASSUME Leave(w, "ok"), IsComplete(segs[slot.seg]) PROVE Goal
  BY <1>2, <1>9 DEF Goal
<1>10. CASE Top(w)
  <2> DEFINE s == segs[slot.seg]
             new == [slot EXCEPT !.pc = "asked", !.from = Cursor(s),
                                 !.pos = Cursor(s), !.limit = s.end]
  <2>1. \/ Leave(w, "cancelled") \/ Leave(w, "failed")
        \/ Leave(w, "ok") /\ IsComplete(s)
        \/ Goes(w, new)
    BY <1>10 DEF Top
  <2>2. new.pc = "asked"
    BY <1>1 DEF SlotRec
  <2> HIDE DEF new
  <2>3. QED
    BY <2>1, <2>2, <1>3, <1>8, <1>9
<1>11. CASE Respond(w)
  <2>1. \A k, l : /\ [slot EXCEPT !.pc = "stream"].pc = "stream"
                  /\ [slot EXCEPT !.pc = "stream", !.skew = k, !.limit = l].pc = "stream"
    BY <1>1 DEF SlotRec
  <2>2. QED
    BY <2>1, <1>3, <1>11 DEF Respond
<1>12. CASE RespondFull(w) \/ RespondFatal(w) \/ Stopped(w)
  BY <1>12, <1>8 DEF RespondFull, RespondFatal, Stopped
<1>13. CASE RespondRetryable(w) \/ WriteFails(w)
  <2>1. SlotAt(w, "retry").pc = "retry"
    BY DEF SlotAt, FreeSlot
  <2>2. QED
    BY <2>1, <1>3, <1>8, <1>13 DEF RespondRetryable, WriteFails
<1>14. CASE StopSeen(w) \/ BodyEnds(w) \/ BodyBreaks(w)
  BY <1>14, <1>5 DEF StopSeen, BodyEnds, BodyBreaks
<1>15. ASSUME NEW n \in 1 .. MaxChunk, Chunk(w, n) PROVE Goal
  <2>1. slot.pc = "stream"
    BY <1>15 DEF Chunk
  <2>2. \A pos : [slot EXCEPT !.pos = pos].pc = slot.pc
    BY <1>1 DEF SlotRec
  <2>3. \/ \E pos, after : FlushThen(w, pos, after)
        \/ \E pos : Goes(w, [slot EXCEPT !.pos = pos])
    BY <1>15 DEF Chunk
  <2>4. QED
    BY <2>1, <2>2, <2>3, <1>3, <1>5
<1>16. CASE Write(w)
  <2>1. [slot EXCEPT !.pc = "credit"].pc = "credit"
    BY <1>1 DEF SlotRec
  <2>2. QED
    BY <2>1, <1>3, <1>4, <1>16 DEF Write
<1>17. CASE Credit(w)
  BY <1>17, <1>4 DEF Credit
<1>18. CASE Ended(w) \/ Retry(w)
  BY <1>18, <1>6, <1>8, <1>9 DEF Ended, Retry
<1>19. CASE Send(w)
  BY <1>19 DEF Send, Holding
<1>20. QED
  BY <1>10, <1>11, <1>12, <1>13, <1>14, <1>15, <1>16, <1>17, <1>18, <1>19
     DEF Worker

\* What a segment is after it was given up.
LEMMA GivenUp ==
  ASSUME EngineInv, NEW w \in Workers, Holding(w), NEW outcome \in Outcomes,
         Leave(w, outcome)
  PROVE  /\ worker'[w].pc = "sending" /\ worker'[w].outcome = outcome
         /\ ~segs'[worker[w].seg].active
         /\ IsComplete(segs'[worker[w].seg]) <=> IsComplete(segs[worker[w].seg])
<1> DEFINE i == worker[w].seg
<1>1. /\ i \in DOMAIN segs /\ segs \in Seq(SegmentRec)
      /\ worker \in [Workers -> SlotRec]
  BY DEF EngineInv, SegmentsAreExclusive, TypeOK
<1>2. worker'[w] = [FreeSlot EXCEPT !.pc = "sending", !.outcome = outcome]
  BY <1>1 DEF Leave, Goes
<1>3. worker'[w].pc = "sending" /\ worker'[w].outcome = outcome
  BY <1>2 DEF FreeSlot
<1>4. /\ segs'[i] = [segs[i] EXCEPT !.active = FALSE]
      /\ segs[i] \in SegmentRec
  BY <1>1, ReplaceField DEF Leave
<1>5. ~segs'[i].active /\ (IsComplete(segs'[i]) <=> IsComplete(segs[i]))
  BY <1>4 DEF SegmentRec, IsComplete, Remaining, Cursor
<1>6. QED
  BY <1>3, <1>5

\* A worker's step takes the task only from a segment it gives up, and leaves
\* one incomplete only with an error to report.
LEMMA WorkerVerdict ==
  ASSUME VerdictInv, NEW w \in Workers, Worker(w)
  PROVE  (\A j \in DOMAIN segs' : Held(j)') /\ LeftoversAreKnown'
<1> DEFINE i == worker[w].seg
<1>1. EngineInv /\ LeftoversAreKnown /\ \A j \in DOMAIN segs : Held(j)
  BY DEF VerdictInv
<1>2. PICK slot : Moves(w, slot)
  BY <1>1, WorkerMoves
<1>3. /\ UNCHANGED <<useRanges, co, inFlight, fatal>>
      /\ worker \in [Workers -> SlotRec]
      /\ worker'[w] = slot
      /\ \A v \in Workers : v # w => worker'[v] = worker[v]
      /\ DOMAIN segs' = DOMAIN segs
      /\ \A j \in DOMAIN segs : j # i => segs'[j] = segs[j]
      /\ mailbox \in Seq(Outcomes)
  BY <1>1, <1>2, WorkerFrame, Basics DEF Moves, TypeOK
<1>4. /\ Holding(w) => i \in DOMAIN segs /\ segs[i].active
      /\ ~Holding(w) =>
           /\ segs' = segs /\ worker[w].pc = "sending" /\ slot.pc = "free"
           /\ mailbox' = Append(mailbox, worker[w].outcome)
      /\ Holding(w) => slot.pc # "free" /\ mailbox' = mailbox
      /\ slot.pc \notin {"free", "sending"} =>
           slot.seg = i /\ segs'[i].active = segs[i].active
  BY <1>1, <1>2, <1>3 DEF Moves, EngineInv, SegmentsAreExclusive, Holding
<1>5. Holding(w) /\ slot.pc = "sending" =>
        /\ ~segs'[i].active
        /\ slot.outcome = "ok" => IsComplete(segs'[i])
  <2>1. SUFFICES ASSUME Holding(w), slot.pc = "sending"
                 PROVE  /\ ~segs'[i].active
                        /\ slot.outcome = "ok" => IsComplete(segs'[i])
    OBVIOUS
  <2>2. PICK outcome \in Outcomes :
          /\ Leave(w, outcome)
          /\ outcome = "ok" => IsComplete(segs[i])
    BY <2>1, <1>1, <1>3, GivesUp
  <2>3. QED
    BY <2>1, <2>2, <1>1, <1>3, GivenUp
<1>6. ASSUME NEW j \in DOMAIN segs PROVE Held(j)'
  <2>1. CASE j # i \/ ~Holding(w)
    <3>1. SUFFICES ASSUME segs[j].active
                   PROVE  \E v \in Workers : Holding(v)' /\ worker'[v].seg = j
      BY <2>1, <1>3, <1>4 DEF Held
    <3>2. PICK v \in Workers : Holding(v) /\ worker[v].seg = j
      BY <3>1, <1>1 DEF Held
    <3>3. v # w
      BY <2>1, <3>2
    <3>4. QED
      BY <3>2, <3>3, <1>3 DEF Holding
  <2>2. CASE j = i /\ Holding(w) /\ slot.pc = "sending"
    BY <2>2, <1>5 DEF Held
  <2>3. CASE j = i /\ Holding(w) /\ slot.pc # "sending"
    BY <2>3, <1>3, <1>4 DEF Held, Holding
  <2>4. QED
    BY <2>1, <2>2, <2>3
<1>7. BadNews => BadNews'
  <2>1. ASSUME NEW k \in DOMAIN mailbox, mailbox[k] # "ok" PROVE BadNews'
    <3>1. k \in DOMAIN mailbox' /\ mailbox'[k] = mailbox[k]
      BY <2>1, <1>3, <1>4
    <3>2. QED
      BY <2>1, <3>1 DEF BadNews
  <2>2. ASSUME NEW v \in Workers, worker[v].pc = "sending", worker[v].outcome # "ok"
        PROVE  BadNews'
    <3>1. CASE v = w
      <4>1. mailbox' = Append(mailbox, worker[w].outcome)
        BY <2>2, <3>1, <1>4 DEF Holding
      <4>2. Len(mailbox) + 1 \in DOMAIN mailbox' /\ mailbox'[Len(mailbox) + 1] = worker[w].outcome
        BY <4>1, <1>3
      <4>3. QED
        BY <2>2, <3>1, <4>2 DEF BadNews
    <3>2. CASE v # w
      BY <2>2, <3>2, <1>3 DEF BadNews
    <3>3. QED
      BY <3>1, <3>2
  <2>3. QED
    BY <2>1, <2>2 DEF BadNews
<1>8. Idle(segs) = {} => Idle(segs') = {} \/ BadNews'
  <2>1. SUFFICES ASSUME Idle(segs) = {}, NEW j \in Idle(segs') PROVE BadNews'
    OBVIOUS
  <2>2. j \in DOMAIN segs /\ ~IsComplete(segs'[j]) /\ ~segs'[j].active
    BY <2>1, <1>3 DEF Idle
  <2>3. j = i /\ Holding(w)
    BY <2>1, <2>2, <1>3, <1>4 DEF Idle
  <2>4. slot.pc = "sending" /\ slot.outcome # "ok"
    BY <2>2, <2>3, <1>4, <1>5
  <2>5. QED
    BY <2>4, <1>3 DEF BadNews
<1>9. co \notin {"save", "verdict"}
  <2>1. SUFFICES ASSUME co \in Alone PROVE FALSE
    BY DEF Alone
  <2>2. worker[w].pc = "free"
    BY <1>1, <2>1, AloneMeansFree DEF EngineInv, Counted
  <2>3. QED
    BY <2>2, <1>2 DEF Moves, Holding
<1>10. EffectiveMax' = EffectiveMax
  BY <1>3 DEF EffectiveMax, MaxConnections
<1>11. LeftoversAreKnown'
  BY <1>1, <1>3, <1>7, <1>8, <1>9, <1>10 DEF LeftoversAreKnown
<1>12. QED
  BY <1>3, <1>6, <1>11

---------------------------------------------------------------------------
(* A run that no error ended has all of its segments: the other steps. *)

\* When no task is left no segment is active; one that is not idle is complete.
LEMMA AloneMeansInactive ==
  ASSUME VerdictInv, inFlight = 0
  PROVE  /\ \A w \in Workers : worker[w].pc = "free"
         /\ \A i \in DOMAIN segs : ~segs[i].active
         /\ Idle(segs) = {} => PlanComplete(segs)
         /\ ~BadNews
<1>1. (\A w \in Workers : worker[w].pc = "free") /\ mailbox = << >>
  BY AloneMeansFree DEF VerdictInv, EngineInv
<1>2. \A i \in DOMAIN segs : ~segs[i].active
  BY <1>1 DEF VerdictInv, Held, Holding
<1>3. QED
  BY <1>1, <1>2 DEF Idle, PlanComplete, BadNews

\* A task is started for segment i of plan, which has the segments of the
\* running plan, as active as they are, and perhaps i behind them.
LEMMA SpawnHeld ==
  ASSUME VerdictInv, NEW plan \in Seq(SegmentRec), NEW i \in DOMAIN plan,
         Spawn(i, plan),
         \A j \in DOMAIN plan :
           j # i => j \in DOMAIN segs /\ plan[j].active = segs[j].active
  PROVE  \A j \in DOMAIN segs' : Held(j)'
<1>1. PICK w \in Workers :
        /\ worker[w].pc = "free"
        /\ worker' = [worker EXCEPT ![w] = [FreeSlot EXCEPT !.pc = "top", !.seg = i]]
        /\ segs' = [plan EXCEPT ![i].active = TRUE]
  BY DEF Spawn
<1>2. worker \in [Workers -> SlotRec]
  BY DEF VerdictInv, EngineInv, TypeOK
<1>3. /\ worker'[w].pc = "top" /\ worker'[w].seg = i
      /\ \A v \in Workers : v # w => worker'[v] = worker[v]
  BY <1>1, <1>2 DEF FreeSlot
<1>4. /\ DOMAIN segs' = DOMAIN plan
      /\ \A j \in DOMAIN plan : j # i => segs'[j] = plan[j]
  BY <1>1, ReplaceField
<1>5. ASSUME NEW j \in DOMAIN plan PROVE Held(j)'
  <2>1. CASE j = i
    BY <2>1, <1>3 DEF Held, Holding
  <2>2. CASE j # i
    <3>1. SUFFICES ASSUME segs'[j].active
                   PROVE  \E v \in Workers : Holding(v)' /\ worker'[v].seg = j
      BY DEF Held
    <3>2. PICK v \in Workers : Holding(v) /\ worker[v].seg = j
      BY <2>2, <3>1, <1>4 DEF VerdictInv, Held
    <3>3. v # w
      BY <3>2, <1>1 DEF Holding
    <3>4. QED
      BY <3>2, <3>3, <1>3 DEF Holding
  <2>3. QED
    BY <2>1, <2>2
<1>6. QED
  BY <1>4, <1>5

\* An idle segment is handed out.
LEMMA IdleHeld ==
  ASSUME VerdictInv, Idle(segs) # {}, Spawn(FirstIdle(segs), segs)
  PROVE  \A j \in DOMAIN segs' : Held(j)'
<1> DEFINE i == FirstIdle(segs)
<1>1. segs \in Seq(SegmentRec)
  BY Basics DEF VerdictInv
<1>2. i \in Idle(segs) /\ Spawn(i, segs)
  BY <1>1, FirstIdleIsIdle
<1> HIDE DEF i
<1>3. i \in DOMAIN segs
  BY <1>2 DEF Idle
<1>4. QED
  BY <1>1, <1>2, <1>3, SpawnHeld

\* Steps that start a task, or decide not to.
LEMMA SpawningVerdict ==
  ASSUME VerdictInv, SpawnFirst \/ TopUp \/ Split
  PROVE  (\A j \in DOMAIN segs' : Held(j)') /\ LeftoversAreKnown'
<1>1. inFlight \in Nat /\ EffectiveMax \in Nat /\ EffectiveMax' = EffectiveMax
  <2>1. Cardinality(Workers) \in Nat
    BY EngineAssumption, FS_CardinalityType
  <2>2. useRanges' = useRanges
    BY DEF SpawnFirst, TopUp, Split
  <2>3. QED
    BY <2>1, <2>2, Basics DEF VerdictInv, EffectiveMax, MaxConnections
<1>2. CASE (SpawnFirst \/ TopUp) /\ inFlight < EffectiveMax /\ Idle(segs) # {}
  <2>1. Spawn(FirstIdle(segs), segs) /\ co' \in {"spawn", "topUp"}
    BY <1>2 DEF SpawnFirst, TopUp
  <2>2. LeftoversAreKnown'
    BY <2>1 DEF LeftoversAreKnown
  <2>3. QED
    BY <1>2, <2>1, <2>2, IdleHeld
<1>3. CASE (SpawnFirst \/ TopUp) /\ ~(inFlight < EffectiveMax /\ Idle(segs) # {})
  <2>1. /\ UNCHANGED <<segs, worker, inFlight>>
        /\ co' = "loop" \/ (co' = "cut" /\ inFlight < EffectiveMax)
    BY <1>3 DEF SpawnFirst, TopUp
  <2>2. ASSUME NEW j \in DOMAIN segs PROVE Held(j)'
    BY <2>1 DEF VerdictInv, Held, Holding
  <2>3. LeftoversAreKnown'
    BY <1>1, <1>3, <2>1 DEF LeftoversAreKnown
  <2>4. QED
    BY <2>1, <2>2, <2>3
<1>4. CASE Split
  <2> DEFINE shrunk == ShrinkEnd(segs, cut.victim, cut.mid)
             plan == Append(shrunk, NewSegment(cut.mid, cut.end))
             n == Len(segs) + 1
  <2>1. co = "split" /\ co' = "topUp" /\ Spawn(n, plan)
    BY <1>4 DEF Split
  <2>2. /\ cut.victim \in DOMAIN segs
        /\ segs[cut.victim].start < cut.mid /\ cut.mid <= cut.end
        /\ cut \in [victim: Nat, mid: Int, end: Nat]
        /\ segs \in Seq(SegmentRec)
    BY <2>1 DEF VerdictInv, EngineInv, CutIsInside, TypeOK
  <2>3. segs[cut.victim] \in SegmentRec
    BY <2>2
  <2>4. cut.mid \in Nat /\ cut.mid - 1 \in Nat /\ cut.end \in Nat
    BY <2>2, <2>3 DEF SegmentRec
  <2>5. /\ shrunk \in Seq(SegmentRec)
        /\ DOMAIN shrunk = DOMAIN segs
        /\ shrunk[cut.victim] = [segs[cut.victim] EXCEPT !.end = cut.mid - 1]
        /\ \A j \in DOMAIN segs : j # cut.victim => shrunk[j] = segs[j]
    BY <2>2, <2>4, ReplaceField DEF ShrinkEnd
  <2>6. \A j \in DOMAIN segs : shrunk[j].active = segs[j].active
    BY <2>3, <2>5 DEF SegmentRec
  <2>7. NewSegment(cut.mid, cut.end) \in SegmentRec
    BY <2>4 DEF NewSegment, SegmentRec
  <2> HIDE DEF shrunk
  <2>8. /\ plan \in Seq(SegmentRec) /\ n \in DOMAIN plan
        /\ \A j \in DOMAIN plan : j # n => j \in DOMAIN segs /\ plan[j] = shrunk[j]
    BY <2>2, <2>5, <2>7
  <2> HIDE DEF plan, n
  <2>9. \A j \in DOMAIN segs' : Held(j)'
    BY <2>1, <2>6, <2>8, SpawnHeld
  <2>10. LeftoversAreKnown'
    BY <2>1 DEF LeftoversAreKnown
  <2>11. QED
    BY <2>9, <2>10
<1>5. QED
  BY <1>2, <1>3, <1>4

\* Steps that leave plan and slots alone.
LEMMA KeptVerdict ==
  ASSUME VerdictInv, Workers # {},
         \/ Begin \/ DiscardPart \/ OpenPart \/ FirstSave \/ LoopEnds \/ Receive
         \/ ChooseCut \/ TickCancelled \/ Checkpoint \/ Drain \/ FinalSave
         \/ DeleteControl \/ Cancel \/ Rest \/ UNCHANGED vars
  PROVE  (\A j \in DOMAIN segs' : Held(j)') /\ LeftoversAreKnown'
<1>1. UNCHANGED <<segs, worker>>
  BY DEF Begin, DiscardPart, OpenPart, FirstSave, LoopEnds, Receive, ChooseCut,
     TickCancelled, Checkpoint, Drain, FinalSave, DeleteControl, Cancel, Rest, vars
<1>2. ASSUME NEW j \in DOMAIN segs PROVE Held(j)'
  BY <1>1 DEF VerdictInv, Held, Holding
<1>3. /\ LeftoversAreKnown
      /\ Idle(segs') = Idle(segs)
      /\ (PlanComplete(segs') <=> PlanComplete(segs))
      /\ inFlight \in Nat
  BY <1>1, Basics DEF VerdictInv
<1>4. CASE Begin \/ DiscardPart \/ OpenPart \/ FirstSave \/ DeleteControl
  <2>1. co' \in {"decide", "discardControl", "firstSave", "spawn", "idle"}
    BY <1>4 DEF Begin, DiscardPart, OpenPart, FirstSave, DeleteControl
  <2>2. QED
    BY <1>1, <1>2, <2>1 DEF LeftoversAreKnown
<1>5. CASE LoopEnds
  <2>1. inFlight = 0 /\ co = "loop" /\ co' = "save"
    BY <1>5 DEF LoopEnds, NobodyInFlight
  <2>2. EffectiveMax \in Nat /\ EffectiveMax > 0
    <3>1. Cardinality(Workers) \in Nat /\ Cardinality(Workers) # 0
      BY EngineAssumption, FS_CardinalityType, FS_EmptySet
    <3>2. QED
      BY <3>1 DEF EffectiveMax, MaxConnections
  <2>3. ~BadNews /\ (Idle(segs) = {} => PlanComplete(segs))
    BY <2>1, AloneMeansInactive
  <2>4. PlanComplete(segs)
    BY <1>3, <2>1, <2>2, <2>3 DEF LeftoversAreKnown
  <2>5. QED
    BY <1>1, <1>2, <1>3, <2>1, <2>4 DEF LeftoversAreKnown
<1>6. CASE Receive
  BY <1>1, <1>2, <1>6 DEF Receive, LeftoversAreKnown
<1>7. CASE ChooseCut
  <2>1. BadNews' <=> BadNews
    BY <1>1, <1>7 DEF ChooseCut, BadNews
  <2>2. QED
    BY <1>1, <1>2, <1>3, <1>7, <2>1 DEF ChooseCut, LeftoversAreKnown
<1>8. CASE TickCancelled
  BY <1>1, <1>2, <1>8 DEF TickCancelled, LeftoversAreKnown
<1>9. CASE Drain
  BY <1>1, <1>2, <1>3, <1>9 DEF Drain, LeftoversAreKnown
<1>10. CASE FinalSave
  BY <1>1, <1>2, <1>3, <1>10 DEF FinalSave, LeftoversAreKnown, coordination
<1>11. CASE Checkpoint \/ Cancel \/ Rest \/ UNCHANGED vars
  <2>1. UNCHANGED <<co, inFlight, fatal, mailbox, useRanges>>
    BY <1>11 DEF Checkpoint, Cancel, Rest, vars, coordination
  <2>2. (BadNews' <=> BadNews) /\ EffectiveMax' = EffectiveMax
    BY <1>1, <2>1 DEF BadNews, EffectiveMax, MaxConnections
  <2>3. QED
    BY <1>1, <1>2, <1>3, <2>1, <2>2 DEF LeftoversAreKnown
<1>12. QED
  BY <1>1, <1>2, <1>4, <1>5, <1>6, <1>7, <1>8, <1>9, <1>10, <1>11

\* Steps that replace the plan: nobody is active in the new one.
LEMMA ReplacedVerdict ==
  ASSUME VerdictInv,
         \/ Decide \/ DiscardControl \/ StartFails \/ Verdict \/ MoveIntoPlace
         \/ MoveFails \/ Crash
  PROVE  (\A j \in DOMAIN segs' : Held(j)') /\ LeftoversAreKnown'
<1>1. co' \in {"idle", "decide", "discardPart", "discardControl", "open",
               "finalize", "forget"}
  <2>1. CASE Verdict
    BY <2>1 DEF Verdict, RunFails
  <2>2. CASE Decide \/ DiscardControl \/ StartFails \/ MoveIntoPlace \/ MoveFails \/ Crash
    BY <2>2 DEF Decide, DiscardControl, StartFails, MoveIntoPlace, MoveFails,
                Crash, RunFails
  <2>3. QED
    BY <2>1, <2>2
<1>2. LeftoversAreKnown'
  BY <1>1 DEF LeftoversAreKnown
<1>3. ASSUME NEW j \in DOMAIN segs' PROVE Held(j)'
  <2>1. CASE Decide
    <3>1. segs' = FromSnapshots(control) \/ segs' = << >>
      BY <2>1 DEF Decide
    <3>2. ~segs'[j].active
      BY <3>1 DEF FromSnapshots
    <3>3. QED
      BY <3>2 DEF Held
  <2>2. CASE DiscardControl
    <3>1. \/ segs' = SplitEven(Total, MaxConnections, MinSplit)
          \/ segs' = Single(Total, SizeKnown, OpenEnd)
      BY <2>2 DEF DiscardControl
    <3>2. ~segs'[j].active
      <4>1. CASE segs' = SplitEven(Total, MaxConnections, MinSplit)
        BY <4>1 DEF SplitEven, NewSegment
      <4>2. CASE segs' = Single(Total, SizeKnown, OpenEnd)
        BY <4>2 DEF Single, NewSegment
      <4>3. QED
        BY <3>1, <4>1, <4>2
    <3>3. QED
      BY <3>2 DEF Held
  <2>3. CASE StartFails \/ MoveIntoPlace \/ MoveFails \/ Crash
    <3>1. segs' = << >>
      BY <2>3 DEF StartFails, MoveIntoPlace, MoveFails, Crash, RunFails
    <3>2. QED
      BY <3>1
  <2>4. CASE Verdict
    <3>1. UNCHANGED worker /\ (segs' = segs \/ segs' = << >>)
      BY <2>4 DEF Verdict, RunFails
    <3>2. QED
      BY <3>1 DEF VerdictInv, Held, Holding
  <2>5. QED
    BY <2>1, <2>2, <2>3, <2>4
<1>4. QED
  BY <1>2, <1>3

\* Every step keeps VerdictInv.
LEMMA NextVerdict ==
  ASSUME Workers # {}, VerdictInv, [Next]_vars
  PROVE  VerdictInv'
<1>1. EngineInv'
  BY NextInv DEF VerdictInv
<1>2. (\A j \in DOMAIN segs' : Held(j)') /\ LeftoversAreKnown'
  <2>1. CASE \E w \in Workers : Worker(w)
    BY <2>1, WorkerVerdict
  <2>2. CASE Coordinator
    BY <2>2, SpawningVerdict, KeptVerdict, ReplacedVerdict DEF Coordinator
  <2>3. CASE Begin \/ Cancel \/ Crash \/ Rest \/ UNCHANGED vars
    BY <2>3, KeptVerdict, ReplacedVerdict
  <2>4. QED
    BY <2>1, <2>2, <2>3 DEF Next
<1>3. QED
  BY <1>1, <1>2 DEF VerdictInv

\* The first state.
LEMMA InitVerdict == Init => VerdictInv
BY InitInv DEF Init, VerdictInv, LeftoversAreKnown

\* Whatever the sizes, faults, cancels, crashes and attempts, the invariant
\* holds as soon as there is one connection.
THEOREM VerdictInvHolds ==
  ASSUME Workers # {}
  PROVE  Spec => []VerdictInv
<1>1. VerdictInv /\ [Next]_vars => VerdictInv'
  BY NextVerdict
<1>2. QED
  BY <1>1, InitVerdict, PTL DEF Spec

\* A complete plan counts at least one byte.
LEMMA CompleteCounts ==
  ASSUME EngineInv, segs # << >>, PlanComplete(segs)
  PROVE  TotalDone(segs) > 0
<1> DEFINE all == UNION {BytesOf(segs[i], Total) : i \in DOMAIN segs}
<1>1. Total > 0 /\ Total \in Nat /\ segs \in Seq(SegmentRec)
  BY CompleteMeansWhole, Basics
<1>2. 0 \in Byte
  BY <1>1 DEF Byte
<1>3. PICK i \in DOMAIN segs : segs[i].start <= 0 /\ 0 <= segs[i].end
  BY <1>2 DEF EngineInv, PlanTilesFile, Tiles
<1>4. segs[i] \in SegmentRec /\ IsComplete(segs[i])
  BY <1>1, <1>3 DEF PlanComplete
<1>5. segs[i].start = 0 /\ segs[i].end \in Nat /\ segs[i].done \in Nat
  BY <1>3, <1>4 DEF SegmentRec
<1>6. segs[i].done > segs[i].end
  BY <1>4, <1>5 DEF IsComplete, Remaining, Cursor
<1>7. EffectiveDone(segs[i]) \in Nat /\ EffectiveDone(segs[i]) > 0
  BY <1>5, <1>6 DEF EffectiveDone, SegLength
<1>8. 0 \in BytesOf(segs[i], Total)
  BY <1>1, <1>5, <1>7 DEF BytesOf
<1>9. all # {} /\ all \subseteq Byte
  BY <1>8 DEF BytesOf, Byte
<1>10. TotalDone(segs) = Cardinality(all) /\ TotalDone(segs) \in Nat
  BY ProgressCounts
<1> HIDE DEF all
<1>11. IsFiniteSet(Byte)
  BY <1>1, FS_Interval DEF Byte
<1>12. IsFiniteSet(all)
  BY <1>9, <1>11, FS_Subset
<1>13. QED
  BY <1>9, <1>10, <1>12, FS_EmptySet

\* The check before the file is moved (download.rs:499-508), which the code
\* calls unreachable, never fires, whatever fails, is cancelled or crashes: a
\* run that no error ended has all of its segments.
THEOREM DefensiveCheckNeverFires ==
  ASSUME Workers # {}
  PROVE  Spec => []NothingMissingAtVerdict
<1>1. VerdictInv => NothingMissingAtVerdict
  <2>1. SUFFICES ASSUME VerdictInv, co = "verdict", fatal = "ok"
                 PROVE  PlanComplete(segs) /\ TotalDone(segs) > 0
    BY DEF NothingMissingAtVerdict
  <2>2. PlanComplete(segs) /\ segs # << >>
    BY <2>1 DEF VerdictInv, LeftoversAreKnown, EngineInv, PlanIsThere, NoPlan
  <2>3. QED
    BY <2>1, <2>2, CompleteCounts DEF VerdictInv
<1>2. QED
  BY <1>1, VerdictInvHolds, PTL

---------------------------------------------------------------------------
(* Until the first fault a download of a known size is on course: workers. *)

\* What a worker on course leaves behind when it gives up its segment.
LEMMA LeavesOnCourse ==
  ASSUME EngineInv, NEW w \in Workers, Holding(w), stop' = stop,
         \/ Leave(w, "ok") /\ IsComplete(segs[worker[w].seg])
         \/ Leave(w, "cancelled") /\ stop
  PROVE  /\ TaskOnCourse(w)'
         /\ ~segs'[worker[w].seg].active
         /\ IsComplete(segs'[worker[w].seg]) \/ stop
<1>1. PICK outcome \in {"ok", "cancelled"} :
        /\ Leave(w, outcome)
        /\ outcome = "ok" => IsComplete(segs[worker[w].seg])
        /\ outcome = "cancelled" => stop
  OBVIOUS
<1>2. outcome \in Outcomes
  BY DEF Outcomes, Errors
<1>3. /\ worker'[w].pc = "sending" /\ worker'[w].outcome = outcome
      /\ ~segs'[worker[w].seg].active
      /\ IsComplete(segs'[worker[w].seg]) <=> IsComplete(segs[worker[w].seg])
  BY <1>1, <1>2, GivenUp
<1>4. TaskOnCourse(w)'
  BY <1>1, <1>3 DEF TaskOnCourse
<1>5. QED
  BY <1>1, <1>3, <1>4

\* Without a fault, a worker on course stays on course.
LEMMA TaskStaysOnCourse ==
  ASSUME EngineInv, OnCourse, SizeKnown, Total > 0,
         NEW w \in Workers, Worker(w), faults' = faults
  PROVE  /\ TaskOnCourse(w)'
         /\ Holding(w) /\ worker'[w].pc = "sending" =>
              /\ ~segs'[worker[w].seg].active
              /\ IsComplete(segs'[worker[w].seg]) \/ stop
<1> DEFINE slot == worker[w]
           i == slot.seg
           s == segs[i]
           t == segs'[i]
           Goal == /\ TaskOnCourse(w)'
                   /\ Holding(w) /\ worker'[w].pc = "sending" =>
                        /\ ~segs'[i].active
                        /\ IsComplete(segs'[i]) \/ stop
<1>1. /\ TypeOK /\ TaskOnCourse(w) /\ Aligned(w)
      /\ worker \in [Workers -> SlotRec] /\ slot \in SlotRec
      /\ segs \in Seq(SegmentRec)
      /\ faults \in Nat /\ Total \in Nat
      /\ UNCHANGED <<useRanges, stop>>
  BY WorkerFrame, Basics DEF EngineInv, TypeOK, OnCourse
<1>2. /\ slot.pos \in Nat /\ slot.from \in Nat /\ slot.limit \in Int
      /\ slot.seg \in Nat
  BY <1>1 DEF SlotRec
<1>3. Holding(w) =>
        /\ i \in DOMAIN segs /\ s \in SegmentRec /\ s.active
        /\ s.start \in Nat /\ s.end \in Nat /\ s.done \in Nat /\ Cursor(s) \in Nat
        /\ SegmentOnCourse(i)
        /\ s.end < Total
  <2>1. SUFFICES ASSUME Holding(w)
                 PROVE  /\ i \in DOMAIN segs /\ s \in SegmentRec /\ s.active
                        /\ s.start \in Nat /\ s.end \in Nat /\ s.done \in Nat
                        /\ Cursor(s) \in Nat
                        /\ SegmentOnCourse(i)
                        /\ s.end < Total
    OBVIOUS
  <2>2. i \in DOMAIN segs /\ s.active
    BY <2>1 DEF EngineInv, SegmentsAreExclusive
  <2>3. s \in SegmentRec
    BY <1>1, <2>2
  <2>4. /\ s.start \in Nat /\ s.end \in Nat /\ s.done \in Nat
        /\ Cursor(s) \in Nat
    BY <2>3 DEF SegmentRec, Cursor
  <2>5. SegmentOnCourse(i)
    BY <2>2 DEF OnCourse
  <2>6. s.end < Total
    BY <2>2 DEF EngineInv, WithinFile
  <2>7. QED
    BY <2>2, <2>3, <2>4, <2>5, <2>6
<1>4. ASSUME Holding(w),
             \/ Leave(w, "ok") /\ IsComplete(s)
             \/ Leave(w, "cancelled") /\ stop
      PROVE  Goal
  BY <1>1, <1>4, LeavesOnCourse
<1>5. ASSUME NEW new, worker'[w] = new, new.seg = i, t.end = s.end,
             new.pc \notin {"sending", "retry", "top"},
             new.pc \in {"asked", "stream", "flush", "credit"} => new.limit >= s.end,
             new.pc \in {"flush", "credit"} =>
               /\ new.after \in {"stream", "ended", "cancelled"}
               /\ new.after = "ended" => new.pos > s.end
               /\ new.after = "cancelled" => stop,
             new.pc = "ended" => IsComplete(t),
             new.pc = "cancelled" => stop
      PROVE  Goal
  BY <1>1, <1>5 DEF TaskOnCourse
<1>6. IsComplete(s) <=> Cursor(s) > s.end \/ s.end - Cursor(s) + 1 = 0
  BY DEF IsComplete, Remaining
<1>7. worker' \in [Workers -> SlotRec]
  BY WorkerTyped DEF TypeOK
<1>8. ASSUME NEW new, Goes(w, new) PROVE worker'[w] = new
  BY <1>1, <1>8 DEF Goes
<1> SUFFICES Goal
  OBVIOUS
<1> HIDE DEF Goal
<1>9. \A step \in WorkerSteps :
        /\ SlotAt(w, step).pc = step
        /\ SlotAt(w, step).seg = i
  BY DEF SlotAt, FreeSlot
<1>10. {"ended", "cancelled"} \subseteq WorkerSteps
  BY DEF WorkerSteps
<1>11. CASE Top(w)
  <2>1. slot.pc = "top" /\ Holding(w)
    BY <1>11 DEF Top, Holding
  <2>2. ~useRanges => Cursor(s) = 0
    BY <2>1, <1>1, <1>3 DEF TaskOnCourse, SegmentOnCourse, Cursor
  <2>3. \/ Leave(w, "cancelled") /\ stop
        \/ Leave(w, "ok") /\ IsComplete(s)
        \/ /\ Goes(w, [slot EXCEPT !.pc = "asked", !.from = Cursor(s),
                                   !.pos = Cursor(s), !.limit = s.end])
           /\ segs' = segs
    BY <1>11, <2>2 DEF Top
  <2> DEFINE new == [slot EXCEPT !.pc = "asked", !.from = Cursor(s),
                                 !.pos = Cursor(s), !.limit = s.end]
  <2>4. new.pc = "asked" /\ new.seg = i /\ new.limit = s.end
    BY <1>1 DEF SlotRec
  <2>5. CASE Goes(w, new) /\ segs' = segs
    <3>1. worker'[w] = new /\ new.limit >= s.end
      BY <2>1, <2>4, <2>5, <1>3, <1>8
    <3> HIDE DEF new
    <3>2. QED
      BY <3>1, <2>4, <2>5, <1>5
  <2>6. QED
    BY <2>1, <2>3, <2>5, <1>4
<1>12. CASE Respond(w)
  <2>1. slot.pc = "asked" /\ Holding(w) /\ segs' = segs /\ slot.limit >= s.end
    BY <1>12, <1>1 DEF Respond, Holding, TaskOnCourse
  <2> DEFINE new == IF useRanges
                    THEN [slot EXCEPT !.pc = "stream"]
                    ELSE [slot EXCEPT !.pc = "stream", !.skew = -slot.pos,
                                      !.limit = slot.pos + Total - 1]
  <2>2. worker'[w] = new
    BY <1>12, <1>8 DEF Respond
  <2>3. /\ new.pc = "stream" /\ new.seg = i
        /\ new.limit = IF useRanges THEN slot.limit ELSE slot.pos + Total - 1
    BY <1>1 DEF SlotRec
  <2>4. new.limit >= s.end
    BY <2>1, <2>3, <1>1, <1>2, <1>3
  <2> HIDE DEF new
  <2>5. QED
    BY <2>1, <2>2, <2>3, <2>4, <1>5
<1>13. ASSUME NEW pos \in Nat, NEW after \in {"stream", "ended", "cancelled"},
              FlushThen(w, pos, after), Holding(w), segs' = segs,
              slot.limit >= s.end,
              after = "ended" => pos > s.end,
              after = "cancelled" => stop
       PROVE  Goal
  <2> DEFINE new == [slot EXCEPT !.pc = "flush", !.pos = pos, !.after = after]
  <2>1. worker'[w] = new
    BY <1>13, <1>8 DEF FlushThen
  <2>2. /\ new.pc = "flush" /\ new.seg = i /\ new.limit = slot.limit
        /\ new.pos = pos /\ new.after = after
    BY <1>1 DEF SlotRec
  <2> HIDE DEF new
  <2>3. QED
    BY <2>1, <2>2, <1>5, <1>13
<1>14. CASE StopSeen(w)
  BY <1>14, <1>13, <1>1, <1>2 DEF StopSeen, Holding, TaskOnCourse
<1>15. CASE BodyEnds(w)
  <2>1. slot.limit >= s.end /\ Holding(w)
    BY <1>15, <1>1 DEF BodyEnds, TaskOnCourse, Holding
  <2>2. slot.pos > s.end
    BY <2>1, <1>15, <1>2, <1>3 DEF BodyEnds
  <2>3. QED
    BY <2>1, <2>2, <1>15, <1>13, <1>2 DEF BodyEnds
<1>16. ASSUME NEW n \in 1 .. MaxChunk, Chunk(w, n) PROVE Goal
  <2> DEFINE room == s.end - slot.pos + 1
             take == Smaller(n, room)
             next == slot.pos + take
  <2>1. slot.limit >= s.end /\ Holding(w) /\ slot.pc = "stream" /\ segs' = segs
    BY <1>16, <1>1 DEF Chunk, TaskOnCourse, Holding
  <2>2. n \in Nat /\ 1 <= n
    BY EngineAssumption
  <2>3. CASE slot.pos > s.end
    <3>1. FlushThen(w, slot.pos, "ended")
      BY <2>3, <1>16, <1>2, <1>3, <2>1 DEF Chunk
    <3>2. QED
      BY <3>1, <2>1, <2>3, <1>2, <1>13
  <2>4. CASE slot.pos <= s.end
    <3>1. next \in Nat /\ (take < n => next > s.end)
      BY <2>2, <2>4, <2>1, <1>2, <1>3 DEF Smaller
    <3>2. \/ take < n /\ FlushThen(w, next, "ended")
          \/ FlushThen(w, next, "stream")
          \/ Goes(w, [slot EXCEPT !.pos = next])
      BY <2>2, <2>4, <2>1, <1>16, <1>2, <1>3 DEF Chunk
    <3> HIDE DEF next, take
    <3>3. CASE take < n /\ FlushThen(w, next, "ended")
      BY <3>1, <3>3, <2>1, <1>13
    <3>4. CASE FlushThen(w, next, "stream")
      BY <3>1, <3>4, <2>1, <1>13
    <3>5. CASE Goes(w, [slot EXCEPT !.pos = next])
      <4> DEFINE new == [slot EXCEPT !.pos = next]
      <4>1. /\ new.pc = "stream" /\ new.seg = i /\ new.limit = slot.limit
        BY <1>1, <2>1 DEF SlotRec
      <4>2. worker'[w] = new
        BY <3>5, <1>8
      <4> HIDE DEF new
      <4>3. QED
        BY <4>1, <4>2, <2>1, <1>5
    <3>6. QED
      BY <3>2, <3>3, <3>4, <3>5
  <2>5. QED
    BY <2>3, <2>4, <1>2, <1>3, <2>1
<1>17. ASSUME slot.pc \in {"flush", "credit"}, worker'[w] = Flushed(w),
              t.end = s.end,
              slot.after = "ended" => IsComplete(t)
       PROVE  Goal
  <2>1. /\ slot.limit >= s.end
        /\ slot.after \in {"stream", "ended", "cancelled"}
        /\ slot.after = "cancelled" => stop
    BY <1>17, <1>1 DEF TaskOnCourse
  <2>2. CASE slot.after = "stream"
    <3>1. /\ Flushed(w).pc = "stream" /\ Flushed(w).seg = i
          /\ Flushed(w).limit = slot.limit
      BY <2>2, <1>1 DEF Flushed, SlotRec
    <3>2. QED
      BY <3>1, <2>1, <1>17, <1>5
  <2>3. CASE slot.after # "stream"
    <3>1. Flushed(w) = SlotAt(w, slot.after)
      BY <2>3 DEF Flushed
    <3>2. Flushed(w).pc = slot.after /\ Flushed(w).seg = i
      BY <3>1, <2>1, <2>3, <1>9, <1>10
    <3>3. QED
      BY <3>2, <2>1, <2>3, <1>17, <1>5
  <2>4. QED
    BY <2>2, <2>3
<1>18. CASE Write(w)
  <2>1. slot.pc = "flush" /\ Holding(w) /\ segs' = segs
    BY <1>18 DEF Write, Holding
  <2>2. CASE slot.from = slot.pos
    <3>1. worker'[w] = Flushed(w)
      BY <2>2, <1>18, <1>8 DEF Write
    <3>2. slot.after = "ended" => Cursor(s) > s.end
      BY <2>1, <2>2, <1>1 DEF TaskOnCourse, Aligned
    <3>3. slot.after = "ended" => IsComplete(s)
      BY <3>2, <1>6
    <3>4. QED
      BY <3>1, <3>3, <2>1, <1>17
  <2>3. CASE slot.from # slot.pos
    <3> DEFINE new == [slot EXCEPT !.pc = "credit"]
    <3>1. worker'[w] = new
      BY <2>3, <1>18, <1>8 DEF Write
    <3>2. /\ new.pc = "credit" /\ new.seg = i /\ new.limit = slot.limit
          /\ new.pos = slot.pos /\ new.after = slot.after
      BY <1>1 DEF SlotRec
    <3> HIDE DEF new
    <3>3. QED
      BY <3>1, <3>2, <2>1, <1>1, <1>5 DEF TaskOnCourse
  <2>4. QED
    BY <2>2, <2>3
<1>19. CASE Credit(w)
  <2>1. slot.pc = "credit" /\ Holding(w)
    BY <1>19 DEF Credit, Holding
  <2>2. worker'[w] = Flushed(w)
    BY <1>19, <1>8 DEF Credit
  <2>3. segs' = [segs EXCEPT ![i].done = s.done + (slot.pos - slot.from)]
    BY <1>19 DEF Credit
  <2>4. t = [s EXCEPT !.done = s.done + (slot.pos - slot.from)]
    BY <2>1, <2>3, <1>1, <1>3
  <2>5. /\ t.start = s.start /\ t.end = s.end
        /\ t.done = s.done + (slot.pos - slot.from)
    BY <2>1, <2>4, <1>3 DEF SegmentRec
  <2>6. slot.from = Cursor(s)
    BY <2>1, <1>1 DEF Aligned
  <2>7. Cursor(t) = slot.pos
    BY <2>1, <2>5, <2>6, <1>2, <1>3 DEF Cursor
  <2>8. slot.after = "ended" => Cursor(t) > t.end
    BY <2>1, <2>5, <2>7, <1>1 DEF TaskOnCourse
  <2>9. slot.after = "ended" => IsComplete(t)
    BY <2>8 DEF IsComplete, Remaining
  <2>10. QED
    BY <2>1, <2>2, <2>5, <2>9, <1>17
<1>20. CASE Ended(w) \/ Retry(w) \/ Stopped(w)
  <2>1. Holding(w) /\ ~Retry(w)
    BY <1>20, <1>1 DEF Ended, Retry, Stopped, Holding, TaskOnCourse
  <2>2. \/ Leave(w, "ok") /\ IsComplete(s)
        \/ Leave(w, "cancelled") /\ stop
    BY <1>20, <2>1, <1>1 DEF Ended, Stopped, TaskOnCourse
  <2>3. QED
    BY <2>1, <2>2, <1>4
<1>21. CASE Send(w)
  <2>1. ~Holding(w) /\ worker'[w].pc = "free"
    BY <1>21, <1>8 DEF Send, Holding, FreeSlot
  <2>2. QED
    BY <2>1 DEF Goal, TaskOnCourse
<1>22. CASE \/ RespondFull(w) \/ RespondFatal(w) \/ RespondRetryable(w)
            \/ BodyBreaks(w) \/ WriteFails(w)
  BY <1>22, <1>1 DEF RespondFull, RespondFatal, RespondRetryable, BodyBreaks,
                     WriteFails
<1>23. QED
  BY <1>11, <1>12, <1>14, <1>15, <1>16, <1>18, <1>19, <1>20, <1>21, <1>22
     DEF Worker

\* Without a fault, a worker's step keeps the download on course.
LEMMA WorkerOnCourse ==
  ASSUME EngineInv, OnCourse, SizeKnown, Total > 0,
         NEW w \in Workers, Worker(w), faults' = faults
  PROVE  OnCourse'
<1> DEFINE i == worker[w].seg
<1>1. PICK slot : Moves(w, slot)
  BY WorkerMoves
<1>2. /\ UNCHANGED <<useRanges, co, inFlight, stop, fatal, result>>
      /\ worker \in [Workers -> SlotRec]
      /\ worker'[w] = slot
      /\ \A v \in Workers : v # w => worker'[v] = worker[v]
      /\ segs \in Seq(SegmentRec)
      /\ segs' \in Seq(SegmentRec)
      /\ DOMAIN segs' = DOMAIN segs
      /\ \A j \in DOMAIN segs : j # i => segs'[j] = segs[j]
  BY <1>1, WorkerFrame, Basics DEF Moves, TypeOK
<1>3. /\ TaskOnCourse(w)'
      /\ Holding(w) /\ slot.pc = "sending" =>
           ~segs'[i].active /\ (IsComplete(segs'[i]) \/ stop)
  BY <1>2, TaskStaysOnCourse
<1>4. /\ Holding(w) => i \in DOMAIN segs /\ segs[i].active
      /\ ~Holding(w) => segs' = segs /\ worker[w].pc = "sending" /\ slot.pc = "free"
      /\ slot.pc \notin {"free", "sending"} =>
           slot.seg = i /\ segs'[i].active = segs[i].active
      /\ \A j \in DOMAIN segs : segs'[j].start = segs[j].start
  BY <1>1, <1>2 DEF Moves, EngineInv, SegmentsAreExclusive
<1>5. NoBadNews'
  <2>1. CASE mailbox' = mailbox
    BY <2>1, <1>2 DEF OnCourse, NoBadNews
  <2>2. CASE worker[w].pc = "sending" /\ mailbox' = Append(mailbox, worker[w].outcome)
    <3>1. worker[w].outcome = "ok" \/ (worker[w].outcome = "cancelled" /\ stop)
      BY <2>2 DEF OnCourse, TaskOnCourse
    <3>2. mailbox \in Seq(Outcomes)
      BY Basics
    <3>3. QED
      BY <2>2, <3>1, <3>2, <1>2 DEF OnCourse, NoBadNews
  <2>3. QED
    BY <1>1, <2>1, <2>2 DEF Moves
<1>6. ASSUME NEW v \in Workers PROVE TaskOnCourse(v)'
  <2>1. CASE v = w
    BY <2>1, <1>3
  <2>2. CASE v # w /\ Holding(v)
    <3>1. worker[v].seg \in DOMAIN segs
      BY <2>2 DEF EngineInv, SegmentsAreExclusive
    <3>2. segs'[worker[v].seg] = segs[worker[v].seg]
      BY <2>2, <3>1, <1>2, <1>4 DEF EngineInv, SegmentsAreExclusive
    <3>3. QED
      BY <2>2, <3>2, <1>2 DEF OnCourse, TaskOnCourse
  <2>3. CASE v # w /\ ~Holding(v)
    BY <2>3, <1>2 DEF OnCourse, TaskOnCourse, Holding
  <2>4. QED
    BY <2>1, <2>2, <2>3
<1>7. ASSUME NEW j \in DOMAIN segs PROVE SegmentOnCourse(j)'
  <2>1. SegmentOnCourse(j)
    BY DEF OnCourse
  <2>2. CASE segs'[j] = segs[j]
    BY <2>1, <2>2, <1>2 DEF SegmentOnCourse
  <2>3. CASE j = i /\ Holding(w) /\ slot.pc = "sending"
    BY <2>1, <2>3, <1>2, <1>3, <1>4 DEF SegmentOnCourse
  <2>4. CASE j = i /\ Holding(w) /\ slot.pc # "sending"
    <3>1. slot.pc # "free"
      BY <2>4, <1>1 DEF Moves, Holding
    <3>2. segs'[j].active
      BY <2>4, <3>1, <1>2, <1>4
    <3>3. QED
      BY <2>1, <3>2, <1>2, <1>4 DEF SegmentOnCourse
  <2>5. QED
    BY <2>2, <2>3, <2>4, <1>2, <1>4
<1>8. QED
  BY <1>2, <1>5, <1>6, <1>7 DEF OnCourse, OnlyCancelStops

---------------------------------------------------------------------------
(* Until the first fault a download of a known size is on course: the      *)
(* coordinator, the user and the machine.                                  *)

\* A step that leaves plan and slots alone, and at most sets the stop flag,
\* leaves every segment and every task on course.
LEMMA PlanAndTasksKept ==
  ASSUME OnCourse, UNCHANGED <<worker, segs, useRanges>>, stop => stop'
  PROVE  /\ \A i \in DOMAIN segs' : SegmentOnCourse(i)'
         /\ \A w \in Workers : TaskOnCourse(w)'
<1>1. ASSUME NEW i \in DOMAIN segs PROVE SegmentOnCourse(i)'
  BY DEF OnCourse, SegmentOnCourse
<1>2. ASSUME NEW w \in Workers PROVE TaskOnCourse(w)'
  BY DEF OnCourse, TaskOnCourse
<1>3. QED
  BY <1>1, <1>2

\* Between two runs there is no plan to be off course.
LEMMA NoPlanOnCourse ==
  ASSUME EngineInv, OnCourse, co \in Alone, UNCHANGED <<worker, mailbox>>,
         co' \in {"idle", "decide", "discardPart", "discardControl", "open",
                  "firstSave", "forget"},
         ~stop', fatal' = "ok", result' # "failed",
         \A i \in DOMAIN segs' :
           /\ ~segs'[i].active
           /\ ~useRanges' => segs'[i].start = 0 /\ segs'[i].done = 0
  PROVE  OnCourse'
<1>1. (\A w \in Workers : worker[w].pc = "free") /\ mailbox = << >>
  BY AloneMeansFree DEF EngineInv, Counted
<1>2. \A w \in Workers : TaskOnCourse(w)'
  BY <1>1 DEF TaskOnCourse
<1>3. \A i \in DOMAIN segs' : SegmentOnCourse(i)'
  BY DEF SegmentOnCourse
<1>4. NoBadNews' /\ OnlyCancelStops'
  BY <1>1 DEF NoBadNews, OnlyCancelStops
<1>5. QED
  BY <1>2, <1>3, <1>4 DEF OnCourse

\* What the steps below use of a state on course.
LEMMA CourseBasics ==
  ASSUME EngineInv, OnCourse
  PROVE  /\ TypeOK /\ segs \in Seq(SegmentRec) /\ inFlight \in Nat
         /\ ~stop => fatal = "ok"
         /\ co \notin {"drain", "save", "verdict"} => ~stop
         /\ co \in NoPlan <=> segs = << >>
         /\ co \in Alone => inFlight = 0
         /\ result # "failed"
<1>1. TypeOK /\ segs \in Seq(SegmentRec) /\ inFlight \in Nat
  BY Basics
<1>2. (co \in NoPlan <=> segs = << >>) /\ (co \in Alone => inFlight = 0)
  BY DEF EngineInv, PlanIsThere, Counted
<1>3. QED
  BY <1>1, <1>2 DEF OnCourse, OnlyCancelStops

\* Starting an attempt, deciding what to do with the files, and laying out the
\* plan keep the download on course: a plan that was resumed uses ranges, a new
\* one has nothing done.
LEMMA StartOnCourse ==
  ASSUME EngineInv, OnCourse, SizeKnown, Total > 0,
         Begin \/ Decide \/ DiscardPart \/ DiscardControl
  PROVE  OnCourse'
<1>1. /\ co \in NoPlan /\ co \in Alone /\ segs = << >> /\ ~stop /\ fatal = "ok"
      /\ UNCHANGED <<worker, mailbox, stop, fatal>>
  BY CourseBasics DEF Begin, Decide, DiscardPart, DiscardControl, NoPlan, Alone,
     coordination
<1>2. /\ co' \in {"decide", "open", "discardPart", "discardControl"}
      /\ result' # "failed"
  BY CourseBasics DEF Begin, Decide, DiscardPart, DiscardControl, environment
<1>3. ASSUME NEW i \in DOMAIN segs'
      PROVE  /\ ~segs'[i].active
             /\ ~useRanges' => segs'[i].start = 0 /\ segs'[i].done = 0
  <2>1. CASE Begin \/ DiscardPart
    BY <2>1, <1>1 DEF Begin, DiscardPart
  <2>2. CASE Decide
    <3>1. CASE CanResume
      BY <2>2, <3>1 DEF Decide, CanResume, FromSnapshots
    <3>2. CASE ~CanResume
      BY <2>2, <3>2 DEF Decide
    <3>3. QED
      BY <3>1, <3>2
  <2>3. CASE DiscardControl
    <3>1. CASE useRanges
      <4>1. segs' = SplitEven(Total, MaxConnections, MinSplit) /\ useRanges'
        BY <2>3, <3>1 DEF DiscardControl
      <4>2. ~segs'[i].active
        BY <4>1 DEF SplitEven, NewSegment
      <4>3. QED
        BY <4>1, <4>2
    <3>2. CASE ~useRanges
      BY <2>3, <3>2 DEF DiscardControl, Single, NewSegment
    <3>3. QED
      BY <3>1, <3>2
  <2>4. QED
    BY <2>1, <2>2, <2>3
<1>4. QED
  BY <1>1, <1>2, <1>3, NoPlanOnCourse

\* The steps that leave plan and slots alone.
LEMMA KeptOnCourse ==
  ASSUME EngineInv, OnCourse, faults' = faults,
         \/ OpenPart \/ FirstSave \/ LoopEnds \/ Receive \/ ChooseCut
         \/ TickCancelled \/ Checkpoint \/ Drain \/ FinalSave \/ Cancel
  PROVE  OnCourse'
<1>1. /\ UNCHANGED <<worker, segs, useRanges, result>>
      /\ stop' = stop \/ stop' = TRUE
  BY DEF OpenPart, FirstSave, LoopEnds, Receive, ChooseCut, TickCancelled,
         Checkpoint, Drain, FinalSave, Cancel, coordination, environment
<1>2. /\ \A i \in DOMAIN segs' : SegmentOnCourse(i)'
      /\ \A w \in Workers : TaskOnCourse(w)'
  BY <1>1, PlanAndTasksKept
<1>3. mailbox # << >> =>
        /\ Head(mailbox) \in {"ok", "cancelled"}
        /\ \A k \in DOMAIN Tail(mailbox) :
             Tail(mailbox)[k] = "ok" \/ (Tail(mailbox)[k] = "cancelled" /\ stop)
  <2>1. mailbox \in Seq(Outcomes)
    BY Basics
  <2>2. QED
    BY <2>1 DEF OnCourse, NoBadNews
<1>4. NoBadNews'
  <2>1. mailbox' = mailbox \/ (mailbox # << >> /\ mailbox' = Tail(mailbox))
    BY DEF OpenPart, FirstSave, LoopEnds, Receive, ChooseCut, TickCancelled,
           Checkpoint, Drain, FinalSave, Cancel
  <2>2. QED
    BY <2>1, <1>1, <1>3 DEF OnCourse, NoBadNews
<1>5. OnlyCancelStops'
  <2>1. OnlyCancelStops /\ stop \in BOOLEAN
    BY Basics DEF OnCourse, TypeOK
  <2>2. CASE Receive
    BY <2>1, <2>2, <1>3 DEF Receive, OnlyCancelStops
  <2>3. CASE TickCancelled
    BY <2>1, <2>3 DEF TickCancelled, OnlyCancelStops
  <2>4. CASE Drain \/ FinalSave
    BY <2>1, <2>4 DEF Drain, FinalSave, OnlyCancelStops, coordination
  <2>5. CASE OpenPart \/ FirstSave \/ LoopEnds \/ ChooseCut \/ Checkpoint
    BY <2>1, <2>5 DEF OpenPart, FirstSave, LoopEnds, ChooseCut, Checkpoint,
                      OnlyCancelStops, coordination
  <2>6. CASE Cancel
    BY <2>1, <2>6 DEF Cancel, OnlyCancelStops, coordination
  <2>7. QED
    BY <2>2, <2>3, <2>4, <2>5, <2>6
<1>6. co' \in {"cut", "split"} => useRanges'
  BY <1>1 DEF OnCourse, OpenPart, FirstSave, LoopEnds, Receive, ChooseCut,
     TickCancelled, Checkpoint, Drain, FinalSave, Cancel
<1>7. QED
  BY <1>1, <1>2, <1>4, <1>5, <1>6 DEF OnCourse

\* Handing segment i of plan to a free slot keeps the download on course: plan
\* is the running plan, with an end that may have moved down, and perhaps i
\* behind it.
LEMMA SpawnOnCourse ==
  ASSUME EngineInv, OnCourse, NEW plan \in Seq(SegmentRec), NEW i \in DOMAIN plan,
         Spawn(i, plan),
         DOMAIN segs \subseteq DOMAIN plan,
         \A j \in DOMAIN plan : j \in DOMAIN segs \/ j = i,
         \A j \in DOMAIN segs :
           /\ plan[j].start = segs[j].start
           /\ plan[j].done = segs[j].done
           /\ plan[j].active = segs[j].active
           /\ plan[j].end <= segs[j].end,
         i \in DOMAIN segs => ~segs[i].active,
         ~useRanges => plan[i].start = 0 /\ plan[i].done = 0,
         ~stop, co' \in {"spawn", "topUp"},
         UNCHANGED <<useRanges, stop, fatal, mailbox, result>>
  PROVE  OnCourse'
<1>1. PICK w \in Workers :
        /\ worker[w].pc = "free"
        /\ worker' = [worker EXCEPT ![w] = [FreeSlot EXCEPT !.pc = "top", !.seg = i]]
        /\ segs' = [plan EXCEPT ![i].active = TRUE]
  BY DEF Spawn
<1>2. /\ worker \in [Workers -> SlotRec]
      /\ segs \in Seq(SegmentRec)
  BY Basics DEF TypeOK
<1>3. /\ worker'[w].pc = "top" /\ worker'[w].seg = i
      /\ \A v \in Workers : v # w => worker'[v] = worker[v]
  BY <1>1, <1>2 DEF FreeSlot
<1>4. /\ DOMAIN segs' = DOMAIN plan
      /\ segs'[i] = [plan[i] EXCEPT !.active = TRUE]
      /\ \A j \in DOMAIN plan : j # i => segs'[j] = plan[j]
  BY <1>1, ReplaceField
<1>5. plan[i] \in SegmentRec
  OBVIOUS
<1>6. segs'[i].active /\ segs'[i].start = plan[i].start /\ segs'[i].done = plan[i].done
  BY <1>4, <1>5 DEF SegmentRec
<1>7. ASSUME NEW j \in DOMAIN segs
      PROVE  IsComplete(segs[j]) => IsComplete(plan[j])
  <2>1. segs[j] \in SegmentRec /\ plan[j] \in SegmentRec
    BY <1>2
  <2>2. /\ segs[j].start \in Nat /\ segs[j].done \in Nat /\ segs[j].end \in Nat
        /\ plan[j].end \in Nat
    BY <2>1 DEF SegmentRec
  <2>3. /\ Cursor(plan[j]) = Cursor(segs[j]) /\ Cursor(segs[j]) \in Nat
        /\ plan[j].end <= segs[j].end
    BY <2>2 DEF Cursor
  <2>4. QED
    BY <2>2, <2>3 DEF IsComplete, Remaining
<1>8. ASSUME NEW v \in Workers PROVE TaskOnCourse(v)'
  <2>1. CASE v = w
    BY <2>1, <1>3, <1>6 DEF TaskOnCourse
  <2>2. CASE v # w /\ Holding(v)
    <3> DEFINE k == worker[v].seg
    <3>1. k \in DOMAIN segs /\ k # i
      BY <2>2 DEF EngineInv, SegmentsAreExclusive
    <3>2. worker'[v] = worker[v] /\ segs'[k] = plan[k] /\ TaskOnCourse(v)
      BY <2>2, <3>1, <1>3, <1>4 DEF OnCourse
    <3>3. segs[k] \in SegmentRec /\ plan[k] \in SegmentRec /\ worker[v] \in SlotRec
      BY <3>1, <1>2
    <3>4. /\ plan[k].end \in Nat /\ segs[k].end \in Nat /\ plan[k].end <= segs[k].end
          /\ plan[k].done = segs[k].done
          /\ worker[v].limit \in Int /\ worker[v].pos \in Nat
      BY <3>1, <3>3 DEF SegmentRec, SlotRec
    <3>5. IsComplete(segs[k]) => IsComplete(plan[k])
      BY <3>1, <1>7
    <3> HIDE DEF k
    <3>6. QED
      BY <3>2, <3>4, <3>5 DEF TaskOnCourse, k
  <2>3. CASE v # w /\ ~Holding(v)
    BY <2>3, <1>3 DEF OnCourse, TaskOnCourse, Holding
  <2>4. QED
    BY <2>1, <2>2, <2>3
<1>9. ASSUME NEW j \in DOMAIN plan PROVE SegmentOnCourse(j)'
  <2>1. CASE j = i
    BY <2>1, <1>6 DEF SegmentOnCourse
  <2>2. CASE j # i
    <3>1. j \in DOMAIN segs /\ segs'[j] = plan[j] /\ SegmentOnCourse(j)
      BY <2>2, <1>4 DEF OnCourse
    <3>2. QED
      BY <3>1, <1>7 DEF SegmentOnCourse
  <2>3. QED
    BY <2>1, <2>2
<1>10. OnlyCancelStops' /\ NoBadNews'
  BY DEF OnCourse, OnlyCancelStops, NoBadNews
<1>11. QED
  BY <1>4, <1>8, <1>9, <1>10 DEF OnCourse

\* Handing out an idle segment keeps the download on course: without ranges an
\* idle segment was never begun.
LEMMA IdleOnCourse ==
  ASSUME EngineInv, OnCourse, co \in {"spawn", "topUp"}, co' = co,
         Idle(segs) # {}, Spawn(FirstIdle(segs), segs),
         UNCHANGED <<useRanges, stop, fatal, mailbox, result>>
  PROVE  OnCourse'
<1> DEFINE i == FirstIdle(segs)
<1>1. segs \in Seq(SegmentRec) /\ ~stop
  BY CourseBasics
<1>2. i \in Idle(segs)
  BY <1>1, FirstIdleIsIdle
<1>3. Spawn(i, segs)
  OBVIOUS
<1> HIDE DEF i
<1>4. i \in DOMAIN segs /\ ~segs[i].active /\ ~IsComplete(segs[i])
  BY <1>2 DEF Idle
<1>5. ~useRanges => segs[i].start = 0 /\ segs[i].done = 0
  BY <1>1, <1>4 DEF OnCourse, SegmentOnCourse
<1>6. ASSUME NEW j \in DOMAIN segs PROVE segs[j].end <= segs[j].end
  <2>1. segs[j] \in SegmentRec
    BY <1>1
  <2>2. segs[j].end \in Nat
    BY <2>1 DEF SegmentRec
  <2>3. QED
    BY <2>2
<1>7. QED
  BY <1>1, <1>3, <1>4, <1>5, <1>6, SpawnOnCourse

\* The first tasks.
LEMMA SpawnFirstOnCourse ==
  ASSUME EngineInv, OnCourse, SpawnFirst
  PROVE  OnCourse'
<1>1. /\ co = "spawn" /\ UNCHANGED <<useRanges, stop, fatal, mailbox, result>>
  BY DEF SpawnFirst, environment
<1>2. CASE inFlight < EffectiveMax /\ Idle(segs) # {}
  BY <1>1, <1>2, IdleOnCourse DEF SpawnFirst
<1>3. CASE ~(inFlight < EffectiveMax /\ Idle(segs) # {})
  <2>1. co' = "loop" /\ UNCHANGED <<segs, worker, inFlight>>
    BY <1>3 DEF SpawnFirst
  <2>2. QED
    BY <1>1, <2>1, PlanAndTasksKept, CourseBasics
       DEF OnCourse, OnlyCancelStops, NoBadNews
<1>4. QED
  BY <1>2, <1>3

\* Leftover work is handed out first, and only a download with ranges has a
\* segment to cut when there is none: the task of the only segment of a
\* download without them is gone when a slot is free, and so is its work.
LEMMA TopUpOnCourse ==
  ASSUME VerdictInv, OnCourse, TopUp
  PROVE  OnCourse'
<1>1. /\ co = "topUp" /\ UNCHANGED <<useRanges, stop, fatal, mailbox, result>>
  BY DEF TopUp, environment
<1>2. inFlight \in Nat /\ EffectiveMax \in Nat /\ MinSplit \in Nat /\ MinSplit > 0
  <2>1. Cardinality(Workers) \in Nat
    BY EngineAssumption, FS_CardinalityType
  <2>2. QED
    BY <2>1, CourseBasics, EngineAssumption DEF VerdictInv, EffectiveMax, MaxConnections
<1>3. CASE inFlight < EffectiveMax /\ Idle(segs) # {}
  BY <1>1, <1>3, IdleOnCourse DEF TopUp, VerdictInv
<1>4. CASE ~(inFlight < EffectiveMax /\ Idle(segs) # {})
  <2>1. /\ UNCHANGED <<segs, worker, inFlight>>
        /\ \/ co' = "loop"
           \/ /\ co' = "cut" /\ inFlight < EffectiveMax /\ Idle(segs) = {}
              /\ Splittable(segs, MinSplit) # {}
    BY <1>4 DEF TopUp
  <2>2. co' = "cut" => useRanges
    <3>1. SUFFICES ASSUME co' = "cut", ~useRanges PROVE FALSE
      OBVIOUS
    <3>2. inFlight = 0
      BY <3>1, <2>1, <1>2 DEF EffectiveMax
    <3>3. PlanComplete(segs)
      BY <3>1, <3>2, <2>1, AloneMeansInactive
    <3>4. Splittable(segs, MinSplit) = {}
      BY <3>3, <1>2 DEF PlanComplete, IsComplete, Splittable
    <3>5. QED
      BY <3>1, <3>4, <2>1
  <2>3. QED
    BY <1>1, <2>1, <2>2, PlanAndTasksKept, CourseBasics
       DEF VerdictInv, OnCourse, OnlyCancelStops, NoBadNews
<1>5. QED
  BY <1>3, <1>4

\* A split happens with ranges only; the victim keeps its task.
LEMMA SplitOnCourse ==
  ASSUME EngineInv, OnCourse, Split
  PROVE  OnCourse'
<1> DEFINE v == cut.victim
           shrunk == ShrinkEnd(segs, v, cut.mid)
           plan == Append(shrunk, NewSegment(cut.mid, cut.end))
           n == Len(segs) + 1
<1>1. /\ co = "split" /\ co' = "topUp" /\ Spawn(n, plan)
      /\ UNCHANGED <<useRanges, stop, fatal, mailbox, result>>
  BY DEF Split, environment
<1>2. segs \in Seq(SegmentRec) /\ ~stop /\ useRanges
  BY <1>1, CourseBasics DEF OnCourse
<1>3. /\ v \in DOMAIN segs /\ cut.end = segs[v].end
      /\ segs[v].start < cut.mid /\ cut.mid <= cut.end
  BY <1>1 DEF EngineInv, CutIsInside
<1>4. segs[v] \in SegmentRec /\ cut.mid \in Int
  BY <1>2, <1>3, Basics DEF TypeOK
<1>5. /\ segs[v].start \in Nat /\ segs[v].end \in Nat
      /\ cut.mid \in Nat /\ cut.mid - 1 \in Nat /\ cut.end \in Nat
  BY <1>3, <1>4 DEF SegmentRec
<1>6. /\ shrunk \in Seq(SegmentRec)
      /\ DOMAIN shrunk = DOMAIN segs
      /\ shrunk[v] = [segs[v] EXCEPT !.end = cut.mid - 1]
      /\ \A j \in DOMAIN segs : j # v => shrunk[j] = segs[j]
  BY <1>2, <1>3, <1>5, ReplaceField DEF ShrinkEnd
<1>7. ASSUME NEW j \in DOMAIN segs
      PROVE  /\ shrunk[j].start = segs[j].start
             /\ shrunk[j].done = segs[j].done
             /\ shrunk[j].active = segs[j].active
             /\ shrunk[j].end <= segs[j].end
  <2>1. CASE j = v
    <3>1. shrunk[v].start = segs[v].start /\ shrunk[v].done = segs[v].done
          /\ shrunk[v].active = segs[v].active /\ shrunk[v].end = cut.mid - 1
      BY <1>4, <1>6 DEF SegmentRec
    <3>2. cut.mid - 1 <= segs[v].end
      BY <1>3, <1>5
    <3>3. QED
      BY <2>1, <3>1, <3>2
  <2>2. CASE j # v
    <3>1. segs[j] \in SegmentRec
      BY <1>2
    <3>2. segs[j].end \in Nat
      BY <3>1 DEF SegmentRec
    <3>3. QED
      BY <2>2, <3>2, <1>6
  <2>3. QED
    BY <2>1, <2>2
<1>8. NewSegment(cut.mid, cut.end) \in SegmentRec
  BY <1>5 DEF NewSegment, SegmentRec
<1> HIDE DEF shrunk
<1>9. /\ plan \in Seq(SegmentRec)
      /\ DOMAIN plan = 1 .. n
      /\ DOMAIN segs = 1 .. n - 1 /\ n \in Nat /\ n >= 1
      /\ \A j \in DOMAIN segs : plan[j] = shrunk[j]
  BY <1>2, <1>6, <1>8
<1>10. /\ DOMAIN segs \subseteq DOMAIN plan
       /\ \A j \in DOMAIN plan : j \in DOMAIN segs \/ j = n
       /\ n \in DOMAIN plan /\ n \notin DOMAIN segs
  BY <1>9
<1>11. \A j \in DOMAIN segs :
         /\ plan[j].start = segs[j].start
         /\ plan[j].done = segs[j].done
         /\ plan[j].active = segs[j].active
         /\ plan[j].end <= segs[j].end
  BY <1>7, <1>9
<1> HIDE DEF plan, n, v
<1>12. QED
  BY <1>1, <1>2, <1>9, <1>10, <1>11, SpawnOnCourse

\* The verdict on a run that was not stopped is a success; a stopped one ends
\* as cancelled.
LEMMA VerdictOnCourse ==
  ASSUME VerdictInv, OnCourse, Verdict
  PROVE  OnCourse'
<1>1. co = "verdict" /\ co \in Alone /\ co \notin NoPlan
      /\ UNCHANGED <<worker, mailbox, inFlight>>
  BY DEF Verdict, Alone, NoPlan
<1>2. CASE stop
  <2>1. fatal = "cancelled"
    BY <1>2 DEF OnCourse, OnlyCancelStops
  <2>2. RunFails("cancelled")
    BY <2>1 DEF Verdict
  <2>3. /\ segs' = << >> /\ stop' = FALSE /\ fatal' = "ok" /\ co' = "idle"
        /\ result' = "cancelled"
    BY <2>2 DEF RunFails
  <2>4. QED
    BY <1>1, <2>3, NoPlanOnCourse DEF VerdictInv
<1>3. CASE ~stop
  <2>1. fatal = "ok" /\ segs # << >>
    BY <1>1, <1>3, CourseBasics DEF VerdictInv
  <2>2. PlanComplete(segs)
    BY <1>1, <2>1 DEF VerdictInv, LeftoversAreKnown
  <2>3. TotalDone(segs) > 0
    BY <2>1, <2>2, CompleteCounts DEF VerdictInv
  <2>4. co' = "finalize" /\ UNCHANGED <<segs, stop, fatal, useRanges, result>>
    BY <2>1, <2>2, <2>3 DEF Verdict
  <2>5. QED
    BY <1>1, <1>3, <2>4, PlanAndTasksKept
       DEF OnCourse, OnlyCancelStops, NoBadNews
<1>4. QED
  BY <1>2, <1>3

\* Delivering the file, a crash, and steps that change nothing.
LEMMA OtherOnCourse ==
  ASSUME EngineInv, OnCourse,
         MoveIntoPlace \/ DeleteControl \/ Crash \/ Rest \/ UNCHANGED vars
  PROVE  OnCourse'
<1>1. CASE MoveIntoPlace
  <2>1. /\ co \in Alone /\ ~stop /\ fatal = "ok"
        /\ co' = "forget" /\ segs' = << >> /\ result' = result
        /\ UNCHANGED <<worker, mailbox, stop, fatal>>
    BY <1>1, CourseBasics DEF MoveIntoPlace, Alone, coordination, environment
  <2>2. QED
    BY <2>1, NoPlanOnCourse, CourseBasics
<1>2. CASE DeleteControl
  <2>1. /\ co \in Alone /\ ~stop /\ fatal = "ok"
        /\ co' = "idle" /\ segs' = << >> /\ result' = "ok"
        /\ UNCHANGED <<worker, mailbox, stop, fatal>>
    BY <1>2, CourseBasics DEF DeleteControl, Alone, NoPlan, coordination
  <2>2. QED
    BY <2>1, NoPlanOnCourse
<1>3. CASE Crash
  <2>1. /\ segs' = << >> /\ mailbox' = << >> /\ co' = "idle" /\ result' = "none"
        /\ stop' = FALSE /\ fatal' = "ok"
        /\ \A w \in Workers : worker'[w] = FreeSlot
    BY <1>3 DEF Crash
  <2>2. \A w \in Workers : TaskOnCourse(w)'
    BY <2>1 DEF TaskOnCourse, FreeSlot
  <2>3. QED
    BY <2>1, <2>2 DEF OnCourse, OnlyCancelStops, NoBadNews
<1>4. CASE Rest \/ UNCHANGED vars
  <2>1. UNCHANGED vars
    BY <1>4 DEF Rest
  <2>2. QED
    BY <2>1, PlanAndTasksKept
       DEF vars, OnCourse, OnlyCancelStops, NoBadNews
<1>5. QED
  BY <1>1, <1>2, <1>3, <1>4

---------------------------------------------------------------------------
(* A download of a known size fails only when server or disk misbehaved.   *)

\* Faults are only ever used up.
LEMMA FaultsFall ==
  ASSUME EngineInv, [Next]_vars
  PROVE  faults' = faults \/ faults' < faults
<1>1. faults \in Nat
  BY Basics
<1>2. ASSUME NEW w \in Workers, Worker(w)
      PROVE  faults' = faults \/ faults' < faults
  <2>1. CASE \/ RespondFull(w) \/ RespondFatal(w) \/ RespondRetryable(w)
             \/ BodyBreaks(w) \/ WriteFails(w)
    <3>1. faults' = faults - 1
      BY <2>1 DEF RespondFull, RespondFatal, RespondRetryable, BodyBreaks, WriteFails
    <3>2. QED
      BY <1>1, <3>1
  <2>2. CASE \/ Top(w) \/ Respond(w) \/ StopSeen(w) \/ BodyEnds(w) \/ Write(w)
             \/ Credit(w) \/ Ended(w) \/ Retry(w) \/ Stopped(w) \/ Send(w)
    BY <2>2 DEF Top, Respond, StopSeen, BodyEnds, Write, Credit, Ended, Retry,
                Stopped, Send
  <2>3. ASSUME NEW n \in 1 .. MaxChunk, Chunk(w, n) PROVE faults' = faults
    BY <2>3 DEF Chunk
  <2>4. QED
    BY <1>2, <2>1, <2>2, <2>3 DEF Worker
<1>3. CASE Coordinator
  <2>1. CASE StartFails \/ FinalSave \/ MoveFails
    BY <1>1, <2>1 DEF StartFails, FinalSave, MoveFails
  <2>2. CASE \/ Decide \/ DiscardPart \/ DiscardControl \/ OpenPart \/ FirstSave
             \/ SpawnFirst \/ LoopEnds \/ Receive \/ TopUp \/ ChooseCut \/ Split
    BY <2>2 DEF Decide, DiscardPart, DiscardControl, OpenPart, FirstSave,
       SpawnFirst, LoopEnds, Receive, TopUp, ChooseCut, Split, environment
  <2>3. CASE TickCancelled \/ Checkpoint \/ Drain \/ MoveIntoPlace \/ DeleteControl
    BY <2>3 DEF TickCancelled, Checkpoint, Drain, MoveIntoPlace, DeleteControl,
       environment
  <2>4. CASE Verdict
    BY <2>4 DEF Verdict
  <2>5. QED
    BY <1>3, <2>1, <2>2, <2>3, <2>4 DEF Coordinator
<1>4. CASE Begin \/ Cancel \/ Crash \/ Rest \/ UNCHANGED vars
  BY <1>4 DEF Begin, Cancel, Crash, Rest, vars
<1>5. QED
  BY <1>2, <1>3, <1>4 DEF Next

\* Until the first fault every step keeps the download on course.
LEMMA StaysOnCourse ==
  ASSUME SizeKnown, Total > 0,
         VerdictInv, OnCourse, [Next]_vars, faults' = faults
  PROVE  OnCourse'
<1>1. EngineInv /\ faults \in Nat
  BY Basics DEF VerdictInv
<1>2. CASE \E w \in Workers : Worker(w)
  BY <1>1, <1>2, WorkerOnCourse
<1>3. CASE Coordinator
  <2>1. ~StartFails /\ ~MoveFails
    BY <1>1 DEF StartFails, MoveFails
  <2>2. QED
    BY <1>1, <1>3, <2>1, StartOnCourse, KeptOnCourse, SpawnFirstOnCourse, TopUpOnCourse,
       SplitOnCourse, VerdictOnCourse, OtherOnCourse DEF Coordinator
<1>4. CASE Begin \/ Cancel \/ Crash \/ Rest \/ UNCHANGED vars
  BY <1>1, <1>4, StartOnCourse, KeptOnCourse, OtherOnCourse
<1>5. QED
  BY <1>2, <1>3, <1>4 DEF Next

\* A download whose size is known and not zero is on course until server or
\* disk misbehave.
THEOREM FaultInvHolds ==
  ASSUME SizeKnown, Total > 0, Workers # {}
  PROVE  Spec => []FaultInv
<1>1. Init => FaultInv
  <2>1. SUFFICES ASSUME Init PROVE FaultInv
    OBVIOUS
  <2>2. VerdictInv
    BY <2>1, InitVerdict
  <2>3. faults = MaxFaults /\ MaxFaults \in Nat
    BY <2>1, EngineAssumption DEF Init
  <2>4. \A w \in Workers : TaskOnCourse(w)
    BY <2>1 DEF Init, FreeSlot, TaskOnCourse
  <2>5. OnlyCancelStops /\ NoBadNews /\ result # "failed"
        /\ co \notin {"cut", "split"}
        /\ \A i \in DOMAIN segs : SegmentOnCourse(i)
    BY <2>1 DEF Init, OnlyCancelStops, NoBadNews
  <2>6. QED
    BY <2>2, <2>3, <2>4, <2>5 DEF FaultInv, OnCourse
<1>2. FaultInv /\ [Next]_vars => FaultInv'
  <2>1. SUFFICES ASSUME FaultInv, [Next]_vars PROVE FaultInv'
    OBVIOUS
  <2>2. VerdictInv /\ VerdictInv'
    BY <2>1, NextVerdict DEF FaultInv
  <2>3. faults \in Nat /\ faults' \in Nat /\ MaxFaults \in Nat /\ faults <= MaxFaults
    BY <2>1, <2>2, EngineAssumption DEF FaultInv, VerdictInv, EngineInv, TypeOK
  <2>4. faults' = faults \/ faults' < faults
    BY <2>1, <2>2, FaultsFall DEF VerdictInv
  <2>5. faults' <= MaxFaults /\ (faults' = MaxFaults => faults' = faults /\ faults = MaxFaults)
    BY <2>3, <2>4
  <2>6. faults' = MaxFaults => OnCourse'
    BY <2>1, <2>2, <2>5, StaysOnCourse DEF FaultInv
  <2>7. QED
    BY <2>2, <2>5, <2>6 DEF FaultInv
<1>3. QED
  BY <1>1, <1>2, PTL DEF Spec

\* A download of a known size fails only when server or disk misbehaved: no
\* interleaving of splits, hand-outs, results, cancels, crashes and resumes
\* makes the retry loop (run_segment, download.rs:654-708) or the verdict
\* (download.rs:495-508) fail it.
THEOREM FailureNeedsAFault ==
  ASSUME SizeKnown, Total > 0, Workers # {}
  PROVE  Spec => []FailsOnlyOnFault
<1>1. FaultInv => FailsOnlyOnFault
  <2>1. SUFFICES ASSUME FaultInv, result = "failed" PROVE faults < MaxFaults
    BY DEF FailsOnlyOnFault
  <2>2. faults \in Nat /\ MaxFaults \in Nat /\ faults <= MaxFaults
    BY <2>1, EngineAssumption DEF FaultInv, VerdictInv, EngineInv, TypeOK
  <2>3. faults # MaxFaults
    BY <2>1 DEF FaultInv, OnCourse
  <2>4. QED
    BY <2>2, <2>3
<1>2. QED
  BY <1>1, FaultInvHolds, PTL
=============================================================================
