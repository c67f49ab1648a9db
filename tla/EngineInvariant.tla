-------------------------- MODULE EngineInvariant --------------------------
(***************************************************************************)
(* The inductive invariant of module Engine: what has to hold between any  *)
(* two steps for the safety properties of the engine to hold after each.   *)
(* TLC checks it on small instances and module EngineProofs proves it.     *)
(***************************************************************************)
EXTENDS Engine

\* Steps of the coordinator at which no task runs.
Alone ==
  {"idle", "decide", "discardPart", "discardControl", "open", "firstSave",
   "save", "verdict", "finalize", "forget"}

\* Steps at which there is no plan.
NoPlan == {"idle", "decide", "discardPart", "discardControl", "forget"}

\* A task is counted until its result is received, and none is left when the
\* coordinator works alone.
Counted ==
  /\ inFlight = Cardinality(Busy) + Len(mailbox)
  /\ co \in Alone => inFlight = 0

\* Ranges are used only when there is something to divide, and there is a plan
\* exactly while a run works on one.
PlanIsThere ==
  /\ useRanges => SizeKnown /\ Total > 0
  /\ co \in NoPlan <=> segs = << >>
  /\ co = "open" => hasPart \/ control = << >>

\* Every segment has a byte, lies in the file when its length is known, and
\* nothing is counted behind the end of the resource.
WithinFile(plan) ==
  \A i \in DOMAIN plan :
    /\ plan[i].start <= plan[i].end
    /\ plan[i].done > 0 => Cursor(plan[i]) <= Total
    /\ SizeKnown /\ Total > 0 => plan[i].end < Total

\* The coordinator splits a segment that is there, at a point inside it.
CutIsInside ==
  /\ co \in {"cut", "split"} => cut.victim \in DOMAIN segs
  /\ co = "split" =>
       /\ cut.end = segs[cut.victim].end
       /\ segs[cut.victim].start < cut.mid
       /\ cut.mid <= cut.end

\* A worker that has asked for bytes asked for those at its cursor, buffers the
\* bytes from there on, and gets each at its own offset.
Aligned(w) ==
  LET slot == worker[w]
  IN  /\ slot.skew = 0
      /\ slot.pc \in {"asked", "stream", "flush", "credit"} =>
           /\ slot.from = Cursor(segs[slot.seg])
           /\ slot.from <= slot.pos
           /\ slot.pos <= Total
      /\ slot.pc = "asked" =>
           /\ slot.pos = slot.from
           /\ IF useRanges THEN slot.limit < Total ELSE slot.pos = 0
      /\ slot.pc \in {"stream", "flush", "credit"} => slot.limit < Total
      /\ slot.pc \in {"flush", "credit"} =>
           slot.after \in {"stream", "ended", "retry", "cancelled"}
      /\ slot.pc = "credit" =>
           \A p \in Byte : slot.from <= p /\ p < slot.pos => part[p] = p

EngineInv ==
  /\ TypeOK
  /\ Counted
  /\ PlanIsThere
  /\ SegmentsAreExclusive
  /\ CutIsInside
  /\ \A w \in Workers : Aligned(w)
  /\ WithinFile(segs) /\ WithinFile(control)
  /\ PlanTilesFile
  /\ DoneIsWritten
  /\ ControlIsWritten
  /\ co = "finalize" => PlanComplete(segs)
  /\ FinishedFileIsWhole
  /\ co = "forget" => final # << >>

---------------------------------------------------------------------------
(* Why a run that ends without an error has all of its segments. *)

\* An active segment has a task.
Held(i) ==
  segs[i].active => \E w \in Workers : Holding(w) /\ worker[w].seg = i

\* A task has reported, or is about to report, something other than success.
BadNews ==
  \/ \E k \in DOMAIN mailbox : mailbox[k] # "ok"
  \/ \E w \in Workers : worker[w].pc = "sending" /\ worker[w].outcome # "ok"

\* The coordinator leaves a segment without a task only when it has no slot for
\* it or will hear of an error.
LeftoversAreKnown ==
  /\ co = "loop" => Idle(segs) = {} \/ inFlight >= EffectiveMax \/ BadNews
  /\ co \in {"cut", "split"} => Idle(segs) = {} \/ BadNews
  /\ co = "drain" => fatal # "ok"
  /\ co \in {"save", "verdict"} /\ fatal = "ok" => PlanComplete(segs)

VerdictInv ==
  /\ EngineInv
  /\ \A i \in DOMAIN segs : Held(i)
  /\ LeftoversAreKnown

---------------------------------------------------------------------------
(* Until server or disk misbehave for the first time, a download of a known *)
(* size cannot fail.  What has to hold until then:                          *)

\* Only a cancel stops a run, and from the stop to the verdict the coordinator
\* only drains and saves.
OnlyCancelStops ==
  /\ fatal \in {"ok", "cancelled"}
  /\ stop <=> fatal = "cancelled"
  /\ stop => co \in {"drain", "save", "verdict"}
  /\ co = "drain" => stop

\* Results are successes, or come from a stopped task.
NoBadNews ==
  \A k \in DOMAIN mailbox : mailbox[k] = "ok" \/ (mailbox[k] = "cancelled" /\ stop)

\* The one segment of a download without ranges begins at the first byte, and
\* while no task has it and nothing stopped the run it is complete or was never
\* begun.
SegmentOnCourse(i) ==
  ~useRanges =>
    /\ segs[i].start = 0
    /\ ~segs[i].active /\ ~IsComplete(segs[i]) /\ ~stop => segs[i].done = 0

\* A task never has to try again: it asks for all of its segment and gets it.
TaskOnCourse(w) ==
  LET slot == worker[w]
      s    == segs[slot.seg]
  IN  /\ slot.pc # "retry"
      /\ slot.pc = "sending" =>
           slot.outcome = "ok" \/ (slot.outcome = "cancelled" /\ stop)
      /\ slot.pc = "top" /\ ~useRanges => s.done = 0
      /\ slot.pc \in {"asked", "stream", "flush", "credit"} => slot.limit >= s.end
      /\ slot.pc \in {"flush", "credit"} =>
           /\ slot.after \in {"stream", "ended", "cancelled"}
           /\ slot.after = "ended" => slot.pos > s.end
           /\ slot.after = "cancelled" => stop
      /\ slot.pc = "ended" => IsComplete(s)
      /\ slot.pc = "cancelled" => stop

OnCourse ==
  /\ OnlyCancelStops
  /\ NoBadNews
  /\ \A i \in DOMAIN segs : SegmentOnCourse(i)
  /\ \A w \in Workers : TaskOnCourse(w)
  /\ co \in {"cut", "split"} => useRanges
  /\ result # "failed"

FaultInv ==
  /\ VerdictInv
  /\ faults <= MaxFaults
  /\ faults = MaxFaults => OnCourse
=============================================================================
