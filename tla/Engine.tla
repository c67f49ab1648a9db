------------------------------- MODULE Engine -------------------------------
(***************************************************************************)
(* One download in the engine (crates/fdm-core/src/download.rs): the       *)
(* coordinator that owns the segment plan, the worker tasks that fetch     *)
(* segments over HTTP into one part file, the control file that makes the  *)
(* download resumable, and the attempts (first start, resume after a pause *)
(* or a failure, restart after a crash) that share the two files.          *)
(*                                                                         *)
(* The bytes of the resource are told apart by their offset: byte p of the *)
(* resource has content p, so part[p] = p says that the right byte is in   *)
(* its place.  The resource does not change while it is downloaded.        *)
(*                                                                         *)
(* faults bounds how often the server or the disk misbehaves, MaxAttempts  *)
(* how often the download is started.                                      *)
(***************************************************************************)
EXTENDS SegmentPlan, FiniteSets

CONSTANTS
  Total,       \* length of the resource in bytes
  SizeKnown,   \* whether the server announces it
  Workers,     \* task slots; as many as max_connections
  MinSplit,    \* min_split_size
  MaxRetries,  \* max_retries
  WriteBuffer, \* write_buffer, in bytes
  MaxChunk,    \* longest piece of a body the network delivers at once
  MaxFaults,   \* bound on misbehaviour of server and disk
  MaxAttempts, \* bound on starts of the download
  MayCancel,   \* whether the user may cancel
  MayCrash     \* whether the process may crash

ASSUME EngineAssumption ==
  /\ Total \in Nat
  /\ SizeKnown \in BOOLEAN
  /\ IsFiniteSet(Workers)
  /\ MinSplit \in Nat \ {0}
  /\ MaxRetries \in Nat
  /\ WriteBuffer \in Nat \ {0}
  /\ MaxChunk \in Nat \ {0}
  /\ MaxFaults \in Nat
  /\ MaxAttempts \in Nat
  /\ MayCancel \in BOOLEAN
  /\ MayCrash \in BOOLEAN

Byte == 0 .. Total - 1

\* Content of a byte of the part file that was never written.
Hole == -1

\* Stands for u64::MAX, an end no body reaches.
OpenEnd == 2 * Total + 1

MaxConnections == Cardinality(Workers)

VARIABLES
  part,      \* content of the part file
  hasPart,   \* whether the part file exists
  control,   \* segments in the control file; << >> when there is none
  final,     \* content of the finished file; << >> until there is one
  segs,      \* the plan of the running attempt
  useRanges, \* whether this run of the attempt asks for ranges
  co,        \* what the coordinator does next
  cut,       \* the split the coordinator is working on
  inFlight,  \* workers the coordinator has yet to hear from
  stop,      \* internal stop flag
  fatal,     \* the error that ends the run
  cancel,    \* the caller's cancel token
  worker,    \* the state of each task slot
  mailbox,   \* results the workers have sent, oldest first
  result,    \* how the last attempt ended
  attempts,  \* attempts so far
  faults     \* faults the environment may still cause

files == <<part, hasPart, control, final>>
coordination == <<cut, inFlight, stop, fatal>>
environment == <<cancel, result, attempts, faults>>
vars == <<part, hasPart, control, final, segs, useRanges, co, cut, inFlight,
          stop, fatal, cancel, worker, mailbox, result, attempts, faults>>

Errors == {"cancelled", "rangeLost", "failed"}

\* What a worker does next.  "asked" waits for the response, "stream" for the
\* body, "flush" and "credit" are the two halves of a flush, and "ended",
\* "retry", "cancelled" are the results of stream_segment.
WorkerSteps ==
  {"free", "top", "asked", "stream", "flush", "credit", "ended", "retry",
   "cancelled", "sending"}

CoordinatorSteps ==
  {"idle", "decide", "discardPart", "discardControl", "open", "firstSave",
   "spawn", "loop", "topUp", "cut", "split", "drain", "save", "verdict",
   "finalize", "forget"}

Outcomes == Errors \cup {"ok"}

\* attempt counts retries, from and pos delimit the buffer, limit is the last
\* byte of the body, skew what separates file and resource offsets, after the
\* step that follows a flush, outcome what is sent.
SlotRec ==
  [pc: WorkerSteps, seg: Nat, attempt: Nat, from: Nat, pos: Nat, limit: Int,
   skew: Int, after: WorkerSteps, outcome: Outcomes]

\* A slot without a task.
FreeSlot ==
  [pc |-> "free", seg |-> 0, attempt |-> 0, from |-> 0, pos |-> 0,
   limit |-> 0, skew |-> 0, after |-> "free", outcome |-> "ok"]

NoCut == [victim |-> 0, mid |-> 0, end |-> 0]

EffectiveMax == IF useRanges THEN MaxConnections ELSE 1

PartDomain(content) == [p \in Byte |-> content]

Init ==
  /\ part = PartDomain(Hole)
  /\ hasPart = FALSE
  /\ control = << >>
  /\ final = << >>
  /\ segs = << >>
  /\ useRanges = FALSE
  /\ co = "idle"
  /\ cut = NoCut
  /\ inFlight = 0
  /\ stop = FALSE
  /\ fatal = "ok"
  /\ cancel = FALSE
  /\ worker = [w \in Workers |-> FreeSlot]
  /\ mailbox = << >>
  /\ result = "none"
  /\ attempts = 0
  /\ faults = MaxFaults

---------------------------------------------------------------------------
(* The coordinator: starting an attempt. *)

\* The probe has answered: ranges can be used when the server proved them (or
\* advertised them) and the size is known and not zero.
Begin ==
  /\ co = "idle"
  /\ result # "ok"
  /\ attempts < MaxAttempts
  /\ attempts' = attempts + 1
  /\ cancel' = FALSE
  /\ result' = "none"
  /\ useRanges' \in IF SizeKnown /\ Total > 0 THEN BOOLEAN ELSE {FALSE}
  /\ co' = "decide"
  /\ UNCHANGED <<files, segs, coordination, worker, mailbox, faults>>

\* Resume only from a control file whose part file exists, and only when the
\* server can serve ranges; otherwise start over.
CanResume == useRanges /\ control # << >> /\ hasPart

Decide ==
  /\ co = "decide"
  /\ IF CanResume
     THEN /\ segs' = FromSnapshots(control)
          /\ co' = "open"
     ELSE /\ segs' = << >>
          /\ co' = "discardPart"
  /\ UNCHANGED <<files, useRanges, coordination, worker, mailbox, environment>>

DiscardPart ==
  /\ co = "discardPart"
  /\ part' = PartDomain(Hole)
  /\ hasPart' = FALSE
  /\ co' = "discardControl"
  /\ UNCHANGED <<control, final, segs, useRanges, coordination, worker,
                 mailbox, environment>>

\* Mutant: the control file survives.
KeepControlFile == control' = control

DeleteControlFile == control' = << >>

DiscardControl ==
  /\ co = "discardControl"
  /\ DeleteControlFile
  /\ segs' = IF useRanges
             THEN SplitEven(Total, MaxConnections, MinSplit)
             ELSE Single(Total, SizeKnown, OpenEnd)
  /\ co' = "open"
  /\ UNCHANGED <<part, hasPart, final, useRanges, coordination, worker,
                 mailbox, environment>>

\* Opening keeps what the part file already holds.
OpenPart ==
  /\ co = "open"
  /\ hasPart' = TRUE
  /\ co' = "firstSave"
  /\ UNCHANGED <<part, control, final, segs, useRanges, coordination, worker,
                 mailbox, environment>>

FirstSave ==
  /\ co = "firstSave"
  /\ control' = Snapshots(segs)
  /\ co' = "spawn"
  /\ UNCHANGED <<part, hasPart, final, segs, useRanges, coordination, worker,
                 mailbox, environment>>

\* Opening the part file or the first save may fail, which ends the attempt.
StartFails ==
  /\ co \in {"open", "firstSave"}
  /\ faults > 0
  /\ faults' = faults - 1
  /\ result' = "failed"
  /\ segs' = << >>
  /\ co' = "idle"
  /\ UNCHANGED <<files, useRanges, coordination, cancel, worker, mailbox,
                 attempts>>

---------------------------------------------------------------------------
(* The coordinator: the pool of workers. *)

\* Hand segment i of plan to a free slot.
Spawn(i, plan) ==
  \E w \in Workers :
    /\ worker[w].pc = "free"
    /\ worker' = [worker EXCEPT ![w] = [FreeSlot EXCEPT !.pc = "top", !.seg = i]]
    /\ segs' = [plan EXCEPT ![i].active = TRUE]
    /\ inFlight' = inFlight + 1

\* The first connections each take an idle segment, a few milliseconds apart.
SpawnFirst ==
  /\ co = "spawn"
  /\ IF inFlight < EffectiveMax /\ Idle(segs) # {}
     THEN Spawn(FirstIdle(segs), segs) /\ co' = co
     ELSE co' = "loop" /\ UNCHANGED <<segs, worker, inFlight>>
  /\ UNCHANGED <<files, useRanges, cut, stop, fatal, mailbox, environment>>

\* Mutant: do not wait for anybody.
NotWaiting == TRUE

NobodyInFlight == inFlight = 0

\* The loop ends when no worker is left to hear from.
LoopEnds ==
  /\ co = "loop"
  /\ NobodyInFlight
  /\ co' = "save"
  /\ UNCHANGED <<files, segs, useRanges, coordination, worker, mailbox,
                 environment>>

\* Mutant: the first error stops every other worker and is then forgotten.
ErrorForgotten ==
  /\ co = "loop"
  /\ mailbox # << >>
  /\ mailbox' = Tail(mailbox)
  /\ inFlight' = inFlight - 1
  /\ IF Head(mailbox) = "ok"
     THEN co' = "topUp" /\ stop' = stop
     ELSE co' = "drain" /\ stop' = TRUE
  /\ UNCHANGED <<files, segs, useRanges, cut, fatal, worker, environment>>

\* The first error stops every other worker.
Receive ==
  /\ co = "loop"
  /\ mailbox # << >>
  /\ mailbox' = Tail(mailbox)
  /\ inFlight' = inFlight - 1
  /\ IF Head(mailbox) = "ok"
     THEN co' = "topUp" /\ UNCHANGED <<stop, fatal>>
     ELSE co' = "drain" /\ stop' = TRUE /\ fatal' = Head(mailbox)
  /\ UNCHANGED <<files, segs, useRanges, cut, worker, environment>>

\* Leftover work first; then look for a segment to cut in two.
TopUp ==
  /\ co = "topUp"
  /\ IF inFlight < EffectiveMax
     THEN IF Idle(segs) # {}
          THEN Spawn(FirstIdle(segs), segs) /\ UNCHANGED <<co, cut>>
          ELSE /\ IF Splittable(segs, MinSplit) # {}
                  THEN /\ cut' = [NoCut EXCEPT !.victim =
                                    LargestSplittable(segs, MinSplit)]
                       /\ co' = "cut"
                  ELSE co' = "loop" /\ cut' = cut
               /\ UNCHANGED <<segs, worker, inFlight>>
     ELSE co' = "loop" /\ UNCHANGED <<cut, segs, worker, inFlight>>
  /\ UNCHANGED <<files, useRanges, stop, fatal, mailbox, environment>>

\* Read the victim's cursor and end and decide where to cut.  The write lock
\* keeps other splits away but not the worker, which moves done on without it.
ChooseCut ==
  /\ co = "cut"
  /\ LET victim == segs[cut.victim]
     IN  IF CutAllowed(Cursor(victim), victim.end, MinSplit)
         THEN /\ cut' = [cut EXCEPT
                           !.mid = CutPoint(Cursor(victim), victim.end),
                           !.end = victim.end]
              /\ co' = "split"
         ELSE cut' = NoCut /\ co' = "loop"
  /\ UNCHANGED <<files, segs, useRanges, inFlight, stop, fatal, worker,
                 mailbox, environment>>

\* Shrink the victim and give the back half to a new worker.
Split ==
  /\ co = "split"
  /\ Spawn(Len(segs) + 1,
           Append(ShrinkEnd(segs, cut.victim, cut.mid),
                  NewSegment(cut.mid, cut.end)))
  /\ cut' = NoCut
  /\ co' = "topUp"
  /\ UNCHANGED <<files, useRanges, stop, fatal, mailbox, environment>>

\* The ticker is only polled when no result is waiting.
TickCancelled ==
  /\ co = "loop"
  /\ inFlight > 0
  /\ mailbox = << >>
  /\ cancel
  /\ fatal' = "cancelled"
  /\ stop' = TRUE
  /\ co' = "drain"
  /\ UNCHANGED <<files, segs, useRanges, cut, inFlight, worker, mailbox,
                 environment>>

\* A tick that is due for a checkpoint replaces the control file atomically;
\* one that is not, and a save that fails, change nothing.
Checkpoint ==
  /\ co = "loop"
  /\ inFlight > 0
  /\ mailbox = << >>
  /\ ~cancel
  /\ control' = Snapshots(segs)
  /\ UNCHANGED <<part, hasPart, final, segs, useRanges, co, coordination,
                 worker, mailbox, environment>>

---------------------------------------------------------------------------
(* The coordinator: ending a run. *)

\* Every worker still running is heard from before the file is touched.
Drain ==
  /\ co = "drain"
  /\ IF NobodyInFlight
     THEN co' = "save" /\ UNCHANGED <<mailbox, inFlight>>
     ELSE /\ mailbox # << >>
          /\ mailbox' = Tail(mailbox)
          /\ inFlight' = inFlight - 1
          /\ co' = co
  /\ UNCHANGED <<files, segs, useRanges, cut, stop, fatal, worker,
                 environment>>

\* The last save is best effort.
FinalSave ==
  /\ co = "save"
  /\ \/ control' = Snapshots(segs) /\ faults' = faults
     \/ faults > 0 /\ faults' = faults - 1 /\ control' = control
  /\ co' = "verdict"
  /\ UNCHANGED <<part, hasPart, final, segs, useRanges, coordination, cancel,
                 worker, mailbox, result, attempts>>

\* Mutant: a lost range is an error like any other.
EveryErrorIsFinal(e) ==
  /\ segs' = << >>
  /\ stop' = FALSE
  /\ fatal' = "ok"
  /\ result' = e
  /\ co' = "idle"
  /\ UNCHANGED useRanges

\* The run is over with error e: the attempt ends, or, when the server went
\* back on ranges, runs again from scratch as one sequential stream.
RunFails(e) ==
  /\ segs' = << >>
  /\ stop' = FALSE
  /\ fatal' = "ok"
  /\ IF e = "rangeLost"
     THEN useRanges' = FALSE /\ co' = "decide" /\ UNCHANGED result
     ELSE result' = e /\ co' = "idle" /\ UNCHANGED useRanges

Verdict ==
  /\ co = "verdict"
  /\ CASE fatal # "ok" -> RunFails(fatal)
       [] fatal = "ok" /\ (~PlanComplete(segs) \/ TotalDone(segs) = 0) ->
            RunFails("failed")
       [] OTHER -> co' = "finalize" /\ UNCHANGED <<segs, stop, fatal, useRanges, result>>
  /\ UNCHANGED <<files, cut, inFlight, cancel, worker, mailbox, attempts, faults>>

\* Sync, find a free name, and move the part file there.
MoveIntoPlace ==
  /\ co = "finalize"
  /\ final' = part
  /\ part' = PartDomain(Hole)
  /\ hasPart' = FALSE
  /\ segs' = << >>
  /\ co' = "forget"
  /\ UNCHANGED <<control, useRanges, coordination, worker, mailbox,
                 environment>>

MoveFails ==
  /\ co = "finalize"
  /\ faults > 0
  /\ faults' = faults - 1
  /\ RunFails("failed")
  /\ UNCHANGED <<files, cut, inFlight, cancel, worker, mailbox, attempts>>

DeleteControl ==
  /\ co = "forget"
  /\ DeleteControlFile
  /\ result' = "ok"
  /\ co' = "idle"
  /\ UNCHANGED <<part, hasPart, final, segs, useRanges, coordination, cancel,
                 worker, mailbox, attempts, faults>>

---------------------------------------------------------------------------
(* The workers. *)

\* The slot of w at another step of run_segment, with no stream open.
SlotAt(w, step) ==
  [FreeSlot EXCEPT !.pc = step, !.seg = worker[w].seg,
                   !.attempt = worker[w].attempt]

\* The slot of w when its flush is done.
Flushed(w) ==
  IF worker[w].after = "stream"
  THEN [worker[w] EXCEPT !.pc = "stream", !.from = worker[w].pos]
  ELSE SlotAt(w, worker[w].after)

Goes(w, slot) == worker' = [worker EXCEPT ![w] = slot]

\* run_segment returned: the segment is given up, the result not yet sent.
Leave(w, outcome) ==
  /\ segs' = [segs EXCEPT ![worker[w].seg].active = FALSE]
  /\ Goes(w, [FreeSlot EXCEPT !.pc = "sending", !.outcome = outcome])

\* One more try, unless the budget of this task is used up.  Without ranges a
\* failed stream starts again from the first byte; one that ended early does
\* not (rewind).
TryAgain(w, rewind) ==
  IF worker[w].attempt < MaxRetries
  THEN /\ Goes(w, [SlotAt(w, "top") EXCEPT !.attempt = @ + 1])
       /\ segs' = IF rewind /\ ~useRanges
                  THEN [segs EXCEPT ![worker[w].seg].done = 0]
                  ELSE segs
  ELSE Leave(w, "failed")

WorkerLeavesAlone ==
  UNCHANGED <<hasPart, control, final, useRanges, co, coordination, cancel,
              result, attempts>>

\* The head of the retry loop, up to the request.
Top(w) ==
  LET s == segs[worker[w].seg]
  IN  /\ worker[w].pc = "top"
      /\ CASE stop -> Leave(w, "cancelled")
           [] ~stop /\ IsComplete(s) -> Leave(w, "ok")
           [] ~stop /\ ~IsComplete(s) /\ ~useRanges /\ Cursor(s) > 0 ->
                Leave(w, "failed")
           [] OTHER ->
                /\ Goes(w, [worker[w] EXCEPT !.pc = "asked", !.from = Cursor(s),
                                              !.pos = Cursor(s), !.limit = s.end])
                /\ UNCHANGED segs
      /\ UNCHANGED <<part, mailbox, faults>>
      /\ WorkerLeavesAlone

\* The server answers as asked: 206 for the range, or the whole resource to a
\* request without one.  Byte pos of the file will get byte pos + skew of the
\* resource; limit is the last byte of the body, in file positions.
Respond(w) ==
  /\ worker[w].pc = "asked"
  /\ Goes(w, IF useRanges
              THEN [worker[w] EXCEPT !.pc = "stream"]
              ELSE [worker[w] EXCEPT !.pc = "stream", !.skew = -worker[w].pos,
                                     !.limit = worker[w].pos + Total - 1])
  /\ UNCHANGED <<part, segs, mailbox, faults>>
  /\ WorkerLeavesAlone

\* Mutant: a 200 to a ranged request is streamed like a 206.
FullBodyTrusted(w) ==
  /\ worker[w].pc = "asked"
  /\ useRanges
  /\ faults > 0
  /\ faults' = faults - 1
  /\ Goes(w, [worker[w] EXCEPT !.pc = "stream", !.skew = -worker[w].pos,
                               !.limit = worker[w].pos + Total - 1])
  /\ UNCHANGED <<part, segs, mailbox>>
  /\ WorkerLeavesAlone

\* The whole resource in answer to a ranged request: never written, because at
\* an offset it would be the wrong bytes.
RespondFull(w) ==
  /\ worker[w].pc = "asked"
  /\ useRanges
  /\ faults > 0
  /\ faults' = faults - 1
  /\ Leave(w, "rangeLost")
  /\ UNCHANGED <<part, mailbox>>
  /\ WorkerLeavesAlone

\* A status not worth a retry (404, 416, ...), or a 206 for another range.
RespondFatal(w) ==
  /\ worker[w].pc = "asked"
  /\ faults > 0
  /\ faults' = faults - 1
  /\ Leave(w, "failed")
  /\ UNCHANGED <<part, mailbox>>
  /\ WorkerLeavesAlone

\* No connection, or a status worth a retry (408, 429, 5xx).
RespondRetryable(w) ==
  /\ worker[w].pc = "asked"
  /\ faults > 0
  /\ faults' = faults - 1
  /\ Goes(w, SlotAt(w, "retry"))
  /\ UNCHANGED <<part, segs, mailbox>>
  /\ WorkerLeavesAlone

\* What a worker does with its buffer when the stream is left or is full.
FlushThen(w, pos, after) ==
  Goes(w, [worker[w] EXCEPT !.pc = "flush", !.pos = pos, !.after = after])

StopSeen(w) ==
  /\ worker[w].pc = "stream"
  /\ stop
  /\ FlushThen(w, worker[w].pos, "cancelled")
  /\ UNCHANGED <<part, segs, mailbox, faults>>
  /\ WorkerLeavesAlone

\* n bytes of the body arrive.  The end is read again, because the segment may
\* have been cut; what lies beyond it is dropped and the stream is left.  (A
\* chunk already awaited may arrive after stop was set.)
Chunk(w, n) ==
  LET pos  == worker[w].pos
      end  == segs[worker[w].seg].end
      room == end - pos + 1
      take == Smaller(n, room)
      next == pos + take
  IN  /\ worker[w].pc = "stream"
      /\ pos + n - 1 <= worker[w].limit
      /\ CASE pos > end -> FlushThen(w, pos, "ended")
           [] pos <= end /\ take < n -> FlushThen(w, next, "ended")
           [] pos <= end /\ take = n /\ next - worker[w].from >= WriteBuffer ->
                FlushThen(w, next, "stream")
           [] OTHER -> Goes(w, [worker[w] EXCEPT !.pos = next])
      /\ UNCHANGED <<part, segs, mailbox, faults>>
      /\ WorkerLeavesAlone

\* The body is over.
BodyEnds(w) ==
  /\ worker[w].pc = "stream"
  /\ worker[w].pos > worker[w].limit
  /\ FlushThen(w, worker[w].pos, "ended")
  /\ UNCHANGED <<part, segs, mailbox, faults>>
  /\ WorkerLeavesAlone

\* The body ends early, or fails: a reset connection, a read timeout.
BodyBreaks(w) ==
  /\ worker[w].pc = "stream"
  /\ faults > 0
  /\ faults' = faults - 1
  /\ \E after \in {"ended", "retry"} : FlushThen(w, worker[w].pos, after)
  /\ UNCHANGED <<part, segs, mailbox>>
  /\ WorkerLeavesAlone

\* Mutant: the write is handed off and its bytes counted without waiting.
WriteNotAwaited(w) ==
  /\ worker[w].pc = "flush"
  /\ Goes(w, IF worker[w].from = worker[w].pos
              THEN Flushed(w)
              ELSE [worker[w] EXCEPT !.pc = "credit"])
  /\ UNCHANGED <<part, segs, mailbox, faults>>
  /\ WorkerLeavesAlone

\* First half of a flush: the buffer is written at from.
Write(w) ==
  LET from == worker[w].from
      pos  == worker[w].pos
      skew == worker[w].skew
  IN  /\ worker[w].pc = "flush"
      /\ IF from = pos
         THEN Goes(w, Flushed(w)) /\ UNCHANGED part
         ELSE /\ part' = [p \in Byte |->
                            IF from <= p /\ p < pos THEN p + skew ELSE part[p]]
              /\ Goes(w, [worker[w] EXCEPT !.pc = "credit"])
      /\ UNCHANGED <<segs, mailbox, faults>>
      /\ WorkerLeavesAlone

\* The disk refuses the write, perhaps after part of it; some of its errors are worth
\* a retry.
WriteFails(w) ==
  LET from == worker[w].from
      pos  == worker[w].pos
      skew == worker[w].skew
  IN  /\ worker[w].pc = "flush"
      /\ from < pos
      /\ faults > 0
      /\ faults' = faults - 1
      /\ \E short \in from .. pos - 1 :
           part' = [p \in Byte |->
                      IF from <= p /\ p < short THEN p + skew ELSE part[p]]
      /\ \/ Leave(w, "failed")
         \/ Goes(w, SlotAt(w, "retry")) /\ UNCHANGED segs
      /\ UNCHANGED mailbox
      /\ WorkerLeavesAlone

\* Second half: only now are the bytes counted.
Credit(w) ==
  /\ worker[w].pc = "credit"
  /\ segs' = [segs EXCEPT ![worker[w].seg].done =
                @ + (worker[w].pos - worker[w].from)]
  /\ Goes(w, Flushed(w))
  /\ UNCHANGED <<part, mailbox, faults>>
  /\ WorkerLeavesAlone

\* stream_segment returned Ok: either the range is complete, or its body ended
\* before it was.
Ended(w) ==
  /\ worker[w].pc = "ended"
  /\ IF IsComplete(segs[worker[w].seg]) THEN Leave(w, "ok") ELSE TryAgain(w, FALSE)
  /\ UNCHANGED <<part, mailbox, faults>>
  /\ WorkerLeavesAlone

\* stream_segment returned an error worth a retry.
Retry(w) ==
  /\ worker[w].pc = "retry"
  /\ TryAgain(w, TRUE)
  /\ UNCHANGED <<part, mailbox, faults>>
  /\ WorkerLeavesAlone

\* Mutant: a stopped worker ends without reporting in.
StoppedSilently(w) ==
  /\ worker[w].pc = "cancelled"
  /\ segs' = [segs EXCEPT ![worker[w].seg].active = FALSE]
  /\ Goes(w, FreeSlot)
  /\ UNCHANGED <<part, mailbox, faults>>
  /\ WorkerLeavesAlone

Stopped(w) ==
  /\ worker[w].pc = "cancelled"
  /\ Leave(w, "cancelled")
  /\ UNCHANGED <<part, mailbox, faults>>
  /\ WorkerLeavesAlone

\* The task reports in and ends.
Send(w) ==
  /\ worker[w].pc = "sending"
  /\ mailbox' = Append(mailbox, worker[w].outcome)
  /\ Goes(w, FreeSlot)
  /\ UNCHANGED <<part, segs, faults>>
  /\ WorkerLeavesAlone

---------------------------------------------------------------------------
(* The user and the machine. *)

Cancel ==
  /\ MayCancel
  /\ co # "idle"
  /\ ~cancel
  /\ cancel' = TRUE
  /\ UNCHANGED <<files, segs, useRanges, co, coordination, worker, mailbox,
                 result, attempts, faults>>

\* The process dies; the files stay as they are.
Crash ==
  /\ MayCrash
  /\ co # "idle"
  /\ co' = "idle"
  /\ segs' = << >>
  /\ useRanges' = FALSE
  /\ cut' = NoCut
  /\ inFlight' = 0
  /\ stop' = FALSE
  /\ fatal' = "ok"
  /\ cancel' = FALSE
  /\ worker' = [w \in Workers |-> FreeSlot]
  /\ mailbox' = << >>
  /\ result' = "none"
  /\ UNCHANGED <<files, attempts, faults>>

\* Nothing is left to do: the file is there, or nobody starts it again.
Rest ==
  /\ co = "idle"
  /\ result = "ok" \/ attempts = MaxAttempts
  /\ UNCHANGED vars

Coordinator ==
  \/ Decide \/ DiscardPart \/ DiscardControl \/ OpenPart \/ FirstSave
  \/ StartFails \/ SpawnFirst \/ LoopEnds \/ Receive \/ TopUp \/ ChooseCut
  \/ Split \/ TickCancelled \/ Checkpoint \/ Drain \/ FinalSave \/ Verdict
  \/ MoveIntoPlace \/ MoveFails \/ DeleteControl

Worker(w) ==
  \/ Top(w) \/ Respond(w) \/ RespondFull(w) \/ RespondFatal(w)
  \/ RespondRetryable(w) \/ StopSeen(w) \/ BodyEnds(w) \/ BodyBreaks(w)
  \/ Write(w) \/ WriteFails(w) \/ Credit(w) \/ Ended(w) \/ Retry(w)
  \/ Stopped(w) \/ Send(w)
  \/ \E n \in 1 .. MaxChunk : Chunk(w, n)

Next ==
  \/ Begin \/ Coordinator \/ Cancel \/ Crash \/ Rest
  \/ \E w \in Workers : Worker(w)

Spec == Init /\ [][Next]_vars

\* The coordinator and the workers are scheduled, ticks come, and a server that
\* was asked answers and goes on with its body; faults, cancels and crashes
\* need not happen.  A checkpoint is not progress and needs no fairness.
WorkerProgress(w) ==
  \/ Top(w) \/ Respond(w) \/ StopSeen(w) \/ BodyEnds(w) \/ Write(w)
  \/ Credit(w) \/ Ended(w) \/ Retry(w) \/ Stopped(w) \/ Send(w)
  \/ \E n \in 1 .. MaxChunk : Chunk(w, n)

CoordinatorProgress ==
  \/ Decide \/ DiscardPart \/ DiscardControl \/ OpenPart \/ FirstSave
  \/ SpawnFirst \/ LoopEnds \/ Receive \/ TopUp \/ ChooseCut \/ Split
  \/ TickCancelled \/ Drain \/ FinalSave \/ Verdict \/ MoveIntoPlace
  \/ DeleteControl

FairSpec ==
  /\ Spec
  /\ WF_vars(Begin)
  /\ WF_vars(CoordinatorProgress)
  /\ \A w \in Workers : WF_vars(WorkerProgress(w))

---------------------------------------------------------------------------
(* Properties. *)

TypeOK ==
  /\ part \in [Byte -> Int]
  /\ hasPart \in BOOLEAN
  /\ control \in Seq(SnapshotRec)
  /\ final = << >> \/ final \in [Byte -> Int]
  /\ segs \in Seq(SegmentRec)
  /\ useRanges \in BOOLEAN
  /\ co \in CoordinatorSteps
  /\ cut \in [victim: Nat, mid: Int, end: Nat]
  /\ inFlight \in Int
  /\ stop \in BOOLEAN
  /\ fatal \in Outcomes
  /\ cancel \in BOOLEAN
  /\ worker \in [Workers -> SlotRec]
  /\ mailbox \in Seq(Outcomes)
  /\ result \in {"none", "ok", "cancelled", "failed"}
  /\ attempts \in Nat
  /\ faults \in Nat

\* Every byte that plan counts as done is in its place in the part file.
Claims(plan) ==
  \A i \in DOMAIN plan : \A p \in Byte :
    plan[i].start <= p /\ p < Cursor(plan[i]) => part[p] = p

\* Each byte of the file belongs to a segment of plan, and to one only.
Tiles(plan) ==
  \A p \in Byte :
    /\ \E i \in DOMAIN plan : plan[i].start <= p /\ p <= plan[i].end
    /\ \A i \in DOMAIN plan : plan[i].start <= p /\ p <= plan[i].end =>
         \A j \in DOMAIN plan : plan[j].start <= p /\ p <= plan[j].end => i = j

Holding(w) == worker[w].pc \notin {"free", "sending"}

Busy == {w \in Workers : worker[w].pc # "free"}

\* The resume guarantee of flush: done never describes a byte that is not on
\* disk, whatever the interleaving of splits, retries and failed writes.
DoneIsWritten == Claims(segs)

\* A crash at any moment leaves a control file that claims no more than the
\* part file beside it holds, so a resume never skips a hole.
ControlIsWritten == hasPart => Claims(control)

\* Splits, resumes and restarts leave no byte without a segment and none with
\* two, in the running plan and in the one the control file keeps.
PlanTilesFile ==
  /\ segs # << >> => Tiles(segs)
  /\ control # << >> => Tiles(control)

\* No two workers ever fetch the same segment, even when a failed worker has
\* given its segment up and its error is still in the mailbox.
SegmentsAreExclusive ==
  /\ \A w \in Workers : Holding(w) =>
       worker[w].seg \in DOMAIN segs /\ segs[worker[w].seg].active
  /\ \A v, w \in Workers :
       Holding(v) /\ Holding(w) /\ worker[v].seg = worker[w].seg => v = w

\* What the progress bar counts never exceeds the file, although a worker may
\* run past the end a split gave its segment.
ProgressWithinFile == SizeKnown => TotalDone(segs) <= Total

\* The coordinator waits for exactly the workers that have yet to report, so
\* nobody writes to the part file once it saves, judges and moves it.
NobodyUnheard ==
  /\ inFlight = Cardinality(Busy) + Len(mailbox)
  /\ co \in {"save", "verdict", "finalize", "forget", "idle"} => Busy = {}

\* A finished file has every byte of the resource in its place.
FinishedFileIsWhole ==
  /\ final # << >> => \A p \in Byte : final[p] = p
  /\ result = "ok" => final # << >>

\* A download nobody cancels fails only when server or disk misbehaved.
FailsOnlyOnFault == result = "failed" => faults < MaxFaults

\* The check of the plan before the file is moved never fires: whatever fails or
\* is stopped, a run that ends without an error has all of its segments, because
\* every task that gives up with less says so before the loop can end.
NothingMissingAtVerdict ==
  co = "verdict" /\ fatal = "ok" => PlanComplete(segs) /\ TotalDone(segs) > 0

\* A split puts the new end at or behind nothing the worker already did: the
\* point read by ChooseCut is still ahead of the cursor when it is used.
SplitStaysAheadOfCursor ==
  [][co = "split" /\ co' = "topUp" =>
       segs'[cut.victim].end + 1 >= Cursor(segs[cut.victim])]_vars

\* Every attempt ends: retries are bounded, every worker reports in, and the
\* coordinator never waits for one that does not.
EveryAttemptEnds == co # "idle" ~> co = "idle"

\* Started downloads end with the file in place unless server or disk misbehave
\* or the user cancels.
Completes == <>(result = "ok" \/ faults < MaxFaults \/ cancel)

\* The engine as a transfer: the bytes it has are those in their place.
Promise == INSTANCE Transfer WITH
             have <- {p \in Byte : part[p] = p},
             delivered <- final # << >>

\* The engine implements Transfer: no step of any worker, of a resume or of a
\* restart spoils a byte that had arrived, and delivery takes all of them.
ImplementsTransfer == Promise!Spec
=============================================================================
