# Verification of Fast Download Manager

TLA+ models of the program, the TLC runs that check them on small instances, and
proofs that TLAPS checks for every value of the constants.  Paths below are
relative to the repository (`src/` in `PROJECT.json`).

    tlasany M.tla                          parse a module
    tlc -workers 2 -config C.cfg M         check a run (PROJECT.json lists them)
    tlapm M.tla                            check the proofs of a module

## 1. The system

| component | state | operations | talks to |
|---|---|---|---|
| **engine** `crates/fdm-core/src/{plan,download,state,writer,probe}.rs` | segment plan (atomics), one part file, one control file, retry counters, cancel token | probe, start or resume, spawn workers, stream, flush, split, checkpoint, drain, finalise | HTTP server, disk; callbacks `on_start`, `on_progress` to the manager |
| **scratch files, names, categories** `fdm-core/src/{scratch,naming,categorize}.rs` | names on disk | part path, unique final name, move across volumes | engine |
| **manager** `crates/fdm-manager/src/manager.rs` | registry under a mutex (rows, generations, intents, tokens, scratch paths), run lock per row, slot semaphore, event broadcast | add, pause, resume, cancel, remove, the task of an attempt, finalise | engine (calls), store (saves), sessions (events) |
| **store** `fdm-manager/src/{store,model}.rs` | list on disk, temp file | load, save (write, rename, fall back to writing in place) | manager |
| **session and client** `crates/fdm-ipc/src/{session,client,wire,frame}.rs` | outbox of 256 messages per client, event forwarder, sequence numbers | hello, requests, subscribe, resync after a lag | manager; app, host and CLI over a named pipe |
| **native host** `crates/fdm-host/src/{main,lock,framing,protocol}.rs` | lock file per URL | ping, download: relay to the app, else download itself | extension (stdio frames), app (pipe), engine |
| **extension** `extension/{background,content}.js` | downloads it has paused or cancelled in the browser | take over, give back after an error or ten seconds | browser, host |
| **desktop app** `apps/desktop/` | windows | one-to-one calls, a loop that opens and closes popups | manager (events, calls) |
| **CLI, installer** | flags, packages | one-to-one calls | engine |

How they interact: the extension hands a URL to the host; the host relays it to
the app over the pipe or runs the engine itself; the app's session turns requests
into manager calls; the manager spawns one task per attempt, which takes the row's
run lock and a slot and calls the engine; the engine reports through callbacks and
its result; the manager writes the end of the attempt into the row, broadcasts it
and saves the list.

Hard behaviours, and what makes each part correct:

- *engine*: workers and coordinator share the plan without locks; splits race the
  victim; retries, lost ranges, failed writes, cancels and crashes hit any step.
  Correct: no byte is counted before it is written, the segments always tile the
  file, a control file never claims what the part file lacks, nobody writes after
  the drain, a delivered file is whole, every attempt ends.
- *manager*: commands return before the engine has stopped, so a row has several
  tasks.  Correct: one engine per part file, only the latest attempt writes the
  row, no active row without a task, partial data deleted on request only, and
  then really deleted.
- *store*: list copied under a lock and written outside it; rename may fail; crash.
  Correct: a start reads the list of the last save that succeeded or a newer one,
  and a removed download stays removed.  (It does as long as saves do not cross.)
- *names and scratch files*: a free name is looked for twice and taken later; the
  name a row remembers is not the one its scratch pair was made from.  Correct: no
  download meets the bytes of another, and no file of the user is touched.
- *session*: replies and events share one outbox; broadcast may overrun; events are
  sent after the lock is dropped, in any order.  Correct: a subscriber's copy of the
  list converges to the manager's, every call is answered, nothing outlives the
  connection.
- *host and extension*: lost replies, timeouts, processes that die, a worker that
  is evicted.  Correct: what was cancelled in the browser is downloaded, handed back
  or shown as failed, and a URL has one writer among the hosts.

`PROJECT.json` lists every hazard at its line, with the properties that cover it
or the reason none does yet.

## 2. Modules

| module | models | theorems |
|---|---|---|
| `SegmentPlan` | `plan.rs`: segments, split arithmetic, choice of work (no state) | |
| `Engine` | `download.rs`, `state.rs`, `writer.rs`: one download over several attempts | |
| `Transfer` | abstract: bytes arrive, may be discarded as a whole, delivered when all there | |
| `EngineInvariant` | the inductive invariants of `Engine` | |
| `SegmentPlanProofs` | | facts about the plan operators, `SplitEvenSound`, `TotalDoneCounts` |
| `EngineProofs` | | invariant, safety properties, refinement of `Transfer` |
| `EngineOutcomeProofs` | | how a run may end: nothing missing, no failure without a fault |
| `Manager` | `manager.rs` and the restart of `store.rs` | |
| `VideoManager` | `download_video_platform`, in place of the engine (extends `Manager`) | |
| `ManagerInvariant` | the inductive invariant of `Manager` | |
| `ManagerProofs` | | invariant, state and step properties of the rows |
| `DurableList` | abstract: what was saved is there after a restart | |
| `Store` | `store.rs` and the saves of `manager.rs`, step by step | |
| `StoreProofs` | | types; removals and ids last and `DurableList` is refined until saves cross or three mishaps meet |
| `Destinations` | `naming.rs`, `scratch.rs`, `finalize`, the paths in the rows | |
| `DestinationsProofs` | | types, files of the user, what may be replaced |
| `Broadcast` | changes and events of `manager.rs`, the broadcast channel | |
| `Session` | `session.rs`, `client.rs`, `wire.rs` (extends `Broadcast`) | |
| `SessionProofs` | | types, and that a subscriber ends up with what the latest events said, or better |
| `Takeover` | `fdm-host`, `lock.rs`, `extension/background.js` | |
| `TakeoverProofs` | | types, one writer per URL, rows that are watched, no loss without a death or an eviction |
| `MC*` | instances of each for TLC | |

How they compose.  `VideoManager` extends `Manager` by the second kind of attempt.
`Engine` implements `Transfer` and `Store` implements `DurableList` by `INSTANCE`.
What `Manager` takes from the engine (it ends, and how it leaves the files) is what
`Engine` shows; what `Destinations` takes from `Manager` (one engine per row) is
`OneEnginePerRow`; what a restart of `Manager` takes from the store (the list is
the current one) is the case of `Store` in which the save had succeeded.  `Session`
extends `Broadcast`, the manager's side of the events; it and `Takeover` meet the rest
only through the list: a call is an event of it, a relay is an addition to it.

Operators marked `Mutant:` are deliberate bugs; no next-state relation uses them.
`PROJECT.json` pairs each property with one that breaks it.

### Engine

`part`, `hasPart`, `control`, `final` are the disk; byte p of the resource is the
number p, so `part[p] = p` says the right byte is in its place and -1 is a hole.
`segs` is the `Plan`; `co` is the coordinator's place in `run`, `worker[w]` the
place of a task in `run_segment`/`stream_segment` with its buffer
(`from .. pos - 1`) and the extent of its body; `mailbox` is the result channel,
`inFlight` the count the coordinator keeps.  Every await and every file operation
is a step of its own: the two deletions of `discard_partial`, opening, the first
save, each chunk, the write and the crediting of a flush, the giving up of a
segment and the sending of the result.  A split is two steps because `add_done`
takes no lock.  A crash (process death) is possible at every step and leaves the
files; the next attempt reads them.

Simplifications.  A snapshot of the plan is one step: `done` only grows while a
worker streams and only the coordinator moves ends, so a snapshot read piece by
piece claims no more than one read at its end.  (The reset to zero of a stream
without ranges only ever meets a plan that is not resumed.)  The resource does not
change.  Deletions do not fail.  Files survive a crash as written (no power
failure).  Retry delays, speed meters, names and categories are left out.

### Manager

`status`, `resumable`, `intent`, `gen`, `known` are a row and its `Runtime`
(`known`: the scratch paths are recorded); `task[t]` is the task of generation t,
whose step is the await it is at; `tripped` the tokens that are set; `scratch` and
`delivered` what is on disk for a row.  Registry operations run under one mutex
and are one step each.  The run lock is held from `check` to `done`, the slot from
`ready` until the engine returns (`drop(permit)`, before `finalise`).  The engine
is reduced to its effect on the files and its result.  `Discard` may leave the
part file when an engine has it open, as Windows does.

Simplifications.  The list on disk is the current one at a restart (module `Store`
says when).  Generations go on counting after a restart so that they stay
unique.  A row keeps its scratch names over its attempts.  The branch of
`finalise_stopped_before_start` that removes a row is in the model and is never
taken: whatever makes the row inactive also overwrites the removal.  Events
are in module `Broadcast`, videos in `VideoManager`; progress numbers are left out.

`LifeCycle` records that a cancelled row may become paused, failed or completed
again: a cancel of a row that is still winding down from a pause does not change
the intent, and `finalise` then settles the pause.

### VideoManager

A row in `Videos` runs an external tool in place of the engine; everything before
and after it is `Manager`.  `tool[t]` is where `download_video_platform` stands for
attempt t: the fast run, the excuse between the two runs (`skip_hls`), the full
run, the file it found.  The token is looked at when the tool prints a line and
when a run has failed, so `ToolStops` and the stop in `ToolRetries` are where a
cancel is heard, and `ToolFinds` may come before it.  `MarkDownloading` writes the
status without asking who owns the row, as the code does.

Simplifications.  The tool's scratch files are one part file that a stop or a
failure may leave; it is never `known`, so a cancel deletes nothing.  Percentages,
formats, the search for the newest file when no path was printed and the arguments
of the tool are left out.  Restarts are those of `Manager` and left out here.

### Store

`mem` is the list under the registry's lock; `pc[s]` is the step of `try_save` a
thread is at, `copy[s]` the list it writes and `hand[s]` the file it has open, which
it follows through a rename by another.  `main` and `tmp` are the two files: missing,
opened and empty, torn, or a whole list.  Opening, writing, renaming, opening in
place, writing in place and deleting the temporary file are a step each, and a
failure or a restart may fall between any two.  `acked`, `dropped` and `used` are
histories of what a successful save has promised.

Any number of threads save whenever they like, as `persist` and `persist_now` do
(manager.rs:628, 986), and nothing bounds the failures.  What holds of that is
stated with two more histories: `crossed` says that a save began while another was
being written, or wrote a list that was copied before one already saved; `streak`
counts the mishaps (a crash, a refused rename, a failed write) since a save last
succeeded.  `Calm` means that no two saves have crossed and there were never three
mishaps in a row.  `RemovedStaysRemoved` and `IdsAreFresh` speak of calm states, and
the promise of `DurableList` is `void` once the calm is over; `RemovedAreGone`, which
says it of every state, is violated by two saves that cross (`MCStore_stale.cfg`).

Simplifications.  A list is its version, its next id and which rows are there and
active.  A write of a shorter list over a longer one by two savers is torn.  A file
that was written is on disk (no power failure).  `retrying` is one refusal.

### Destinations

All rows want one name in one folder, the case in which names meet.  A name is the
sequence of numbers that were added to it.  `path` is the row's path, `part` the
pair of its latest attempt and `known` the pair the row would delete (forgotten by
a restart); `pairs` holds whose bytes are in each scratch pair, `files` who delivered
what under each name.  `Open` is `run` up to `on_start`, `Choose` and `Move` are the
two halves of `finalize`, between which others may take the name.  Whether an
attempt continues a pair that it finds is a choice: the code compares size and
validator, not the URL.  `Stem` is the URL of each row up to its query, which is all
`part_path` looks at (scratch.rs:37): rows with one stem and one name share a pair,
and `Writers` are the engines that have it open at once, whose bytes are mixed in it.
`Remove` deletes the path the row was told, of a queued row too.

Simplifications.  A stop is one step (module `Manager` has the steps).  A scratch
folder is used (`use_temp_dir`), the move is one step, folders are not changed
between attempts.

### Broadcast

`rows` is the manager's list with a version per row (0: not there).  `Change` is an
operation under the registry's lock, `Publish` the sending of its event after the lock
was dropped; in between another thread may change the same row and send first, so
that events of a row can be swapped.  `channel` is the broadcast channel, which
forgets the oldest event when it is full; `latest` is a history of what the event of
each row that was sent last said.  That `rows` and `latest` differ with nothing
pending is the one way a receiver that misses nothing can be wrong.

### Session

`server` is the await `converse` is at, `fwd` the forwarder of the subscription,
`outbox` the bounded queue to the client with the pipe behind it.  `asked`, `view`
and `lost` are the client: it throws events away while it waits for a reply, and
`lost` records whose.  `ListenersEndUpRight` says that when everything is quiet the
client shows each row as it is or as its latest event had it, whatever was overrun,
skipped and delayed; `SubscriberEndsUpRight`, that it shows the row as it is, is what
model.rs:179-180 promises and what two swapped events break (`MCSession_swapped.cfg`).

Simplifications.  One subscription per connection.  The pipe and the outbox are one
queue.  What a call does to the list is another thread's change.

### Takeover

`browser`, `row`, `timer` and `reach` are the extension, `port` and `host` the
processes the browser starts for it, `job`, `who`, `stop` what a host does for a
download (`claimed` before it is in `running` and `returning` after it left, when a
cancel is answered with an error), `lock` the claims, `app` whether the desktop app has
it, `mail` the messages on the port.  The order is the code's: cancel in the browser, collect
headers, post, relay, claim, wait for a slot, run.  A port closes when its host is
gone (rows become detached), a host lives on while it has downloads when its port
is closed, a worker that is evicted loses port, timers and messages and keeps its
rows.  A host that is not installed is one that dies before it does anything.

Simplifications.  A ping and its answer are one step.  A post that throws on a dead
port (`PostThrows`) and the end of that port are one step.  Progress messages do what
`accepted` does to a row and are left out, as are the filters that decide which
downloads are taken and the bypass that keeps a returned download out.  What the
app does with a download it was given is `Manager`.  The URL a video page resolves
to is the URL.

## 3. Runs

| run | question | bounds |
|---|---|---|
| `engine_safety` | do the safety properties of the engine hold under every interleaving of two workers, a split, one fault, a cancel, a crash and a second attempt, is every step one of `Transfer`, and has a run without an error all of its segments? | 4 bytes, floor 1, buffer 1, pieces of 1 or 2, 1 retry, 1 fault, 2 attempts |
| `engine_live` | does every attempt end, and does one without fault or cancel deliver? | 4 bytes, one attempt, no crash |
| `engine_unknown_size` | *violated*: a resource of unknown size fails without any fault | 3 bytes, no fault |
| `manager_safety` | one engine per row, no abandoned row, honest statuses, silent superseded attempts, partial data kept? | 2 rows, 2 slots, 3 attempts, restarts |
| `video` | do a video and a download that compete for one slot settle, and is every stop heard? | 2 rows, 1 slot, 2 attempts |
| `store_safety` | does a start read what was promised, whatever failed, until saves cross or three mishaps meet? | 2 savers, 2 ids, 4 changes |
| `destinations_safety` | do two downloads of one name and one pair leave the user's files alone, and replace a file only in a race? | 2 rows, numbers to 3, twice numbered |
| `destinations_shared` | *violated*: two downloads whose URLs differ in the query only are delivered with bytes of each other | 2 rows |
| `destinations_resume` | *violated*: a row whose name was numbered does not find its partial data | 1 row |
| `session` | does a subscriber converge as far as the order of the events lets it, is every call answered, does the forwarder end? | 2 threads, channel of 1, outbox of 1, 2 rows, 3 changes, 3 calls |
| `takeover` | one writer per URL, nothing lost without a death or eviction, rows watched? | 2 downloads, 2 URLs, 2 hosts, 1 slot, 1 trouble, 1 cancel |
| `takeover_lost` | *violated*: a host that dies before it answers takes the download with it | 1 download, 1 trouble |

Why the bounds are enough.  *Engine*: four bytes with floor one and two connections
start as segments of two bytes; the one that is left when the other is done is cut
while its worker streams, down to single bytes, and a buffer of one against pieces of
up to two bytes gives flushes in the middle and at the end, flushes of more than one
byte, and pieces that run over a cut.  Seven bytes with floor two and a buffer of three
(`MCEngine_inductive.cfg`) give longer segments and one cut.  One fault may be any one (wrong status, full body, broken body, failed
write, failed save, failed move); two attempts give resume after each.  *Manager*:
three attempts let a superseded attempt, its successor and another row overlap;
with two slots the run lock alone must keep two engines of a row apart, and with
one slot (`video`) the queue for it is real.  *Store*: mishaps are not bounded by a
number but by `Calm`, so that a refused rename and a crash in the write in place meet
after any save, the worst the code claims to survive (a third mishap before a save has
succeeded can lose the list, as store.rs:7-9 fears).  The constraint `Calm` of the run
keeps TLC from states beyond it: a calm that is over never returns, the invariants
speak of calm states only and the promise of `DurableList` is void in the others, so
nothing is missed.  *Destinations*: three
names and names of names, two rows to race for them.  *Session*: a channel and a
queue of one are full after one event, so that every overrun and every wait happens;
two threads can change one row and swap its events; three calls allow a greeting, a
subscription and one more.  *Takeover*: two hosts are an orphan and its successor, two
downloads compete for a slot and a claim, and one trouble may fall anywhere.

`MaxFaults`, `MaxAttempts`, `MaxGen`, `MaxChunk`, `MaxChanges`, `MaxTrouble`, `MaxId`,
`MaxNumber`, `MaxDepth`, `MaxCalls`, `MaxCancels` and the sizes of `Ids`, `Hosts`,
`Savers` and `Threads` bound the models; `MaxRetries`, `MinSplit`, `WriteBuffer`,
`Workers`, `MaxActive`, `Capacity`, `Depth` and `Slots` are settings of the program.

Symmetry (worker slots, savers, rows, downloads, hosts, URLs) is used in safety runs only.
Deadlock is checked in every run but those of `Takeover`, which takes over a bounded
number of downloads and may then stop; where nothing is left to do, `Rest` is the
one step (in `Destinations` a restart always is one).

**Fairness.**  `Engine!FairSpec`: tasks that can run are scheduled (Tokio), timer
ticks come, an answered request goes on, the driver of attempts starts one.  That
a server answers at all is an assumption: the client has a connect timeout and a
read timeout on the body, but none on the answer (download.rs:144-154, 766), so a
silent server is outside the liveness claims (it is in the hazards).  Faults,
cancels, crashes and checkpoints get no fairness.  `VideoManager!VideoFairSpec`:
every task step, because run locks and semaphore are fair queues, an engine call
ends (`EveryAttemptEnds`) and the tool prints a line or ends (its connections have
timeouts, its retries a limit).  `Session!FairSpec`: tasks are scheduled and the
client reads while it is there; the two that wait for room in the outbox get strong
fairness, because Tokio's bounded channel serves waiters in turn.  Commands,
changes, calls, disconnects and restarts get none.

## 4. Where the code departs from what it says

The violated runs are findings, in `PROJECT.json` with the text they disagree with.
The following were met while modelling and have a configuration of their own beside
the runs; `tlc -config C.cfg M` shows the trace.

| configuration | property | what happens |
|---|---|---|
| `MCEngine_split_drift` | `SplitStaysAheadOfCursor` | `add_done` takes no lock, so the cursor moves while `split_largest` holds it; plan.rs:293 says "Snapshot under the write lock so the split point can't drift."  Harmless, as `engine_safety` shows. |
| `MCManager_cancelled` | `CancelledLeavesNothing` | a row that is resumed and cancelled before its attempt starts keeps its scratch files; model.rs:39 says "Stopped by the user, scratch files deleted." |
| `MCManager_removed` | `RemovedLeavesNoPair` | after a restart the scratch paths are unknown and a removal deletes nothing; manager.rs:548 says "Partial data is always deleted". |
| `MCManager_removal_follows` | `RemovalFollows` | a pause or cancel overwrites the intent of a removal that waits; manager.rs:552-554 says "the [`Event::Removed`] follows". |
| `MCVideoManager_ghost` | `GhostsWriteNothing` | a superseded task of a video marks the row as downloading (manager.rs:1239-1252); manager.rs:79-80 says it "is a ghost and must write nothing". |
| `MCStore_stale` | `RemovedAreGone` | list copied before a removal (manager.rs:628, 986) and written after the removal was saved: the row is back after a restart; store.rs:139-142 says of another cause "This is how a deleted download used to come back after a restart". |
| `MCSession_swapped` | `SubscriberEndsUpRight` | events are sent after the lock is dropped (manager.rs:366, 500, 539, 760, 788, 944-954), so those of one row may swap and a subscriber that applies them keeps a row that is gone; model.rs:179-180 says "a subscriber that missed a message still ends up correct". |
| `MCDestinations_purge` | `PurgeTakesOwnFile` | a removal that deletes the file deletes what has the name the row was told at its start, by then perhaps another download's file; manager.rs:546 says "`delete_file` also deletes the finished download". |

Read in the code, without a property: the loop that opens and closes popups (main.rs:214)
ends when it lags behind the channel, after which the popup of a row that is removed
may stay (main.rs:219-222: "must not leave a window behind"); the lists that the windows
show do not stay wrong, because they are read again several times a second (app.js:688,
download_dialog.js:529); a frame whose length is out of range is InvalidData
(frame.rs:49-54), which `converse` takes for bad JSON in a good frame
and reads on out of step (session.rs:132, against its comment at 147); nothing "gives
up on" a slow client (session.rs:34), the tasks wait; `set_max_active` changes a
number only.

How far two of the properties go.  `OneEnginePerRow` is about one row: two rows whose
URLs differ in the query only may share a part file (`destinations_shared`).
`OneWriter` is about hosts and full URLs, as lock.rs is: the app takes no claim, and
the key of a part file cuts the query, so that "the same partial file" of lock.rs is
wider than what the claim guards.

## 5. Proofs

**Engine.**  Assumption: `EngineAssumption` only (sizes are naturals, floor, buffer and chunk
at least one, finitely many workers).  Proved for every file size, known or not,
any number of connections, retries, faults, attempts, with cancels and crashes:

- `EngineInvHolds`: `Spec => []EngineInv`, and from it `TypeCorrect`,
  `DoneIsOnDisk`, `ControlIsOnDisk`, `PlanAlwaysTiles`, `NeverTwoWorkers`,
  `NobodyWritesAfterDrain`, `DeliveredFileIsWhole`;
- `EngineImplementsTransfer`: every step of `Engine` is a step or a stutter of
  `Transfer`, with `have` the bytes in place and `delivered` the final file;
- `ProgressStaysWithinFile` (`ProgressWithinFile`), from `TotalDoneCounts`;
- `SplitEvenSound`: a fresh plan tiles the file in pieces that are not empty.

The argument.  That counted bytes are written (`DoneIsWritten`) is kept by `Credit`
only if what was written just before starts at the cursor and each byte went to its
own offset: `Aligned` says so of every step of a worker, and needs in turn that
nobody else moves the cursor (`SegmentsAreExclusive`) and that a stream without
ranges starts at zero.  A split keeps `PlanTilesFile` because the point it cuts at
lies inside the victim (`CutIsInside`), even when the worker has moved past it, and
no worker's `Aligned` depends on the end of its segment.  The control file is a
snapshot of a plan that satisfies the claims, and the part file beside it is
emptied only with `hasPart` cleared, or recreated once the control file is gone
(`PlanIsThere`).  The move is safe because a complete plan that tiles the file
claims every byte, and because `Counted` leaves no worker when the coordinator
works alone.  `EngineProofs` has one lemma per action and invariant part.

The sum of what the segments have done is a fold, of which only one step at a time
can be unfolded.  `TotalDoneCounts` therefore says that it is the number of bytes
that belong to a done part of some segment, when no byte belongs to two, and is
proved by the induction over finite sets written out: of the sets of segments that
contradict it a smallest one is taken away a segment from.  The bytes of a file of
`Total` bytes are at most `Total`.

`EngineOutcomeProofs` is about the end of a run.  `DefensiveCheckNeverFires`
(`NothingMissingAtVerdict`) shows that the check before the move, which
download.rs:499-502 calls defensive, never fires.  `VerdictInv` adds to `EngineInv` that
an active segment has a task (`Held`) and that the coordinator leaves a segment
without a task only when it has no slot for it or will still hear of an error
(`LeftoversAreKnown`).  The hypothesis `Workers # {}` is needed: without a connection
the loop would end before it had begun (the code clamps the number to at least one).

`FailureNeedsAFault` (`FailsOnlyOnFault`) says that no order of splits, hand-outs,
results, cancels, crashes and resumes makes a download fail on its own.  `FaultInv`
adds to `VerdictInv` that as long as no fault has happened the download is `OnCourse`:
no task has to try again, each asks for all of its segment and gets it, only a
cancel stops a run, and a stream without ranges begins at the first byte of a segment
that was never begun.  The hypotheses `SizeKnown` and `Total > 0` mark where the claim
does not hold: `engine_unknown_size` shows the first, and a resource of zero bytes gets
a plan with one segment of one byte (plan.rs:185-192), which no body fills.

**Manager.**  Assumption: `ManagerAssumption` only (at least one slot, a natural
bound on attempts).  Proved for any set of rows, any number of slots and attempts,
with or without restarts:

- `RowsAndTasksAgree`: `Spec => []ManagerInv`, and from it `ListIsTyped`,
  `EnginesAreAlone` (`OneEnginePerRow`), `NoRowIsAbandoned` (`ActiveHasTask`),
  `RowsShowWhatRuns` (`RunningIsShown`) and `CompletedRowsHaveFiles`
  (`CompletedIsDelivered`).

The argument.  An early return of a task may leave its row alone only if the row
does not depend on it: either another generation owns the row, or the row is not
active.  `StoppedIsTripped` says when a row that is owned by a live task can be
inactive (only after that task was asked to stop), and `Generations` that the task
that owns a row works for that row, so that a step of one row cannot take away the
task of another.  `OneEnginePerRow` is not inductive: it follows from
`RunLockIsExclusive`, which also covers the stretch before the engine starts and
the one after it returns; that stretch is also why `FinishedIsDelivered` speaks of
a result that is not written down yet.  Tasks that write nothing, tasks that write
an end and the commands each have one lemma that carries all parts of the
invariant, and the lemma of an action cites it.

The step properties follow from more than `ManagerInv`.  `GhostsAreQuiet`
(`GhostsWriteNothing`): every write of a task is behind `IsCurrent`, and a step of
one task leaves the others where they are.  `RowsFollowTheirLife` (`LifeCycle`)
needs `RowsAwait`: a row whose attempt lives has no result yet, and is not queued
once its engine runs; without it a second end could be written over a first one.  `PartialDataStays`
(`PartialDataIsKept`) goes through the steps: commands and ends delete the files of
the row they write `cancelled` or `gone` into (`DiscardIsOwn`), and an engine that
leaves no control file has returned with that step.

**Store.**  Assumption: `StoreAssumption` only.  For any number of threads that save, any
number of ids and changes, and crashes, refused renames and failed writes at any time:
`ListAndFilesTyped`, `RemovedDownloadsStayRemoved` (`RemovedStaysRemoved`),
`IdsAreNeverReused` (`IdsAreFresh`), and `StoreImplementsDurableList`, every step of `Store`
a step or a stutter of `DurableList`.  What is claimed ends where the code's own
guarantee does: `Calm` is part of the properties, not a hypothesis about the code, and
the two ways out of it are real (`MCStore_stale.cfg`; three mishaps, section 3).

The argument.  `StoreInv` orders the lists that are being saved, which holds however the
saves cross: each is a stage of the one in memory (`ListsInv`).  As long as it is calm
one saver is at work and what it has done so far is in the files (`InStep`), and the bad
luck can be counted: it takes a refused rename to open the list in place, a second mishap
to leave it torn while the temporary file is still whole, and a third to lose that too.
So after up to one mishap what a start would read is `Sound`, no older than what was
promised and no newer than the list in memory, and up to two the list in memory is, since
reading it anew takes a crash.  A save that succeeds starts the count again, because it
leaves the list whole.

**Destinations.**  Assumption: `DestinationsAssumption` only.  For any number of
rows, numbers and depths: `NamesAreTyped`, and `UsersFilesAreSafe`
(`UsersFilesStay`), because a name a file of the user has was never free and so is
in no row and no target (`UsersNamesAreFree`).  `OverwritesAreRaces` (`OverwriteNeedsARace`): a row that is about to move to a name that is taken by now was
recorded when somebody took it (`RaceInv`), because the name was free when it
was chosen and only a move takes one.  All three hold whatever pairs the rows share;
that a file holds its own bytes only (`DeliveredIsOwn`) is not a theorem, since it is
false (`destinations_shared`).

**Session.**  Assumption: `SessionAssumption` only (there is a row, channel and outbox hold at
least one).  For any number of threads, rows, changes and calls, any length of channel and
outbox, and any order in which the threads send their events: `SessionTyped`, and
`ListenersAreRight` (`ListenersEndUpRight`).

The argument.  "When all is quiet" is no invariant to start from; `SessionInv` says what
is owed while it is not quiet.  Of every row, a subscriber is either still to be
`Told` (an operation has changed it and not sent, an event waits in the channel, the
forwarder has lagged and will send the list, or holds a version that is `Right`: that of
the list or that of the latest event), or the last message about it in the outbox is
right, or nothing is in the outbox and the copy is right (`OnItsWay`).  The exception is
the reply to the subscription: it may carry an older version of a row than an event that
went out before it, and then the client has thrown that event away while it waited, which
`lost` records.  That needs to be known of the reply: there is one request at a time with
one reply (`OneReply`), and the forwarder runs from the subscription on
(`OneSubscription`).  The last event of a row in the channel is its latest one
(`EventsTrue`); what makes a version that was right wrong is a change, which is then
pending, or an event that is sent, which is then in the channel.

**Takeover.**  Assumption: `TakeoverAssumption` only.  For any number of downloads,
URLs, hosts, slots, deaths and evictions: `TypesHold`, `OneWriterHolds` and
`StartingIsWatchedHolds`.  The first two follow from `TakeoverInv`: who is queued or
running in a live host, or about to be, or just out of the engine, holds the lock of its
URL (`ClaimsAreHeld`), and no command was ever posted to a host that was not started, so
that a new process cannot wake an old one's downloads (`HostsAreStarted`).  The third is inductive given the types.

`NothingIsLostQuietly` (`LossNeedsTrouble`) needs to know where a download is, and
so what is on its way to the extension.  `LossInv` says that what is said of a
download is so (`MessagesAreTrue`: no completed for a job that was not delivered,
no cancelled for one that was not, nothing for a download that was not taken over)
and that a download that neither a death nor an eviction has met is `Followed`: its
command has not been taken up and its row is at starting or failed, or a host that is up has it
and the port leads to that host, or the app has it, or it is at its end; a job that
failed has a row that failed, or a last message that will make it fail.  The
messages are what makes it hard: a refusal to cancel may come between the failure
and the row, and one message after the last would be enough to undo it.  At the end
`StartingIsWatched` gives the row at starting its timer.

`MCEngine_inductive.cfg` lets TLC look at `EngineInv` and `FaultInv`, on a larger file
than that of `engine_safety`.

Only model-checked.  Every invariant and every action property of the passing runs
is proved.  What is left to TLC is liveness (`EveryAttemptEnds`, `Completes`, `EveryRowSettles`,
 `EveryStopIsHeard`, `EveryCallIsAnswered`, `ForwarderEnds`), which is
out of the prover's reach, and the steps `VideoManager` adds to `Manager`: one of them
breaks `GhostsWriteNothing` (section 4), so the theorems about `Manager` do not carry
over as they are.

## 6. Not modelled

Power failure and page cache; failing deletions; the copy that replaces a move
across volumes; a resource that changes between attempts (probe and validators);
`set_target_dir`, the settings, categories, headers and the progress numbers (no
control depends on them); which downloads the extension takes; presentation, CLI,
installer and scripts (no state of their own); framing and pipe security (I/O;
sessions see an ordered channel that may break).

## 7. What could follow

1. Resource versions in `Engine`: probe, validators, ranges lost because the
   resource changed.
2. A disk that loses what was not synced, under `Engine` and `Store`.
3. `Manager` and `Store` in one module, with the list of a restart chosen among
   those the store allows.
4. `OneEnginePerRow` and `ActiveHasTask` for `VideoManager`, from a `ManagerInv` that
   does without what its `MarkDownloading` breaks.
