# Verification of sz-file-combined-consumer-python

TLA+ models of the driver, TLC runs that check them on small instances, and
theorems the TLA+ proof system checks for every instance. The sources are those
of `src/sz_file_combined_consumer/`; line numbers are per file.

## The system

One process loads a JSONL file into a Senzing engine and processes the engine's
redo queue with one pool of threads. `redo%` selects the topology: 0 is a pure
load (`file_loader.run` without a fetcher), 100 a pure redoer
(`pure_redoer.run`), anything between a load and redo together.

| Part | State | Operations | Talks to |
|---|---|---|---|
| `ClosableQueue` (channels.py) | bounded FIFO, closed flag | `put` (check, then bounded enqueue), `get`, `try_get`, `close` | three channels: `work`, `jobs`, `results` |
| flags and counters (stats.py) | `RUNNING`, `WORKER_FATAL`, totals, `REDO_OUTSTANDING` | `mark_fatal`, `reset_all`, add/sub | every thread |
| worker (worker.py) | what it holds, which sides it has seen CLOSED | the three loops, `_process_load`, `_process_redo`, `_send_fatal` | takes from `work` and `jobs`, calls the engine, puts on `results` |
| redo fetcher (redo.py) | where it is | probe, drain-tail re-probe, exit condition, hand-over | engine to `jobs`; reads `REDO_OUTSTANDING`, `load_complete()` |
| reader (file_loader.py) | line number, read error | skip, blank, reject, dispatch, close | file to `work`; shares `LoadState` |
| result consumer (file_loader.py) | the outcome in hand | count, print, write rejects, complete | `results` to `LoadState` |
| `LoadState`, `ResumeTracker`, `RejectSink` | watermark, lines done out of order, bodies in flight, reject file | `complete`, `reject`, `load_complete` | reader, consumer, fetcher |
| main thread (file_loader.py, pure_redoer.py, runtime.py) | progress of the shutdown | monitor, close and join in order, `_finish`, teardown, exit | all of them |
| signal handler (runtime.py) | - | clears `RUNNING` | main thread |
| config reload (config_reload.py) | adopted default, poll throttle, reinit lock | `log_startup_config`, `poll`, `reinit_if_stale` | workers |
| monitor, floor guard (monitor.py, stats.py) | previous rates, consecutive intervals | `tick`, `observe` | main thread |
| configuration (config.py) | - | validation, size of the redo class | start-up |
| process (runtime.py) | exit code, environment; between processes the repository, the reject file and the printed `--skip-lines` | `main`, `install_shutdown_handler`, `teardown`, `entry` | all of it |

What is hard in it: outcomes arrive out of order while a contiguous watermark
is reported; a body leaves `in_flight` before its outcome is settled; the exit
condition is three reads at three instants; `put` is not atomic against
`close`; threads wait on one another through three bounded channels; failures
in any thread must reach one exit code; joins are bounded, so threads may still
be running when the totals are printed and the engine is destroyed. The
hazards, each at its line, are listed in `PROJECT.json`.

What makes it correct, part by part: a channel neither loses nor reorders what
was put before it closed, and what a dequeue answers was so (ClosableQueue); the
redo count is exact (Worker, RedoFetcher); the fetcher stops only when nothing
is left in flight (RedoFetcher); the watermark covers only settled lines,
`in_flight` is exactly the lines being worked on, no line meets two fates, the
totals are true (LoadState, Reader, ResultConsumer); exit 0 means the file is
loaded, a failure is never exit 0, the engine is not destroyed under a worker,
the process terminates (FileLoader); a stop loses at most one redo record
(PureRedoer); the engine ends up with the registered configuration, with one
reinitialize per change (ConfigReload); a load that is killed and resumed skips
nothing, and whatever is configured, the pool that gets to run is one the modes
are written for (Runtime, Config).

## Modules

    Channels -- ClosableQueue
        \
    Stats  Engine                      LoadContract  Config   ConfigReload
        \  /                                |    \     /
       Worker                               |    Runtime -- MCRuntime
          |                                 |
     RedoFetcher -- PureRedoer -- MCPureRedoer
       /      \                             |
    Reader  ResultConsumer  (both also extend LoadState)
       \      /                             |
      FileLoader -- FileLoaderProperties ---+-- MCFileLoader

| Module | Models | How |
|---|---|---|
| `Channels` | channels.py | A channel is a record of its items and its closed flag. A dequeue is one step; `put` is left to its callers as two (see below). |
| `ClosableQueue` | channels.py 19-81 | The same queue with a step for every read of a flag and every use of `queue.Queue`, between producers that give up at shutdown, producers that never do, and consumers of both kinds. What the other modules take for one step rests on its `TrueAnswers`. |
| `Stats` | stats.py 71-131 | One variable per flag or counter that decides control flow, the exit code or a printed total. `Faults` names what may fail around the driver. |
| `Engine` | the Senzing engine (external) | The set of loaded lines and the number of redo records waiting. A successful add or redo may leave one more redo record (a cascade). |
| `Worker` | worker.py 116-303 | One program counter per worker. `LoopTop`, `GetLoad`, `GetNothing` are `_pure_load_loop`; `DrainRedo`, `DrainMiss`, `DrainEnd` are `_pure_redo_loop`; `PollHit`, `PollMiss` are `_mixed_loop`; `AddRecord` is the engine call of `_process_load`, `ProcessRedo` and `SettleRedo` are `_process_redo`; `WorkerFatal`, `PutCheck`, `PutEnqueue`, `PutFull` report. |
| `RedoFetcher` | redo.py | One step per read of shared state between two probes. |
| `LoadState` | file_loader.py 73-157 | The tracker, the sink and the bodies in flight, and `LoadState.lock`; what is done under the lock is one operator taken while it is free, `reject` counts before it takes the lock, and a write that takes long keeps it (`lock`), so that whoever needs it next has no step. |
| `Reader` | file_loader.py 160-216 | `read_and_feed` with `_feed_line`. The file is any function from line numbers to kinds of line. |
| `ResultConsumer` | file_loader.py 219-267 | `result_consumer` with `_settle`, in the steps between which other threads may look; a slow write keeps the lock. |
| `FileLoader` | file_loader.py 270-430, runtime.py | The main thread from the monitor loop, with the calls of its ticks, to the exit, the signal, and all threads together. |
| `FileLoaderProperties` | | What a file load promises, how its state maps to `LoadContract`, and what the repository says of it. |
| `PureRedoer` | pure_redoer.py, runtime.py | The other topology, with its properties: the tick's and the last `get_stats` are calls of the main thread that may not return. |
| `LoadContract` | `file_loader.run` as its caller sees it | No threads and no channels: each line past the skipped ones meets one fate, once; the watermark only moves over lines that have met theirs. |
| `ConfigReload` | config_reload.py, its callers in worker.py | `poll`, `reinit_if_stale` and `_reconcile` in the steps between the unlocked reads, the lock and the two assignments under it; `log_startup_config` as the seed. |
| `Config` | config.py 186-256 | What the command line refuses, what `resolve` refuses, and the size of the redo class with Python's rounding. |
| `Runtime` | runtime.py, `RejectSink` | `main` from its arguments to the exit code, any number of times over the same input, repository and reject file, each time with what was printed last. The load in the middle is `LoadContract`; workers, reader or consumer that outlive their joins (`clean`, `late`) go on with it until the process ends, and a write or a call of the main thread may never return (`hung`). |
| `MC...` | | Symmetry sets, and the inputs of `Runtime`. |
| `WorkerProofs`, `FileLoaderProofs`, `WatermarkProofs`, `ContractProofs`, `PureRedoerProofs`, `QueueProofs`, `ReloadProofs`, `RuntimeProofs` | | Theorems. |

Definitions marked "Faulty" in a comment are plausible mistakes next to the
definition they would replace. No action uses them: substituting one must break
the property it is listed with in `PROJECT.json`, which shows that the property
depends on that line of code.

### How the parts compose

`FileLoader` puts reader, workers, fetcher, consumer and main thread together
around the three channels, with every step of every thread interleaved.
`ImplementsContract` is its refinement: `fate[l]` is read off the engine, the
reject file and the log, `watermark` off the tracker, and each step of each
thread is a step of `LoadContract` or changes neither. `Runtime` then restarts
`LoadContract`, not the threads, so that kills, short writes and restarts
multiply with a few variables only; what it says of a resumed load holds of the
detailed one through the refinement. `ClosableQueue` justifies the channels as
values in the same way, and `ConfigReload` is the inside of what `Worker` takes
for one engine call.

### Choices of the model

* **Dequeue as one step, put as two.** `closed` never goes back, so every
  outcome of `try_get` and `get` is the outcome of a single instant of the
  call. `put` reads `closed` (and `keep_going`) and only then waits for room,
  and another thread's `close` may fall in between: each caller has a "put" and
  an "enq" state.
* **A line's body is the line.** What the reader parses and what the engine
  says of a record are choices: a line is blank, bad (`ParseError`), poison
  (another exception out of the parser) or a record; a call loads, rejects or
  fails fatally. The retry after a config reload is inside the call.
* **Redo records are counted**, since the driver never compares them.
* **Time.** Sleeps and timeouts that only delay are not steps. A bounded join
  ends when its threads have ended, or when its grace is over; the latter only
  when a thread is in a call that may outlast the grace (`slowEngine`: an engine
  call; `slowIO`: reading the input, writing the reject file or a result).
* **The lock.** `LoadState.lock` is held for one step, unless the write under it
  takes long (`ReaderWriteHangs`, `SettleWriteHangs`); then `lock` names its owner
  from one step to the next. A thread that needs the lock meanwhile has no step: it
  is seen where it was before the one that takes it, which is where it waits.
* **The main thread's own calls.** A tick of the monitor takes the lock
  (`load_complete`), asks the engine for its statistics and prints; `_finish` prints,
  and the pure redoer asks the engine once more. When calls may be slow
  (`slowEngine`, `slowIO`) each of these is a step or a place of its own (`TickDue`,
  `TickAsks`, `TickEnds`, `PrintTotals`, `Finish`), and `SlowMain`, `MainInCall` say
  when the main thread is inside one; when they never are, a tick changes nothing and
  is left out. The prints of redo results by the workers, and of the totals by the pure
  redoer's main thread, may fail but are taken to return.
* **The totals and the exit code** are read in one step of the main thread: by
  then every thread that could change them has been joined or is in a slow
  call, whose late effect is then covered by either order of the two steps. A
  reject is two steps: it counts the line, then takes the lock and writes it, and
  `_finish` may run between the two.
* **mark_fatal** sets its flags in one step: `WORKER_FATAL` is read only after
  the joins. `REDO_OUTSTANDING.add()` is one step with the fetch before it, as
  only the fetcher itself acts on the count.
* **Exit** stops every other thread where it is: they are daemon threads.
* **The reject file** is two sets of lines in `FileLoader`: those found whole in
  it, and those counted as written that a short write tore or that were appended
  to a torn one (`damaged`). In `Runtime` it is a set with a torn tail, where the
  next write lands on it.
* **The end of a process in `Runtime`.** Killed or not, it ends where its threads are.
  If the reader or the consumer is still alive, after a clean exit too, for
  `workers_clean` says nothing of them (file_loader.py:364-371), the write it is in
  may leave part of its line; `cuts` counts such ends. What a `destroy` does to the
  environment is not kept. A signal before `reset_all` is undone by it and one after
  the run finds nobody who asks, so `heard` is about those in between.
* **Starting states**: after `reset_all`, with an empty repository of records,
  any redo left by earlier runs, and any input file of `Files`; in `Runtime`, any arguments
  and environment of `MCInputs` and nothing in the repository.

## Runs

| Run | Instance | Shows |
|---|---|---|
| `load` | 2 load workers, 3 lines of all four kinds; engine, parser, reject file may fail; writes may be short too; signal at any time | `WatermarkSafe`, `StopRepeatsNothing`; `InFlightExact`, `ExitZeroMeansLoaded`, `TotalsTrue`, `FailureIsReported`; `ImplementsContract` |
| `load_hang` | 1 worker, 5 lines, 1 skipped, of the others none or the second unparseable; engine and I/O calls outlast joins or never return | `DecidedOnce` although outcomes are lost; `NoDestroyUnderWorker`; `WhoDoesNotWaitMoves`: the list of what a thread can wait for, the lock included, is complete; `ShutdownCompletes` unless a write keeps the lock or a call of the main thread never returns |
| `mixed` | one worker of each class, 1 line, up to 2 redo records | `TypeOK`, `DrainedIsQuiet`, `RedoAtStake`, `NoDeadlock`; `Terminates` under fair scheduling |
| `mixed_faults` | the same with 1 redo record; every engine call, the fetch, the reading, the printing may fail | `OutstandingExact`, `FailureIsReported` |
| `redoer` | 2 workers, up to 5 redo records, every failure, engine calls that never return, the main thread's too | `OutstandingExact`, `ShutdownLosesAtMostOne`, `StopsOnlyWhenTold`, `NoDestroyUnderCall`, `SleepsOnlyWhenServed`; `ShutdownCompletes`, `RedoServed` |
| `reload` | 2 threads, 2 configurations, 3 changes of the default, before the seed or after, 1 configuration call that raises | `AdoptedIsRunning`, `NoReinitStorm`, `EngineMovesForward`; `Converges`, `ItemsFinish` |
| `channel` | 2 producers of 2 puts each, one that gives up and one that never does; a `try_get` and a `get` consumer; room for 1 item; closed and shut down at any time | `TrueAnswers`, `AtMostOneLate`; `PutReleased`, `ConsumersEnd` |
| `runtime` | 3 processes over 2 lines, blank or a record, killed at any instant, 1 short write, threads that outlive their joins, a write or a call of the main thread that never returns, signals; for a blank file, every pool from -1 to 3 threads and redo percentages on both sides of each bound | `ResumeSafe`, `TearsCostLittle`, `TopologySound`; `ResumeMovesForward`, `SignalHonoured`, `ExitsInTime` |

Each property is stated, with the code it is about, where it is defined.

**Bounds.** `LastLine`, `MaxRedo` and the number of workers. Three lines on two
workers give every order of two outcomes around a third line, and a channel at
its limit (`work` holds as many lines as there are workers). With one worker
`results` holds two outcomes, so the four lines `load_hang` dispatches fill it
behind a stalled consumer and leave an outcome in a worker that cannot put it; with
the unparseable line, the reader's own write may be the one that hangs. That run has
no fetcher: its wait for the lock, in `load_complete`, is in the theorem
`NeverDeadlocked` only. Two workers have a jobs channel of four, so the fifth redo
record of `redoer` leaves the fetcher waiting for room. `mixed` fills no channel:
there `NeverDeadlocked` gives the general case, and `load_hang` and `redoer` the full
ones. One line and two
redo records are enough for a cascade in the drain tail and for one after it.
One signal is enough: a second clears a flag that is clear. Three changes of the
default let it go there and back, behind a seed that went wrong too; with two threads one can be anywhere in the
reload while the other goes through all of it. Two producers fill a queue of one
from both sides of the close, and each puts once before and once after it. Three
processes give a run after one that was killed and one that failed, with a tail
torn by either. A line of the contract is blank or a record: an unparseable one does
nothing that a rejected record cannot, and a poison one nothing at all. The theorems below hold without the bounds.

**Fairness.** `FairSpec` of a load: each thread that can take a step is
eventually scheduled (threads of one process under a preemptive scheduler,
engine calls release the interpreter lock) and calls return. Nothing is assumed
of the signal, of failures, or of which alternative a thread takes. `Terminates`
needs the engine to run out of redo, which `MaxRedo` says; a real one may not.
`HangSpec` is weaker: a thread inside a call named by `Faults` is promised no
step at all, the main thread in a call of its own included, and only the grace of
the joins helps; one that needs the lock such a thread keeps has no step to take.
`RedoServed` is stated for
runs in which no engine call hangs for good. In `ConfigReload` every thread is
scheduled, calls return, and the poll interval passes; in `ClosableQueue` every
producer and consumer is scheduled, while closing and shutting down are promised
to nobody. In `Runtime` the main thread is scheduled, but has no step in `_finish` while a write
keeps the lock, nor in a call of its own that never returns; a load ends only when
`RUNNING` is cleared and nothing hangs, and `destroy` may never return, which is what
the bounded teardown is for. `channel` and `runtime` do not check for deadlock: a queue whose
producers have used up their puts, and an operator who starts no further
process, do stop.

### What the repository says and the code does not quite do

Each is a run that ends in a counterexample; `PROJECT.json` quotes the lines.

| Run | |
|---|---|
| `doc_drained` | Exit 0 does not mean the redo queue is drained: the empty probe precedes the reads of `REDO_OUTSTANDING` and `load_complete()`, and the last add may cascade in between. `DrainedIsQuiet` is what does hold. |
| `doc_destroy` | The fetcher's join is ignored, so the engine may be destroyed under `get_redo_record`. `NoDestroyUnderWorker` is what does hold, and in the pure redoer `NoDestroyUnderCall`. |
| `doc_partial` | The consumer's join is ignored, so a load whose standard output stalls under a WithInfo result may exit 0 with a reject behind it neither written nor counted. The watermark printed is still safe. |
| `doc_reload` | A call that failed under the old configuration is not retried when a peer has adopted the new one before the failed thread looks. |

Others need no run, because the line itself shows them:

* monitor.py:51 passes the backlog as `None` on every tick, so the redo-floor
  guard (stats.py:249-257, README.md:127-128) can never trip.
* record.py:73: `json.loads` raises `RecursionError` for a deeply nested line;
  this is not the `ParseError` that record.py:42-43 promises, so one line ends the
  load instead of being rejected ("poison" in the models; the exit code says so).
* file_loader.py:108: `write` may write less than the line, and it counts as
  written (README.md:87 says rejects are kept verbatim). A torn tail is not
  repaired when a resumed load opens the file again, so the next line is appended
  to it: `TearsCostLittle` bounds the damage.
* README.md:137-139 has a resume re-add "at most a few in-flight lines". Lines
  completed out of order ahead of the watermark are re-added too, and there may be
  as many of them as were read while one call was slow. That takes a fatal error, a
  call that outlasts a join, or a kill: a stop without a failure, for a signal or at
  end of file, leaves no record the pool loaded or rejected ahead of the watermark
  (`StopRepeatsNothing`).
* argparse checks no default, so integers from the environment are not
  validated: with a negative `SENZING_SKIP_LINES` the tracker starts before line
  1, its watermark never moves, and what is printed is a value the command line
  refuses (exit 2); a record length of 0 is accepted from the environment and
  refused on the command line with 2, not the 1 of README.md:97-99.
* runtime.py:131: a signal between `install_shutdown_handler` and `reset_all` is
  undone by the latter. `SignalHonoured` is stated for those after it.
* file_loader.py:138 holds the lock over the write, and the statistics tick and
  `_finish` take it with no grace: a write that hangs hangs the process, however
  it was told to stop. `WhoDoesNotWaitMoves` lists who waits for it;
  `ShutdownCompletes`, `NoDeadlock`, `SignalHonoured` and `ExitsInTime` except just
  that case.
* monitor.py:41: the tick calls `engine.get_stats()` on the main thread, and
  pure_redoer.py:94 does so again after the bounded join. Nothing bounds either: while
  one does not return no join starts and the process does not exit, signalled or not,
  although the workers' own calls are provided for. `ShutdownCompletes` excepts it, and
  a print of the main thread that blocks.
* file_loader.py:368-371 drops the result of the reader's and the consumer's joins,
  so a process that exits 0 may cut one of them off in the middle of a write to the
  reject file, as a kill does. `TearsCostLittle` counts such an end.
* worker.py:172: a mixed worker leaves at a stop with redo records queued that are
  no longer in the repository, and the fetcher drops one more; the pure redoer
  drains them (worker.py:161). `RedoAtStake` bounds what is lost by |B| + 3 and
  what is in the engine.
* config_reload.py:95-98 takes the first observation for what the engine runs. After
  a start-up seed that failed, a thread may write there what it read before a peer
  adopted it, reloaded and adopted the next default; if the default then comes back,
  the engine keeps running the other one until the default changes again.
* config_reload.py:129 adopts what is registered after the engine was created. A
  default registered in between is not loaded until it changes again; from then on
  all is right (`Founded`).
* file_loader.py:371 closes the reject file without its lock, possibly under a
  thread that missed its join.

## Proofs

| Theorem | Says |
|---|---|
| `FileLoaderProofs!TypeCorrect` | `Spec => []TypeOK` |
| `FileLoaderProofs!OutstandingIsExact` | `Spec => []OutstandingExact` |
| `FileLoaderProofs!NeverDestroyedUnderWorker` | `Spec => []NoDestroyUnderWorker`, calls that never return included |
| `FileLoaderProofs!FailuresAreReported` | `Spec => []FailureIsReported`, if no call outlasts the grace |
| `FileLoaderProofs!CompleteAdvances` | `ResumeTracker.complete` never moves the watermark back, moves it over completed lines only, and keeps of the others only lines that are done |
| `WatermarkProofs!LinesAreTraced`, `WatermarkIsSafe` | `Spec => []LinesTraced` and so `Spec => []WatermarkSafe`, whatever fails or hangs |
| `WatermarkProofs!InFlightIsExact` | `Spec => []InFlightExact` |
| `WatermarkProofs!DrainedPoolIsQuiet` | `Spec => []DrainedIsQuiet` |
| `ContractProofs!NoLineDecidedTwice` | `Spec => []DecidedOnce` |
| `ContractProofs!LoadImplementsContract` | `Spec => ImplementsContract`: the refinement, whatever fails or hangs |
| `ContractProofs!ZeroMeansLoaded` | `Spec => []ExitZeroMeansLoaded`, if no file or terminal I/O outlasts the grace; engine calls may |
| `ContractProofs!NeverDeadlocked` | `Spec => []NoDeadlock` |
| `ContractProofs!RedoAtStakeIsBounded` | `Spec => []RedoAtStake` |
| `ContractProofs!NothingRepeated` | `Spec => []StopRepeatsNothing` |
| `ContractProofs!TotalsAreTrue` | `Spec => []TotalsTrue`, if no call outlasts the grace and printing a result does not fail |
| `PureRedoerProofs!TypeCorrect`, `OutstandingIsExact` | the same two facts of the pure redoer, with `results` never used |
| `PureRedoerProofs!NeverDestroyedUnderCall` | `Spec => []NoDestroyUnderCall`: here the fetcher's calls count too |
| `PureRedoerProofs!StopsWhenTold` | `Spec => []StopsOnlyWhenTold` |
| `PureRedoerProofs!StopLosesAtMostOne` | `Spec => []ShutdownLosesAtMostOne` |
| `PureRedoerProofs!NeverSleepsOnRedo` | `Spec => []SleepsOnlyWhenServed` |
| `QueueProofs!AnswersAreTrue`, `CloseKeepsOut` | `Spec => []TrueAnswers` and `Spec => []AtMostOneLate` |
| `ReloadProofs!AdoptedRuns`, `OneReinitPerChange` | `Spec => []AdoptedIsRunning` and `Spec => []NoReinitStorm` |
| `ReloadProofs!ReloadsForward` | `Spec => EngineMovesForward`, of every step |
| `RuntimeProofs!ResumeIsSafe`, `ResumeGoesForward` | `ResumeSafe` in every state, if the first run skips none, and `ResumeMovesForward` of every step |
| `RuntimeProofs!TearsAreBounded`, `TopologyIsSound` | `TearsCostLittle` and `TopologySound` in every state |

Each holds for every value of the constants: any number of threads, lines, redo
records, configurations, processes and short writes, any file, any set of faults.
They assume what the modules assume of the constants (each `ASSUME` is named and
evaluated by the runs): a finite non-empty pool, the redo class within it, the
topology `config.py` guarantees. What a theorem assumes beyond that is in its
`ASSUME`, and why it must: a thread left behind in a call longer than the grace
can fail after the exit code was computed (`doc_partial`; an engine call is not
one for exit 0, since the main thread of an undisturbed run leaves its monitor
loop only when the pool has ended); a result that could not be printed is loaded
and not counted; and a first run that is told to skip lines takes the operator's
word for them.

The inductive invariants, and why each is needed:

* **Types.** A line the reader holds must be a line of the file, not 0 (its
  counter before the first line), and an outcome that found its body one of a
  line, not of a signal that carries line 0: `LinesInHand`. `WorkerProofs` proves
  that worker and fetcher steps keep the shared types for any set of lines, so
  that both topologies use it.
* **The watermark.** `WatermarkSafe` says nothing of lines still on their way: an
  outcome could come from nowhere. `LinesTraced` follows every line from the read
  to the watermark: it is in one place and in flight while it is there
  (`Separate`, `Tracked`; otherwise a second outcome of the same line could find
  its body gone, and the line would complete unwritten), an ACK stands for a
  loaded line (`Acknowledged`), and lines complete only when written or loaded
  (`Rejected`, `DoneSettled`). It says nothing of threads that ended or of lines
  dropped, which is why it survives every failure and late join: a lost outcome
  leaves its line in flight and the watermark before it. A line damaged by a short
  write counts as settled, since nothing in the driver can tell. The tracker's loop is a
  `CHOOSE` of the first missing line here; that the line exists and is the first
  comes from the least element of a set of numbers.
* **The refinement.** A step that decides a line must find it undecided:
  `DecidedOnce`, with the watermark never before the skipped lines.
* **In flight, drained.** The converse of `Tracked`: what is in flight is
  somewhere (`Covered`), a worker past its dequeue has an item and one before it
  has none (`AtWork`), an outcome of a line finds its body (`BodyFound`), and no
  channel closes while the workers are waited for (`OpenUntilJoined`). A fetcher
  about to call `load_complete` has seen a count of 0, and nobody else raises it
  (`NothingLeft`); with the count exact, the jobs channel and the workers' hands
  are empty.
* **The redo count.** A worker holds a redo record just when it is between the
  dequeue and the end of `_process_redo` (`RedoInHand`), so that every step that
  changes the count moves exactly one record.
* **The exit code.** A join that is not cut short found its thread ended
  (`AllJoined`), so nothing changes once the code is computed (`CodeIsFinal`), and
  a body that went to the log is a line rejected and not written, apart from those
  counted and still to be written (`LogCounted`, `Writing`).
* **Exit 0.** While `RUNNING` is set nothing has failed and nobody has been told to
  stop, and such a run is orderly (`Undisturbed`): a channel is closed by the
  thread that feeds it, a worker turns from a side or ends only when that side is
  over, and every line read is completed or somebody has yet to complete it
  (`AllFollowed`). At the end nobody has anything, so every line is completed. By the
  time the code is computed the reader and the consumer have ended too, because no
  I/O outlasts their joins (`JoinedInTime`), so nothing can make it wrong later
  (`ZeroIsFinal`).
* **No deadlock.** The same invariant, `IRun`, of any run: whoever has ended left
  the channel it feeds closed (`ClosedBehind`), and a worker keeps to one loop
  (`OneLoop`). A worker that looks in vain then has a reader or a fetcher still at
  work, and those wait only for room, of which an empty channel has some, or for
  the count and `load_complete`, which are down when nobody has anything
  (`NothingUnderWay`). After the workers are joined, each close releases the next.
* **The redo at stake.** A record fetched is answered for, outstanding, or astray
  (`Astray`); a worker with an answer still owes the count its decrement
  (`Settling`, `Verdict`). Only a fetcher told to stop leaves a record astray, one,
  and ends with it (`RedoFollowed`); with the count exact the rest is queued or in
  a worker's hands.
* **The totals.** `Reporting` is the set of lines whose ACK is on its way; a load
  adds one line to it and to the repository, and the count goes up when a line
  leaves it (`AcksCounted`). A set, not a number, because `Separate` and
  `DecidedOnce` already say that no line enters it twice.
* **What a stop leaves.** The property is about the exit, and the reasons lie in the
  order of the work channel: it is a queue (`InOrder`), so what a stop leaves in it,
  or in the reader, comes after every line a worker took. A line that was read is
  completed, on its way, or the one line the reader stopped at (`InSight`); until a
  fatal error no worker reports a failure or ends with a line (`Unfailed`), and a
  consumer that ends after the workers has emptied its channel (`ResultsOver`). So
  at the end the first line not completed is one no worker took, and the lines the
  pool decided are all before it.
* **The destroy.** `JoinTrusted`: a join taken to be clean found every thread
  ended; `DoneStaysDone`: such a thread takes no step.
* **The stop of the pure redoer.** Records fetched, not answered for and nowhere
  any more are counted (`Accounted`): the only step that adds one is the
  fetcher's give-up, and it ends the fetcher. Once a worker has ended, at most
  one record is left or may still come.
* **The sleep of the pure redoer.** Follows from the two before: a fetcher that
  polls an empty queue has ended for nothing (`Reported`, `Traced`), and with the
  jobs channel empty and no worker holding a record the exact count is 0.
* **The queue.** `Seen` has what a consumer must have found true by the time it
  is where it is; `KeptOut`, that a producer with an item behind a close is past
  its enqueue, and the check of `closed` keeps it there.
* **The reload.** Whoever is past the lock's acquisition holds it; a reinitialize
  uses up a change of the default that no other can use (`Right`: reinits plus 1
  if the engine is behind are at most the changes). A wrong seed had a change before
  it, which nobody uses up until the first reload makes it good (`Founded`). Which
  default was registered later cannot be told from the defaults, which may go back
  and forth, so two history variables count the changes before a thread's read
  (`seenAt`) and before the one the engine runs (`engineAt`); no guard reads them.
  The read under the lock is as late as the engine's, and later if it found another
  default (`Versions`); a read made before the lock was held need not be, which is
  why the code reads again.
* **The resumed load.** Every line before what is printed is accounted for
  (`Backed`), nothing is printed that is behind the start (`NotBehind`), and every
  damaged line, and a torn tail that will cost one, is owed to a short write or to a
  process that ended before its reader or consumer (`Owed`, over `cuts`).

Every invariant and action property a passing run checks is so a theorem, but one. Only
model-checked: the liveness properties, `SignalHonoured` and `ExitsInTime` of `Runtime` among them,
for fairness is out of the prover's reach; and `WhoDoesNotWaitMoves`, for `ENABLED`
is. `NoDeadlock` and `SleepsOnlyWhenServed` say in terms of the state when the
threads all wait; `WhoDoesNotWaitMoves` is what makes the first one complete.
What the repository says and the code does not do are
counterexamples, found by TLC.

## Not modelled

* What the monitor (monitor.py) prints, the rates it keeps, and the redo-floor guard
  (stats.py): what the guard decides is never acted on because the backlog it is
  given is always `None`. Its transitions are sequential and unit-tested. That a tick
  may hold the main thread up is modelled.
* Statistics lines, rates, sampling, signatures, logging: they change no state
  that decides what the driver does. That printing may fail is modelled.
* What a record is: parsing (record.py) and the classes of engine errors
  (`is_retryable` and so on) are choices of the model.
* `create_environment` beyond whether it succeeds; `__main__.py` and
  `__init__.py`, which only call `runtime.entry`.

## Plan

Done: the topologies, the load's contract and its refinement, the resumed load,
the queue, the reload, the configuration, and the theorems above. Left: the reload
inside `Worker`, which multiplies the states of a load for no property it could
break, and so needs the proof of a refinement rather than a run; and the dequeue
of `Channels` as a refinement of `ClosableQueue`, for which the instant of an
EMPTY answer has to be foretold: `TrueAnswers` says that there is one.
