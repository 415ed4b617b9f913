------------------------ MODULE FileLoaderProperties ------------------------
(***************************************************************************)
(* What a file load promises, stated over the module FileLoader.           *)
(***************************************************************************)
EXTENDS FileLoader

\* What may become of a line: nothing to load, loaded, or rejected with its
\* body kept, as far as RejectSink can tell.
Settled(l) == file[l] = "blank" \/ l \in db \/ l \in rejectFile \union damaged \union logged

\* --skip-lines with the printed watermark loses nothing: at every instant,
\* every line this run was to read up to the watermark is blank, loaded, or
\* rejected with its body on record or damaged by a short write that nobody
\* notices (ResumeTracker, _settle, _feed_line).
WatermarkSafe ==
    \A l \in Lines : SkipLines < l /\ l <= Watermark => Settled(l)

Undecided(l) == l \notin db \union rejectFile \union damaged \union logged

\* What has become of a line.
Fate(l) ==
    CASE l \in db -> "loaded"
      [] l \in rejectFile \union damaged -> "written"
      [] l \in logged -> "logged"
      [] OTHER -> "pending"

Contract ==
    INSTANCE LoadContract
    WITH skip <- SkipLines, fate <- [l \in Lines |-> Fate(l)], watermark <- Watermark

\* All the threads, channels and counters of a load amount to the contract: a
\* line is loaded or rejected once and never both, whatever the interleaving,
\* and no step moves the watermark over a line without a fate (run).
ImplementsContract == Contract!Spec

\* The lines some thread or channel is responsible for.
LinesOf(q) == {q[i].line : i \in DOMAIN q} \ {0}
HeldLines == {held[w].line : w \in Workers} \ {0}
FedLine == IF rpc \in {"put", "enq"} THEN {line_no} ELSE {}
Dispatched == FedLine \union LinesOf(work.q) \union HeldLines \union LinesOf(results.q)

\* in_flight is exactly the lines that are somewhere between the reader and
\* the consumer, and each is in one place only.  So load_complete() never
\* says TRUE with a line still in a worker, and a rejected line always finds
\* its body.
InFlightExact ==
    workersClean =>
        /\ inFlight = Dispatched
        /\ Cardinality(inFlight) =
              Cardinality(FedLine) + Len(work.q)
                + Cardinality({w \in Workers : held[w].side = "load"})
                + Cardinality({i \in DOMAIN results.q : results.q[i].line # 0})
        /\ outcome.kind = "REJECT" => outcome.body

\* When the fetcher returns because redo is drained, the file is loaded and no
\* worker holds or will be given anything again.
DrainedIsQuiet ==
    drained => /\ load_complete
               /\ REDO_OUTSTANDING = 0
               /\ jobs.q = <<>>
               /\ work.q = <<>>
               /\ \A w \in Workers : held[w] = Nothing

\* The redo records in the hands of a worker that the engine has not answered
\* for, or with a fatal error.
Unanswered ==
    {w \in Workers : held[w].side = "redo" /\ act[w] \notin {"ACK", "REJECT", "DIED"}}

\* What a stop or a crash costs in redo, for a mixed worker leaves its loop with
\* records still queued: no more than the tiny channel holds, those in the engine
\* and one the fetcher has fetched, until a fatal error.  A run that ends by
\* itself has lost none (_mixed_loop, fetcher_loop).
RedoAtStake ==
    ~WORKER_FATAL =>
        /\ Fetched - Answered <= Len(jobs.q) + Cardinality(Unanswered) + 1
        /\ Len(jobs.q) <= JobsRoom
        /\ mpc = "exited" /\ ~signalled => Fetched = Answered

ExitedOK == mpc = "exited" /\ exitCode = OK

\* A partial load must not exit 0: without a shutdown request, exit 0 means
\* the watermark reached the end of the file, no rejected line is only in the
\* log, and every redo record fetched was finished.
ExitZeroMeansLoaded ==
    ExitedOK /\ ~signalled =>
        /\ Watermark >= LastLine
        /\ logged = {}
        /\ REDO_OUTSTANDING = 0
        /\ jobs.q = <<>>

\* The totals _finish prints are the lines loaded and the lines rejected,
\* however the run ended, shutdown and fatal errors included.
TotalsTrue ==
    mpc = "exited" =>
        /\ ADDS_PROCESSED = Cardinality(db)
        /\ ADDS_REJECTED = written + Cardinality(logged)
        /\ written = Cardinality(rejectFile) + Cardinality(damaged)

\* Any failure, in whichever thread it happened, makes the exit code 255, or 1
\* when the totals cannot be printed either.
FailureIsReported ==
    mpc = "exited" /\ (readError \/ WORKER_FATAL \/ logged # {}) =>
        exitCode \in {UNCAUGHT, FATAL}

\* The environment is never destroyed under a worker's engine call.
NoDestroyUnderWorker ==
    destroyed => \A w \in Workers : ~InEngine(w)

\* A stop without a failure repeats nothing: a record the pool loaded or rejected
\* is not ahead of the watermark when the process exits, for a signal or at end
\* of file, so a resume with the printed --skip-lines does not add it again.  The
\* lines that README.md:137-139 says are re-added are those of a fatal error, of
\* a call that outlasted a join, or of a kill (_process_load, put, run).
StopRepeatsNothing ==
    mpc = "exited" /\ ~WORKER_FATAL /\ workersClean /\ cpc = "done" =>
        \A l \in Lines : file[l] = "record" /\ ~Undecided(l) => l <= Watermark

-----------------------------------------------------------------------------
(* Who waits for whom *)

\* A long write keeps the lock, and the others that come to need it wait for
\* its end, the main thread included, which has no grace for it (complete,
\* reject, load_complete, watermark, _feed_line, _settle).
LockStuck == ~LockFree

ReaderNeedsLock ==
    \/ rpc = "read" /\ RUNNING /\ line_no < LastLine /\ NeedsLock(line_no + 1)
    \/ rpc \in {"write", "complete"}
    \/ (~RUNNING \/ work.closed) /\ PutFails

ConsumerNeedsLock ==
    \/ cpc = "get" /\ HasItem(results)
    \/ cpc = "settle" /\ outcome.kind = "ACK"
    \/ cpc \in {"write", "complete"}

\* A worker waits for room in the results channel, or it looks in vain for an
\* item or the end of a side.
WorkerWaits(w) ==
    \/ pc[w] = "done"
    \/ pc[w] = "enq" /\ ~HasRoom(results, ResultsSize) /\ ~results.closed
    \/ /\ pc[w] \in {"top", "get", "probe1", "probe2"}
       /\ RUNNING
       /\ open[w] # {}
       /\ "load" \in open[w] => ~HasItem(work) /\ ~work.closed
       /\ "redo" \in open[w] => ~HasItem(jobs) /\ ~jobs.closed

ReaderWaits ==
    \/ rpc = "done"
    \/ rpc = "enq" /\ ~HasRoom(work, WorkSize) /\ RUNNING /\ ~work.closed
    \/ lock = "consumer" /\ ReaderNeedsLock

\* The fetcher waits for room, or it polls an empty redo queue and cannot end.
FetcherWaits ==
    \/ fpc = "done"
    \/ fpc = "enq" /\ ~HasRoom(jobs, JobsRoom) /\ RUNNING /\ ~jobs.closed
    \/ fpc = "fenq" /\ ~HasRoom(results, ResultsSize) /\ ~results.closed
    \/ /\ fpc \in {"top", "probe", "quiet?", "loaded?"}
       /\ RUNNING
       /\ redoQueue = 0
       /\ CascadePossible \/ ~load_complete
    \/ LockStuck /\ fpc = "loaded?"

ConsumerWaits ==
    \/ cpc = "done"
    \/ cpc = "get" /\ ~HasItem(results) /\ ~results.closed
    \/ lock = "reader" /\ ConsumerNeedsLock

MainWaits ==
    \/ mpc = "monitor" /\ ~WorkersDone /\ RUNNING
    \/ mpc = "joinWorkers" /\ ~Join(WorkersDone)
    \/ mpc = "joinAux" /\ ~Join(AuxDone)
    \/ mpc = "joinConsumer" /\ ~Join(cpc = "done")
    \/ LockStuck /\ mpc \in {"tick", "finish"}

\* The threads never all wait for each other, through three bounded channels,
\* their closes, the lock, the joins and the count of redo records (run, put,
\* get, fetcher_loop): when nobody can get on, a call does not return, and once
\* shutdown was requested it is a write that keeps the lock or a call that the
\* main thread makes itself.
NoDeadlock ==
    /\ \A w \in Workers : WorkerWaits(w) \/ SlowWorker(w)
    /\ ReaderWaits \/ SlowReader
    /\ FetcherWaits \/ SlowFetcher
    /\ ConsumerWaits \/ SlowConsumer
    /\ MainWaits \/ SlowMain
    => LockStuck \/ SlowMain \/ (SlowCall /\ RUNNING)

\* And a thread that does not wait in one of those ways can take a step: there
\* is nothing else anybody waits for, through any close, failure, full queue or
\* write that keeps the lock.
WhoDoesNotWaitMoves ==
    Alive =>
        /\ \A w \in Workers : WorkerWaits(w) \/ ENABLED Worker(w)
        /\ ReaderWaits \/ ENABLED ReaderThread
        /\ FetcherWaits \/ ENABLED Fetcher
        /\ ConsumerWaits \/ ENABLED Consumer
        /\ MainWaits \/ ENABLED MainStep

\* A load ends: every thread stops and the process exits.
Terminates == <>(mpc = "exited")

\* Once shutdown is requested, by a signal or a fatal error, the process
\* exits, whatever engine or I/O call of the other threads never returns, but
\* one: a write to the reject file that hangs keeps a lock the main thread needs
\* (reject, load_complete, _finish).  Nothing ends a call of the main thread
\* itself, get_stats or a print that hangs (tick, _finish).
ShutdownCompletes ==
    <>[]LockStuck \/ <>[]SlowMain \/ (~RUNNING ~> mpc = "exited")

-----------------------------------------------------------------------------
(* Why the watermark is safe *)

Distinct(q) ==
    \A i, j \in DOMAIN q : i # j /\ q[i].line # 0 => q[i].line # q[j].line

\* A line of the file is in one place at a time.
Separate ==
    /\ Distinct(work.q)
    /\ Distinct(results.q)
    /\ LinesOf(work.q) \intersect LinesOf(results.q) = {}
    /\ FedLine \intersect (LinesOf(work.q) \union LinesOf(results.q)) = {}
    /\ \A w \in Workers : held[w].line # 0 =>
          /\ held[w].line \notin FedLine \union LinesOf(work.q) \union LinesOf(results.q)
          /\ \A v \in Workers \ {w} : held[v].line # held[w].line

\* Wherever it is, it is in flight, and no line still to be read is.
Tracked ==
    /\ FedLine \union LinesOf(work.q) \union LinesOf(results.q) \subseteq inFlight
    /\ \A w \in Workers : held[w].line # 0 => held[w].line \in inFlight
    /\ inFlight \subseteq 1..line_no

\* An ACK on its way stands for a line the engine has loaded; a worker about
\* to take an item has no verdict left over from the one before.
Acknowledged ==
    /\ \A w \in Workers :
          /\ pc[w] \in {"top", "get", "probe1", "probe2", "call"} => act[w] = "none"
          /\ act[w] = "ACK" => held[w].line \in db \union {0}
    /\ \A i \in DOMAIN results.q :
          results.q[i].kind = "ACK" => results.q[i].line \in db \union {0}
    /\ cpc = "settle" /\ outcome.kind = "ACK" => outcome.line \in db \union {0}

\* A rejected line has its body until it is written, and is complete only then.
Rejected ==
    /\ cpc = "settle" /\ outcome.kind = "REJECT" => outcome.body \/ outcome.line = 0
    /\ cpc = "complete" => outcome.line \in rejectFile \union damaged \union logged \union {0}
    /\ rpc = "complete" => line_no \in rejectFile \union damaged \union logged

DoneSettled == \A l \in outOfOrder : Settled(l)

\* What every line owes its safety to, from the read to the watermark: it is
\* in one place and in flight until its outcome is taken, its outcome says
\* what became of it, and only then may the watermark pass it.
LinesTraced ==
    Separate /\ Tracked /\ Acknowledged /\ Rejected /\ DoneSettled /\ WatermarkSafe

-----------------------------------------------------------------------------
(* Why no line meets two fates *)

ForPool(l) == SkipLines < l /\ file[l] = "record"

\* The line of an item or an outcome, 0 for none: only an ACK is about a line
\* that has met its fate.
Carried(l, kind) == l = 0 \/ (ForPool(l) /\ (kind = "ACK" \/ Undecided(l)))

\* Whoever is about to decide what becomes of a line finds it undecided, and is
\* the only one who has it: no line is both loaded and rejected, or rejected
\* by the reader and the consumer (_feed_line, _process_load, _settle).
DecidedOnce ==
    /\ \A l \in Lines : l > line_no => Undecided(l)
    /\ rpc \in {"reject", "write"} =>
          SkipLines < line_no /\ file[line_no] = "bad" /\ Undecided(line_no)
    /\ rpc \in {"put", "enq"} => ForPool(line_no) /\ Undecided(line_no)
    /\ \A i \in DOMAIN work.q : ForPool(work.q[i].line) /\ Undecided(work.q[i].line)
    /\ \A w \in Workers : Carried(held[w].line, act[w])
    /\ \A i \in DOMAIN results.q : Carried(results.q[i].line, results.q[i].kind)
    /\ cpc \in {"settle", "write"} =>
          /\ Carried(outcome.line, outcome.kind)
          /\ outcome.line # 0 => outcome.line \notin inFlight /\ outcome.line <= line_no

-----------------------------------------------------------------------------
(* What the repository says and the code does not quite do *)

\* README.md:17: redo% in (0,100) exits "0 once the file is loaded and the redo
\* queue is drained".
DrainedBeforeExit == ExitedOK /\ ~signalled /\ HasRedo => redoQueue = 0

\* worker.py:341: a thread "still inside an uninterruptible engine call" makes
\* the caller "SKIP the native environment destroy": the fetcher too.
NoDestroyUnderFetcher == destroyed => fpc # "probe"

\* file_loader.py:186: "a partial load must not exit 0".
PartialLoadNeverExitsZero ==
    ExitedOK /\ ~signalled => \A l \in Lines : SkipLines < l => Settled(l)
=============================================================================
