----------------------------- MODULE PureRedoer -----------------------------
(***************************************************************************)
(* redo% = 100: pure_redoer.run with its workers and the redo fetcher, and *)
(* what runtime.main does with its result.  There is no load side, so the  *)
(* work and results channels stay empty.                                   *)
(***************************************************************************)
EXTENDS RedoFetcher

ASSUME PureRedoerAssumption ==
    /\ ~HasLoad
    /\ HasRedo
    /\ RedoPreferring = Workers
    /\ JobsRoom = Cardinality(Workers) + 2

VARIABLES
    mpc,
    workersClean,  \* the workers and the fetcher were joined within the grace
    exitCode,
    destroyed,
    signalled

mainVars == <<mpc, workersClean, exitCode, destroyed, signalled>>
vars == <<channels, workerVars, fetcherVars, mainVars, statsVars, engineVars>>

OK == 0
UNCAUGHT == 1
FATAL == 255

Init ==
    /\ StatsInit /\ EngineInit /\ WorkerInit /\ FetcherInit
    /\ mpc = "monitor"
    /\ workersClean = TRUE
    /\ exitCode = OK
    /\ destroyed = FALSE
    /\ signalled = FALSE

TypeOK ==
    /\ StatsTypeOK /\ EngineTypeOK({}) /\ WorkerTypeOK({}) /\ FetcherTypeOK
    /\ results = NewChannel
    /\ mpc \in {"monitor", "tick", "join", "finish", "stats", "teardown", "exited"}
    /\ workersClean \in BOOLEAN
    /\ exitCode \in {OK, UNCAUGHT, FATAL}
    /\ destroyed \in BOOLEAN
    /\ signalled \in BOOLEAN

ThreadsDone == fpc = "done" /\ \A w \in Workers : pc[w] = "done"

InAnyCall == fpc = "probe" \/ \E w \in Workers : InEngine(w)

\* The main thread asks the engine for its statistics, at a tick of the monitor
\* or after the totals.
MainInCall == mpc \in {"tick", "stats"}

MainGoto(from, to) ==
    /\ mpc = from
    /\ mpc' = to
    /\ UNCHANGED <<channels, workerVars, fetcherVars, WORKER_FATAL, addCounters,
                   redoCounters, REDO_OUTSTANDING, engineVars, signalled>>

\* At each interval a tick asks for the statistics.  When engine calls are never
\* slow that delays nothing and is left out.
TickStarts ==
    /\ "slowEngine" \in Faults
    /\ RUNNING
    /\ \E w \in Workers : pc[w] # "done"
    /\ MainGoto("monitor", "tick")
    /\ UNCHANGED <<RUNNING, workersClean, exitCode, destroyed>>

TickEnds ==
    /\ MainGoto("tick", "monitor")
    /\ UNCHANGED <<RUNNING, workersClean, exitCode, destroyed>>

\* The monitoring loop ends, and RUNNING is cleared for the fetcher.
StopMonitoring ==
    /\ ~RUNNING \/ \A w \in Workers : pc[w] = "done"
    /\ MainGoto("monitor", "join")
    /\ RUNNING' = FALSE
    /\ UNCHANGED <<workersClean, exitCode, destroyed>>

\* Both the workers and the fetcher are joined.  Faulty: only the workers are.
JoinedWorkers == \A w \in Workers : pc[w] = "done"
Joined == ThreadsDone

\* Only a call that does not return holds the join up for the whole grace.
\* Faulty: there is no grace.
NoGrace == FALSE
GraceEnds == "slowEngine" \in Faults /\ InAnyCall

Join ==
    /\ Joined \/ GraceEnds
    /\ MainGoto("join", "finish")
    /\ workersClean' = Joined
    /\ UNCHANGED <<RUNNING, exitCode, destroyed>>

\* The totals are printed, then the engine's statistics are asked for.
PrintTotals ==
    /\ MainGoto("finish", "stats")
    /\ UNCHANGED <<RUNNING, workersClean, exitCode, destroyed>>

Finish ==
    /\ MainGoto("stats", "teardown")
    /\ exitCode' = IF WORKER_FATAL THEN FATAL ELSE OK
    /\ UNCHANGED <<RUNNING, workersClean, destroyed>>

\* The totals cannot be printed: nothing catches the exception.
FinishFails ==
    /\ "print" \in Faults
    /\ MainGoto("finish", "exited")
    /\ exitCode' = UNCAUGHT
    /\ UNCHANGED <<RUNNING, workersClean, destroyed>>

Teardown ==
    /\ MainGoto("teardown", "exited")
    /\ destroyed' = workersClean
    /\ UNCHANGED <<RUNNING, workersClean, exitCode>>

MainStep ==
    \/ TickStarts \/ TickEnds \/ StopMonitoring
    \/ Join \/ PrintTotals \/ FinishFails \/ Finish \/ Teardown

Signal ==
    /\ ~signalled
    /\ signalled' = TRUE
    /\ RUNNING' = FALSE
    /\ UNCHANGED <<channels, workerVars, fetcherVars, WORKER_FATAL, addCounters,
                   redoCounters, REDO_OUTSTANDING, engineVars,
                   mpc, workersClean, exitCode, destroyed>>

Alive == mpc # "exited"

Worker(w) == Alive /\ WorkerStep(w) /\ UNCHANGED <<fetcherVars, mainVars>>

\* load_complete is None.
Fetcher == Alive /\ FetcherStep(FALSE) /\ UNCHANGED mainVars

Exited == ~Alive /\ UNCHANGED vars

Next ==
    \/ \E w \in Workers : Worker(w)
    \/ Fetcher
    \/ MainStep
    \/ Alive /\ Signal
    \/ Exited

Spec == Init /\ [][Next]_vars

\* Every thread keeps being scheduled; inside an engine call it is promised
\* nothing, the main thread neither.
HangSpec ==
    /\ Spec
    /\ \A w \in Workers : WF_vars(~InEngine(w) /\ Worker(w))
    /\ WF_vars(fpc # "probe" /\ Fetcher)
    /\ WF_vars(~MainInCall /\ MainStep)

-----------------------------------------------------------------------------
(* What the pure redoer promises *)

\* A graceful stop loses at most the one record the fetcher has in hand: the
\* workers drain every queued record before they exit.
ShutdownLosesAtMostOne ==
    mpc = "exited" /\ workersClean /\ ~WORKER_FATAL =>
        Fetched - Answered <= 1

\* It runs until it is told to stop or fails, and a failure is never exit 0.
StopsOnlyWhenTold ==
    /\ mpc \notin {"monitor", "tick"} => signalled \/ WORKER_FATAL
    /\ mpc = "exited" /\ workersClean /\ WORKER_FATAL => exitCode # OK

\* The environment is not destroyed under any engine call.
NoDestroyUnderCall == destroyed => ~InAnyCall

\* A worker looks in vain for a record, and the fetcher waits for room or finds
\* the redo queue empty.
WorkerWaits(w) ==
    pc[w] = "done" \/ (pc[w] = "top" /\ RUNNING /\ ~HasItem(jobs) /\ ~jobs.closed)

FetcherWaits ==
    \/ fpc = "done"
    \/ fpc = "enq" /\ ~HasRoom(jobs, JobsRoom) /\ RUNNING /\ ~jobs.closed
    \/ fpc \in {"top", "probe", "quiet?", "loaded?"} /\ RUNNING /\ redoQueue = 0

MainWaits ==
    \/ mpc = "monitor" /\ RUNNING /\ ~(\A w \in Workers : pc[w] = "done")
    \/ mpc = "join" /\ ~Joined /\ ~GraceEnds

CallsHang == "slowEngine" \in Faults /\ InAnyCall
MainHangs == "slowEngine" \in Faults /\ MainInCall

\* Its threads all sleep only while nothing stops it, and with a redo record
\* left only when an engine call does not return; once it is told to stop, only
\* in a call of the main thread itself (run, fetcher_loop).
SleepsOnlyWhenServed ==
    /\ \A w \in Workers : WorkerWaits(w) \/ (CallsHang /\ InEngine(w))
    /\ FetcherWaits \/ (CallsHang /\ fpc = "probe")
    /\ MainWaits \/ MainHangs
    => \/ ~RUNNING /\ MainHangs
       \/ RUNNING /\ (CallsHang \/ (redoQueue = 0 /\ REDO_OUTSTANDING = 0))

\* While it runs, redo is served, through a full jobs channel too: again and
\* again nothing is left to do, unless some engine call never returns.
CallHangs == <>[](fpc = "probe") \/ \E w \in Workers : <>[]InEngine(w)
RedoServed ==
    CallHangs \/ []<>(~RUNNING \/ (redoQueue = 0 /\ REDO_OUTSTANDING = 0))

\* Once shutdown is requested the process exits, even when an engine call of a
\* worker or the fetcher never returns.  Nothing ends one of the main thread,
\* get_stats in a tick or after the totals (print_engine_stats).
ShutdownCompletes == <>[]MainInCall \/ (~RUNNING ~> mpc = "exited")
=============================================================================
