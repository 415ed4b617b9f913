----------------------------- MODULE FileLoader -----------------------------
(***************************************************************************)
(* A file load: file_loader.run with the threads it starts, and what       *)
(* runtime.main does with its result.  The main thread waits for every     *)
(* worker or for RUNNING to be cleared, closes and joins in a fixed order, *)
(* computes the exit code, destroys the engine unless a worker is stuck,   *)
(* and exits, which ends every other thread where it is.                   *)
(***************************************************************************)
EXTENDS Reader, ResultConsumer

ASSUME FileLoaderAssumption ==
    /\ HasLoad
    /\ HasRedo <=> RedoPreferring # {}
    /\ JobsRoom = Cardinality(RedoPreferring) + 2

VARIABLES
    mpc,
    workersClean,  \* every worker was joined within the grace
    exitCode,
    destroyed,     \* factory.destroy has been called
    signalled      \* SIGINT, SIGTERM or SIGHUP was delivered

mainVars == <<mpc, workersClean, exitCode, destroyed, signalled>>
vars == <<channels, workerVars, fetcherVars, readerVars, consumerVars, mainVars,
          loadStateVars, statsVars, engineVars>>

OK == 0
UNCAUGHT == 1    \* the interpreter's, for an exception out of main
FATAL == 255

MainInit ==
    /\ mpc = "monitor"
    /\ workersClean = TRUE
    /\ exitCode = OK
    /\ destroyed = FALSE
    /\ signalled = FALSE

Init ==
    /\ StatsInit /\ EngineInit /\ LoadStateInit
    /\ WorkerInit /\ FetcherInit /\ ReaderInit /\ ConsumerInit /\ MainInit

TypeOK ==
    /\ StatsTypeOK /\ EngineTypeOK(Lines) /\ LoadStateTypeOK
    /\ WorkerTypeOK(Lines) /\ FetcherTypeOK /\ ReaderTypeOK /\ ConsumerTypeOK
    /\ mpc \in {"monitor", "tick", "stats", "closeWork", "joinWorkers", "closeJobs",
                "joinAux", "closeResults", "joinConsumer", "finish", "teardown", "exited"}
    /\ workersClean \in BOOLEAN
    /\ exitCode \in {OK, UNCAUGHT, FATAL}
    /\ destroyed \in BOOLEAN
    /\ signalled \in BOOLEAN

-----------------------------------------------------------------------------
(* The main thread *)

othersVars == <<workerVars, fetcherVars, readerVars, consumerVars,
                loadStateVars, engineVars>>

\* Between the start of the threads and the end of the workers or a stop.
Monitoring == mpc \in {"monitor", "tick", "stats"}

WorkersDone == \A w \in Workers : pc[w] = "done"

AuxDone == rpc = "done" /\ fpc = "done"

\* The threads in a call that may outlast the grace of a join: an engine call,
\* or file or terminal I/O.
SlowWorker(w) == "slowEngine" \in Faults /\ InEngine(w)
SlowFetcher == "slowEngine" \in Faults /\ fpc = "probe"
SlowReader == "slowIO" \in Faults /\ (rpc \in {"read", "reject"} \/ lock = "reader")
SlowConsumer == "slowIO" \in Faults /\ (cpc = "settle" \/ lock = "consumer")

\* The same of the main thread, which nobody joins: the engine's statistics and
\* the prints of a tick, and those of _finish.
SlowMain ==
    \/ "slowEngine" \in Faults /\ mpc = "stats"
    \/ "slowIO" \in Faults /\ mpc \in {"stats", "finish"}

\* Only such a call can hold a join up until its grace ends.
SlowCall ==
    SlowFetcher \/ SlowReader \/ SlowConsumer \/ \E w \in Workers : SlowWorker(w)

\* join_bounded.  Faulty: without a grace.
JoinForever(done) == done
Join(done) == done \/ SlowCall

MainGoto(from, to) ==
    /\ mpc = from
    /\ mpc' = to
    /\ UNCHANGED <<othersVars, statsVars, signalled>>

\* _monitor_until_done: at each interval a tick asks load_complete, which may
\* have to wait for the lock, then the engine for its statistics, and prints.
\* A tick whose calls are never slow delays nothing and is left out.
TickDue ==
    /\ Faults \intersect {"slowEngine", "slowIO"} # {}
    /\ ~WorkersDone /\ RUNNING
    /\ MainGoto("monitor", IF LockFree THEN "stats" ELSE "tick")
    /\ UNCHANGED <<channels, workersClean, exitCode, destroyed>>

TickAsks ==
    /\ LockFree
    /\ MainGoto("tick", "stats")
    /\ UNCHANGED <<channels, workersClean, exitCode, destroyed>>

TickEnds ==
    /\ MainGoto("stats", "monitor")
    /\ UNCHANGED <<channels, workersClean, exitCode, destroyed>>

StopMonitoring ==
    /\ WorkersDone \/ ~RUNNING
    /\ MainGoto("monitor", "closeWork")
    /\ UNCHANGED <<channels, workersClean, exitCode, destroyed>>

CloseWork ==
    /\ MainGoto("closeWork", "joinWorkers")
    /\ work' = Closed(work)
    /\ UNCHANGED <<jobs, results, workersClean, exitCode, destroyed>>

JoinWorkers ==
    /\ Join(WorkersDone)
    /\ MainGoto("joinWorkers", "closeJobs")
    /\ workersClean' = WorkersDone
    /\ UNCHANGED <<channels, exitCode, destroyed>>

CloseJobs ==
    /\ MainGoto("closeJobs", "joinAux")
    /\ jobs' = IF HasRedo THEN Closed(jobs) ELSE jobs
    /\ UNCHANGED <<work, results, workersClean, exitCode, destroyed>>

\* The result of this join is not used.
JoinAux ==
    /\ Join(AuxDone)
    /\ MainGoto("joinAux", "closeResults")
    /\ UNCHANGED <<channels, workersClean, exitCode, destroyed>>

CloseResults ==
    /\ MainGoto("closeResults", "joinConsumer")
    /\ results' = Closed(results)
    /\ UNCHANGED <<work, jobs, workersClean, exitCode, destroyed>>

\* Nor is it known whether this one ended in time.
JoinConsumer ==
    /\ Join(cpc = "done")
    /\ MainGoto("joinConsumer", "finish")
    /\ UNCHANGED <<channels, workersClean, exitCode, destroyed>>

\* _finish returns an error.  Faulty: not for a fatal error.
FailedUnlessFatal == readError \/ ADDS_REJECTED > written
Failed == readError \/ WORKER_FATAL \/ ADDS_REJECTED > written

\* _finish, which takes the lock for the watermark it prints, and the exit code
\* runtime.main makes of its result
Finish ==
    /\ LockFree
    /\ MainGoto("finish", "teardown")
    /\ exitCode' = IF Failed THEN FATAL ELSE OK
    /\ UNCHANGED <<channels, workersClean, destroyed>>

\* _finish cannot print the totals: nothing catches the exception.
FinishFails ==
    /\ "print" \in Faults
    /\ LockFree
    /\ MainGoto("finish", "exited")
    /\ exitCode' = UNCAUGHT
    /\ UNCHANGED <<channels, workersClean, destroyed>>

\* The destroy is skipped when a worker may still be in the engine.  Faulty:
\* never.
MayAlwaysDestroy == TRUE
MayDestroy == workersClean

Teardown ==
    /\ MainGoto("teardown", "exited")
    /\ destroyed' = MayDestroy
    /\ UNCHANGED <<channels, workersClean, exitCode>>

MainStep ==
    \/ TickDue \/ TickAsks \/ TickEnds \/ StopMonitoring \/ CloseWork \/ JoinWorkers
    \/ CloseJobs \/ JoinAux \/ CloseResults \/ JoinConsumer \/ Finish \/ FinishFails \/ Teardown

\* install_shutdown_handler's handler
Signal ==
    /\ ~signalled
    /\ signalled' = TRUE
    /\ RUNNING' = FALSE
    /\ UNCHANGED <<channels, othersVars, WORKER_FATAL, addCounters, redoCounters,
                   REDO_OUTSTANDING, mpc, workersClean, exitCode, destroyed>>

-----------------------------------------------------------------------------
(* The process: its threads run until the main thread has exited. *)

Alive == mpc # "exited"

Worker(w) ==
    /\ Alive
    /\ WorkerStep(w)
    /\ UNCHANGED <<fetcherVars, readerVars, consumerVars, mainVars, loadStateVars>>

\* load_complete takes the lock.
Fetcher ==
    /\ Alive
    /\ fpc = "loaded?" => LockFree
    /\ FetcherStep(load_complete)
    /\ UNCHANGED <<readerVars, consumerVars, mainVars, loadStateVars>>

ReaderThread ==
    /\ Alive
    /\ ReaderStep
    /\ UNCHANGED <<consumerVars, mainVars>>

Consumer ==
    /\ Alive
    /\ ConsumerStep
    /\ UNCHANGED <<readerVars, mainVars>>

Exited == ~Alive /\ UNCHANGED vars

Next ==
    \/ \E w \in Workers : Worker(w)
    \/ Fetcher
    \/ ReaderThread
    \/ Consumer
    \/ MainStep
    \/ Alive /\ Signal
    \/ Exited

Spec == Init /\ [][Next]_vars

\* Every thread that can take a step keeps being scheduled, and every engine
\* and I/O call returns.
FairSpec ==
    /\ Spec
    /\ \A w \in Workers : WF_vars(Worker(w))
    /\ WF_vars(Fetcher)
    /\ WF_vars(ReaderThread)
    /\ WF_vars(Consumer)
    /\ WF_vars(MainStep)

\* The same when an engine or I/O call may never return: a thread inside one is
\* promised no step, and one that needs LoadState.lock has none while somebody
\* else's write keeps it.
HangSpec ==
    /\ Spec
    /\ \A w \in Workers : WF_vars(~SlowWorker(w) /\ Worker(w))
    /\ WF_vars(~SlowFetcher /\ Fetcher)
    /\ WF_vars(~SlowReader /\ ReaderThread)
    /\ WF_vars(~SlowConsumer /\ Consumer)
    /\ WF_vars(~SlowMain /\ MainStep)
=============================================================================
