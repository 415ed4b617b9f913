---------------------------- MODULE RedoFetcher -----------------------------
(***************************************************************************)
(* The redo fetcher thread of redo.py: one serial get_redo_record loop     *)
(* feeding the jobs channel.  Its steps between two engine calls are       *)
(* separate because what each one reads may change before the next:        *)
(* "probe" in the engine; "quiet?" about to read REDO_OUTSTANDING;         *)
(* "loaded?" about to call load_complete; "put" and "enq" of jobs.put;     *)
(* "fatal", "fput" and "fenq" of _signal_fatal; "close"; "done".           *)
(* The sleeps only delay the next step.                                    *)
(***************************************************************************)
EXTENDS Worker

CONSTANT
    JobsRoom    \* maxsize of the jobs channel: |B| + 2, or N + 2 without load

ASSUME JobsRoomAssumption == JobsRoom \in Nat

VARIABLES
    fpc,
    drained     \* the fetcher returned because redo was found drained

fetcherVars == <<fpc, drained>>

FetcherInit ==
    /\ fpc = IF HasRedo THEN "top" ELSE "done"
    /\ drained = FALSE

FetcherTypeOK ==
    /\ fpc \in {"top", "probe", "quiet?", "loaded?", "put", "enq",
                "fatal", "fput", "fenq", "close", "done"}
    /\ drained \in BOOLEAN

FetchTop ==
    /\ fpc = "top"
    /\ fpc' = IF RUNNING THEN "probe" ELSE "close"
    /\ UNCHANGED <<drained, channels, workerVars, statsVars, engineVars>>

FetchRecord ==
    /\ fpc = "probe"
    /\ EngineGetRedo
    /\ REDO_OUTSTANDING' = REDO_OUTSTANDING + 1
    /\ fpc' = "put"
    /\ UNCHANGED <<drained, channels, workerVars, flags, addCounters, redoCounters>>

FetchEmpty ==
    /\ fpc = "probe"
    /\ redoQueue = 0
    /\ fpc' = "quiet?"
    /\ UNCHANGED <<drained, channels, workerVars, statsVars, engineVars>>

FetchError ==
    /\ fpc = "probe"
    /\ "fetch" \in Faults
    /\ fpc' = "fatal"
    /\ UNCHANGED <<drained, channels, workerVars, statsVars, engineVars>>

\* A worker that still has a redo record may cascade.  Faulty: so may
\* one that has none.
CascadePossibleAlways == REDO_OUTSTANDING >= 0
CascadePossible == REDO_OUTSTANDING > 0

FetchQuiet ==
    /\ fpc = "quiet?"
    /\ fpc' = IF CascadePossible THEN "top" ELSE "loaded?"
    /\ UNCHANGED <<drained, channels, workerVars, statsVars, engineVars>>

FetchDrained(load_complete) ==
    /\ fpc = "loaded?"
    /\ drained' = load_complete
    /\ fpc' = IF load_complete THEN "close" ELSE "top"
    /\ UNCHANGED <<channels, workerVars, statsVars, engineVars>>

\* A record not handed over is forgotten.  Faulty: it stays outstanding.
ForgetNothing == UNCHANGED REDO_OUTSTANDING
Forget == REDO_OUTSTANDING' = REDO_OUTSTANDING - 1

\* The loop of jobs.put ends.  Faulty: keep_going is taken the wrong way round.
PutEndsWhileRunning == RUNNING \/ jobs.closed
PutEnds == ~RUNNING \/ jobs.closed

\* jobs.put returned False.
FetchGiveUp ==
    /\ PutEnds
    /\ \/ fpc = "put"
       \/ fpc = "enq" /\ ~HasRoom(jobs, JobsRoom)
    /\ Forget
    /\ fpc' = "close"
    /\ UNCHANGED <<drained, channels, workerVars, flags, addCounters,
                   redoCounters, engineVars>>

FetchPutCheck ==
    /\ fpc = "put"
    /\ RUNNING
    /\ ~jobs.closed
    /\ fpc' = "enq"
    /\ UNCHANGED <<drained, channels, workerVars, statsVars, engineVars>>

\* Waiting here for room is the redo-fetch gating valve.
FetchEnqueue ==
    /\ fpc = "enq"
    /\ HasRoom(jobs, JobsRoom)
    /\ jobs' = Enqueued(jobs, RedoJob)
    /\ fpc' = "top"
    /\ UNCHANGED <<drained, work, results, workerVars, statsVars, engineVars>>

\* Without a results channel there is nobody to tell.
AfterFatal == IF HasLoad THEN "fput" ELSE "close"

\* _signal_fatal
FetchFatal ==
    /\ fpc = "fatal"
    /\ MarkFatal
    /\ fpc' = AfterFatal
    /\ UNCHANGED <<drained, channels, workerVars, addCounters, redoCounters,
                   REDO_OUTSTANDING, engineVars>>

FetchReport ==
    /\ \/ fpc = "fput" /\ fpc' = (IF results.closed THEN "close" ELSE "fenq")
                       /\ UNCHANGED results
       \/ fpc = "fenq" /\ fpc' = "close"
          /\ \/ /\ HasRoom(results, ResultsSize)
                /\ results' = Enqueued(results, Outcome(0, "FATAL"))
             \/ ~HasRoom(results, ResultsSize) /\ results.closed /\ UNCHANGED results
    /\ UNCHANGED <<drained, work, jobs, workerVars, statsVars, engineVars>>

\* finally: jobs.close()
FetchClose ==
    /\ fpc = "close"
    /\ jobs' = Closed(jobs)
    /\ fpc' = "done"
    /\ UNCHANGED <<drained, work, results, workerVars, statsVars, engineVars>>

FetcherStep(load_complete) ==
    \/ FetchTop \/ FetchRecord \/ FetchEmpty \/ FetchError
    \/ FetchQuiet \/ FetchDrained(load_complete)
    \/ FetchGiveUp \/ FetchPutCheck \/ FetchEnqueue
    \/ FetchFatal \/ FetchReport \/ FetchClose

-----------------------------------------------------------------------------
\* REDO_OUTSTANDING counts the redo records between get_redo_record and the
\* end of _process_redo, one that killed its worker included.
OutstandingExact ==
    REDO_OUTSTANDING =
        Len(jobs.q) + Cardinality({w \in Workers : held[w].side = "redo"})
                    + (IF fpc \in {"put", "enq"} THEN 1 ELSE 0)

\* get_redo_record takes a record out of the repository for good, and the engine
\* has answered for those that are processed or dropped.
Fetched == MaxRedo - redoBudget - redoQueue
Answered == REDOS_PROCESSED + REDOS_DROPPED
=============================================================================
