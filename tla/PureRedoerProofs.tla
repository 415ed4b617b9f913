-------------------------- MODULE PureRedoerProofs --------------------------
(***************************************************************************)
(* The pure redoer, for every pool, backlog and set of faults: types, no   *)
(* engine destroyed under a call, the count of redo records, why it stops, *)
(* and what a stop loses.                                                  *)
(***************************************************************************)
EXTENDS PureRedoer, WorkerProofs

\* Nobody is on the way to the results channel, which is not there.
NoReports ==
    /\ fpc \notin {"fput", "fenq"}
    /\ \A w \in Workers : pc[w] \notin {"get", "probe1", "put", "enq"}

\* The join is trusted only if every thread had ended.
JoinTrusted ==
    /\ mpc \notin {"monitor", "tick", "join"} /\ workersClean => ThreadsDone
    /\ destroyed => workersClean /\ mpc = "exited"

IType == TypeOK /\ NoReports
IShutdown == IType /\ JoinTrusted

OwnTypeOK ==
    /\ mpc \in {"monitor", "tick", "join", "finish", "stats", "teardown", "exited"}
    /\ workersClean \in BOOLEAN
    /\ exitCode \in {OK, UNCAUGHT, FATAL}
    /\ destroyed \in BOOLEAN
    /\ signalled \in BOOLEAN

\* The invariant is the conjunction of these parts, before a step and after it.
LEMMA IParts ==
    /\ IType => /\ SharedTypeOK({}) /\ FetcherTypeOK /\ OwnTypeOK
                /\ results = NewChannel /\ NoReports
    /\ SharedTypeOK({})' /\ FetcherTypeOK' /\ OwnTypeOK' /\ results' = NewChannel
         /\ NoReports' => IType'
  BY DEF IType, TypeOK, SharedTypeOK, OwnTypeOK

\* The initial state.
LEMMA InitOK == Init => IShutdown
  <1> SUFFICES ASSUME Init PROVE IShutdown
    OBVIOUS
  <1>0. StatsInit /\ EngineInit /\ WorkerInit /\ FetcherInit /\ mpc = "monitor"
    BY DEF Init
  <1>1. StatsTypeOK
    <2>1. RUNNING \in BOOLEAN /\ WORKER_FATAL \in BOOLEAN
      BY <1>0, Zenon DEF StatsInit
    <2> QED
      BY <1>0, <2>1 DEF StatsInit, StatsTypeOK
  <1>2. EngineTypeOK({})
    <2>1. PICK r \in 0..MaxRedo : redoQueue = r /\ redoBudget = MaxRedo - r
      BY <1>0 DEF EngineInit
    <2> QED
      BY <1>0, <2>1, MaxRedoAssumption DEF EngineInit, EngineTypeOK
  <1>3. WorkerTypeOK({})
    <2>1. /\ work \in Channel([side : {"load"}, line : {}])
          /\ jobs \in Channel({RedoJob})
          /\ results \in Channel([line : {} \union {0}, kind : {"ACK", "REJECT", "FATAL"}])
      BY <1>0, NewChannelType DEF WorkerInit
    <2> QED
      BY <1>0, <2>1 DEF WorkerInit, WorkerTypeOK
  <1>4. FetcherTypeOK /\ NoReports /\ results = NewChannel
    BY <1>0 DEF FetcherInit, FetcherTypeOK, NoReports, WorkerInit
  <1>5. /\ mpc \in {"monitor", "tick", "join", "finish", "stats", "teardown", "exited"}
        /\ workersClean \in BOOLEAN
        /\ exitCode \in {OK, UNCAUGHT, FATAL}
        /\ destroyed \in BOOLEAN
        /\ signalled \in BOOLEAN
        /\ JoinTrusted
    BY Zenon DEF Init, JoinTrusted
  <1> QED
    BY <1>1, <1>2, <1>3, <1>4, <1>5 DEF IShutdown, IType, TypeOK

\* Without a load side a worker neither waits for a line nor reports.
LEMMA WorkerStepQuiet ==
    ASSUME IType, NEW w \in Workers, WorkerStep(w)
    PROVE  /\ UNCHANGED results
           /\ \A v \in Workers : pc'[v] \notin {"get", "probe1", "put", "enq"}
  <1>0. /\ ~HasLoad /\ WorkerTypeOK({}) /\ NoReports
    BY IParts, PureRedoerAssumption DEF SharedTypeOK
  <1> USE DEF Goto, Become, WorkerTypeOK, NoReports, channels
  <1>1. held[w].side # "load"
    BY <1>0 DEF RedoJob, Nothing
  <1>2. CASE LoadStep(w)
    BY <1>0, <1>1, <1>2 DEF LoadStep, LoopTop, GetLoad, GetNothing, AddRecord
  <1>3. CASE RedoStep(w)
    BY <1>0, <1>3 DEF RedoStep, DrainRedo, DrainMiss, DrainEnd, ProcessRedo, SettleRedo,
                      TakeRedo, TakeFrom, BackToTop
  <1>4. CASE MixedStep(w)
    BY <1>0, <1>4 DEF MixedStep, PollHit, PollMiss
  <1>5. CASE ReportStep(w)
    BY <1>0, <1>5 DEF ReportStep, WorkerFatal, PutCheck, PutEnqueue, PutFull
  <1> QED
    BY <1>2, <1>3, <1>4, <1>5 DEF WorkerStep

\* Nor does the fetcher.
LEMMA FetcherStepQuiet ==
    ASSUME IType, FetcherStep(FALSE)
    PROVE  /\ UNCHANGED <<results, pc>>
           /\ fpc' \notin {"fput", "fenq"}
           /\ fpc # "done"
  <1>1. ~HasLoad /\ NoReports
    BY IParts, PureRedoerAssumption
  <1> QED
    BY <1>1
    DEF FetcherStep, FetchTop, FetchRecord, FetchEmpty, FetchError, FetchQuiet,
        FetchDrained, FetchGiveUp, FetchPutCheck, FetchEnqueue, FetchFatal, AfterFatal,
        FetchReport, FetchClose, NoReports, channels, workerVars

\* Every step of the process keeps the invariant.
LEMMA NextOK == IShutdown /\ [Next]_vars => IShutdown'
  <1> SUFFICES ASSUME IShutdown, [Next]_vars PROVE IShutdown'
    OBVIOUS
  <1>0. /\ IType /\ SharedTypeOK({}) /\ FetcherTypeOK /\ OwnTypeOK
        /\ results = NewChannel /\ NoReports /\ JoinTrusted
    BY IParts DEF IShutdown
  <1>1. ASSUME NEW w \in Workers, Worker(w) PROVE IShutdown'
    <2>1. WorkerStep(w) /\ UNCHANGED <<fetcherVars, mainVars>>
      BY <1>1 DEF Worker
    <2>2. SharedTypeOK({})'
      BY <1>0, <2>1, WorkerStepType
    <2>3. FetcherTypeOK' /\ OwnTypeOK'
      BY <1>0, <2>1 DEF FetcherTypeOK, fetcherVars, OwnTypeOK, mainVars
    <2>4. results' = NewChannel /\ NoReports'
      BY <1>0, <2>1, WorkerStepQuiet DEF NoReports, fetcherVars
    <2>5. ThreadsDone => ThreadsDone'
      BY <1>0, <2>1, DoneStaysDone DEF ThreadsDone, SharedTypeOK, fetcherVars
    <2>6. JoinTrusted'
      BY <1>0, <2>1, <2>5 DEF JoinTrusted, mainVars
    <2> QED
      BY <2>2, <2>3, <2>4, <2>6, IParts DEF IShutdown
  <1>2. CASE Fetcher
    <2>1. FetcherStep(FALSE) /\ UNCHANGED mainVars
      BY <1>2 DEF Fetcher
    <2>2. SharedTypeOK({})' /\ FetcherTypeOK'
      BY <1>0, <2>1, FetcherStepType
    <2>3. OwnTypeOK'
      BY <1>0, <2>1 DEF OwnTypeOK, mainVars
    <2>4. results' = NewChannel /\ NoReports'
      BY <1>0, <2>1, FetcherStepQuiet DEF NoReports
    <2>5. JoinTrusted'
      BY <1>0, <2>1, FetcherStepQuiet DEF JoinTrusted, ThreadsDone, mainVars
    <2> QED
      BY <2>2, <2>3, <2>4, <2>5, IParts DEF IShutdown
  <1>3. CASE MainStep
    <2> USE DEF MainGoto
    <2>1. UNCHANGED <<channels, workerVars, fetcherVars, engineVars>>
      BY <1>3 DEF MainStep, TickStarts, TickEnds, StopMonitoring, Join, PrintTotals,
                  Finish, FinishFails, Teardown
    <2>2. /\ UNCHANGED <<WORKER_FATAL, addCounters, redoCounters, REDO_OUTSTANDING>>
          /\ RUNNING' \in {RUNNING, FALSE}
      BY <1>3 DEF MainStep, TickStarts, TickEnds, StopMonitoring, Join, PrintTotals,
                  Finish, FinishFails, Teardown
    <2>3. StatsTypeOK'
      BY <1>0, <2>2 DEF SharedTypeOK, StatsTypeOK, addCounters, redoCounters
    <2>4. SharedTypeOK({})'
      BY <1>0, <2>1, <2>3, SharedUnchanged DEF SharedTypeOK
    <2>5. FetcherTypeOK' /\ results' = NewChannel /\ NoReports'
      BY <1>0, <2>1 DEF FetcherTypeOK, NoReports, fetcherVars, workerVars, channels
    <2>6. ThreadsDone' = ThreadsDone
      BY <2>1 DEF ThreadsDone, fetcherVars, workerVars
    <2>7. OwnTypeOK'
      <3>1. ThreadsDone \in BOOLEAN
        BY DEF ThreadsDone
      <3>2. /\ mpc' \in {"monitor", "tick", "join", "finish", "stats", "teardown", "exited"}
            /\ exitCode' \in {exitCode, OK, UNCAUGHT, FATAL}
            /\ UNCHANGED signalled
        BY <1>3 DEF MainStep, TickStarts, TickEnds, StopMonitoring, Join,
        PrintTotals, Finish, FinishFails, Teardown
      <3>3. /\ workersClean' = workersClean \/ workersClean' = ThreadsDone
            /\ destroyed' = destroyed \/ destroyed' = workersClean
        BY <1>3 DEF MainStep, TickStarts, TickEnds, StopMonitoring, Join, Joined,
        PrintTotals, Finish, FinishFails, Teardown
      <3> QED
        BY <1>0, <3>1, <3>2, <3>3, Zenon DEF OwnTypeOK
    <2>8. JoinTrusted'
      <3> USE DEF JoinTrusted
      <3>1. CASE Join
        BY <1>0, <2>6, <3>1 DEF Join, Joined
      <3>2. CASE TickStarts \/ TickEnds \/ StopMonitoring
        BY <1>0, <3>2 DEF TickStarts, TickEnds, StopMonitoring
      <3>3. CASE PrintTotals \/ Finish \/ FinishFails \/ Teardown
        BY <1>0, <2>6, <3>3 DEF PrintTotals, Finish, FinishFails, Teardown
      <3> QED
        BY <1>3, <3>1, <3>2, <3>3 DEF MainStep
    <2> QED
      BY <2>4, <2>5, <2>7, <2>8, IParts DEF IShutdown
  <1>4. CASE Signal \/ UNCHANGED vars
    <2>1. /\ UNCHANGED <<channels, workerVars, fetcherVars, engineVars>>
          /\ UNCHANGED <<WORKER_FATAL, addCounters, redoCounters, REDO_OUTSTANDING>>
          /\ UNCHANGED <<mpc, workersClean, exitCode, destroyed>>
          /\ RUNNING' \in {RUNNING, FALSE} /\ signalled' \in {signalled, TRUE}
      BY <1>4 DEF Signal, vars, statsVars, flags, mainVars
    <2>2. StatsTypeOK'
      BY <1>0, <2>1 DEF SharedTypeOK, StatsTypeOK, addCounters, redoCounters
    <2>3. SharedTypeOK({})'
      BY <1>0, <2>1, <2>2, SharedUnchanged DEF SharedTypeOK
    <2>4. FetcherTypeOK' /\ results' = NewChannel /\ NoReports'
      BY <1>0, <2>1 DEF FetcherTypeOK, NoReports, fetcherVars, workerVars, channels
    <2>5. OwnTypeOK'
      BY <1>0, <2>1 DEF OwnTypeOK
    <2>6. JoinTrusted'
      BY <1>0, <2>1 DEF JoinTrusted, ThreadsDone, fetcherVars, workerVars
    <2> QED
      BY <2>3, <2>4, <2>5, <2>6, IParts DEF IShutdown
  <1> QED
    BY <1>1, <1>2, <1>3, <1>4 DEF Next, Exited

\* Every variable of the pure redoer keeps its type, and its threads never use
\* the results channel it does not have.
THEOREM TypeCorrect == Spec => []TypeOK
  <1>1. IShutdown => TypeOK
    BY DEF IShutdown, IType
  <1> QED
    BY <1>1, InitOK, NextOK, PTL DEF Spec

\* The native environment is never destroyed under an engine call, neither a
\* worker's nor the fetcher's.
THEOREM NeverDestroyedUnderCall == Spec => []NoDestroyUnderCall
  <1>1. IShutdown => NoDestroyUnderCall
    BY DEF IShutdown, JoinTrusted, NoDestroyUnderCall, ThreadsDone, InAnyCall, InEngine
  <1> QED
    BY <1>1, InitOK, NextOK, PTL DEF Spec

-----------------------------------------------------------------------------
(* The count of redo records *)

ICount == IShutdown /\ RedoInHand /\ OutstandingExact

\* Every step of the process keeps the count exact.
LEMMA NextCount == ICount /\ [Next]_vars => ICount'
  <1> SUFFICES ASSUME ICount, [Next]_vars PROVE RedoInHand' /\ OutstandingExact'
    BY NextOK DEF ICount
  <1>0. SharedTypeOK({}) /\ FetcherTypeOK /\ RedoInHand /\ OutstandingExact
    BY IParts DEF ICount, IShutdown
  <1>1. ASSUME NEW w \in Workers, Worker(w) PROVE RedoInHand' /\ OutstandingExact'
    BY <1>0, <1>1, WorkerStepExact DEF Worker, fetcherVars, RedoAlone
  <1>2. CASE Fetcher
    BY <1>0, <1>2, FetcherStepExact DEF Fetcher
  <1>3. CASE MainStep \/ Signal \/ UNCHANGED vars
    <2>1. UNCHANGED <<pc, held, fpc, REDO_OUTSTANDING, jobs>>
      BY <1>3 DEF MainStep, TickStarts, TickEnds, StopMonitoring, Join, PrintTotals,
                  Finish, FinishFails, Teardown, MainGoto, Signal, vars, channels,
                  workerVars, fetcherVars, statsVars
    <2> QED
      BY <1>0, <2>1, OthersExact
  <1> QED
    BY <1>1, <1>2, <1>3 DEF Next, Exited

\* REDO_OUTSTANDING counts the redo records between the fetch and the end of
\* _process_redo, through every failure: it never drifts.
THEOREM OutstandingIsExact == Spec => []OutstandingExact
  <1>1. Init => ICount
    BY InitOK, InitExact DEF Init, ICount
  <1>2. ICount => OutstandingExact
    BY DEF ICount
  <1> QED
    BY <1>1, <1>2, NextCount, PTL DEF Spec

-----------------------------------------------------------------------------
(* Why it stops *)

Told == signalled \/ WORKER_FATAL

\* Whatever lets a thread end can be traced to a signal or a fatal error.
Traced ==
    /\ ~RUNNING => Told
    /\ fpc \in {"close", "done"} => Told
    /\ jobs.closed => Told
    /\ \A w \in Workers :
          /\ pc[w] \in {"probe2", "done"} => Told
          /\ pc[w] = "settle" /\ act[w] = "FATAL" => WORKER_FATAL
    /\ mpc \notin {"monitor", "tick"} => Told

\* The exit code was computed after the last fatal error.
Reported ==
    mpc \in {"teardown", "exited"} /\ workersClean /\ WORKER_FATAL => exitCode # OK

\* A worker's step keeps the trace.
LEMMA WorkerStepTraced ==
    ASSUME IType, Traced, NEW w \in Workers, WorkerStep(w), UNCHANGED <<fetcherVars, mainVars>>
    PROVE  Traced'
  <1>0. WorkerTypeOK({}) /\ NoReports /\ ~HasLoad
    BY IParts, PureRedoerAssumption DEF SharedTypeOK
  <1>1. held[w].side # "load"
    BY <1>0 DEF WorkerTypeOK, RedoJob, Nothing
  <1>2. /\ WORKER_FATAL => WORKER_FATAL'
        /\ ~RUNNING' => ~RUNNING \/ WORKER_FATAL'
        /\ jobs'.closed = jobs.closed
    <2> USE DEF statsVars, flags, channels
    <2>1. jobs \in Channel({RedoJob})
      BY <1>0 DEF WorkerTypeOK
    <2>2. CASE RedoStep(w)
      <3>1. UNCHANGED <<RUNNING, WORKER_FATAL>>
        BY <2>2 DEF RedoStep, DrainRedo, DrainMiss, DrainEnd, ProcessRedo, SettleRedo
      <3>2. jobs' = jobs \/ (HasItem(jobs) /\ jobs' = Dequeued(jobs))
        BY <2>2 DEF RedoStep, DrainRedo, TakeRedo, DrainMiss, DrainEnd, ProcessRedo,
                    SettleRedo
      <3> QED
        BY <2>1, <3>1, <3>2, DequeuedType
    <2>3. CASE ReportStep(w)
      BY <1>0, <2>3 DEF ReportStep, WorkerFatal, MarkFatal, PutCheck, PutEnqueue, PutFull,
                        NoReports
    <2>4. CASE LoadStep(w) \/ MixedStep(w)
      BY <1>0, <1>1, <2>4 DEF LoadStep, LoopTop, GetLoad, GetNothing, AddRecord, MixedStep,
                              PollHit, PollMiss, NoReports
    <2> QED
      BY <2>2, <2>3, <2>4 DEF WorkerStep
  <1>3. ASSUME NEW v \in Workers
        PROVE  /\ pc'[v] \in {"probe2", "done"} => Told'
               /\ pc'[v] = "settle" /\ act'[v] = "FATAL" => WORKER_FATAL'
    <2> USE DEF Goto, Become, BackToTop, WorkerTypeOK, Traced, Told, statsVars, flags, mainVars
    <2>1. CASE DrainRedo(w)
      BY <1>0, <2>1 DEF DrainRedo, TakeRedo, TakeFrom
    <2>2. CASE DrainMiss(w) \/ DrainEnd(w)
      BY <1>0, <2>2 DEF DrainMiss, LastProbe, DrainEnd
    <2>3. CASE ProcessRedo(w)
      BY <1>0, <2>3 DEF ProcessRedo
    <2>4. CASE SettleRedo(w)
      BY <1>0, <2>4 DEF SettleRedo
    <2>5. CASE WorkerFatal(w)
      BY <1>0, <2>5 DEF WorkerFatal, MarkFatal
    <2>6. ~ (LoadStep(w) \/ MixedStep(w) \/ PutCheck(w) \/ PutEnqueue(w) \/ PutFull(w))
      BY <1>0, <1>1 DEF LoadStep, LoopTop, GetLoad, GetNothing, AddRecord, MixedStep,
                        PollHit, PollMiss, NoReports, PutCheck, PutEnqueue, PutFull
    <2> QED
      BY <2>1, <2>2, <2>3, <2>4, <2>5, <2>6 DEF WorkerStep, RedoStep, ReportStep
  <1> QED
    BY <1>2, <1>3 DEF Traced, Told, fetcherVars, mainVars

\* And the fetcher's.
LEMMA FetcherStepTraced ==
    ASSUME IType, Traced, FetcherStep(FALSE), UNCHANGED mainVars
    PROVE  Traced'
  <1>0. jobs \in Channel({RedoJob}) /\ NoReports /\ ~HasLoad
    BY IParts, PureRedoerAssumption DEF SharedTypeOK, WorkerTypeOK
  <1>1. /\ UNCHANGED <<pc, act, mpc, signalled>>
        /\ WORKER_FATAL => WORKER_FATAL'
        /\ ~RUNNING' => ~RUNNING \/ WORKER_FATAL'
    BY DEF FetcherStep, FetchTop, FetchRecord, FetchEmpty, FetchError, FetchQuiet,
           FetchDrained, FetchGiveUp, FetchPutCheck, FetchEnqueue, FetchFatal, MarkFatal,
           FetchReport, FetchClose, workerVars, mainVars, statsVars, flags
  <1>2. fpc' \in {"close", "done"} => Told'
    BY <1>0, <1>1
    DEF FetcherStep, FetchTop, FetchRecord, FetchEmpty, FetchError, FetchQuiet,
        FetchDrained, FetchGiveUp, PutEnds, FetchPutCheck, FetchEnqueue, FetchFatal,
        MarkFatal, FetchReport, FetchClose, NoReports, Traced, Told
  <1>3. jobs'.closed => Told'
    <2>1. CASE FetchClose
      BY <1>1, <2>1 DEF FetchClose, Traced, Told
    <2>2. CASE ~FetchClose
      <3>1. jobs' = jobs \/ jobs' = Enqueued(jobs, RedoJob)
        BY <2>2
        DEF FetcherStep, FetchTop, FetchRecord, FetchEmpty, FetchError, FetchQuiet,
            FetchDrained, FetchGiveUp, FetchPutCheck, FetchEnqueue, FetchFatal,
            FetchReport, channels
      <3>2. jobs'.closed = jobs.closed
        BY <1>0, <3>1, EnqueuedType
      <3> QED
        BY <1>1, <3>2 DEF Traced, Told
    <2> QED
      BY <2>1, <2>2
  <1> QED
    BY <1>1, <1>2, <1>3 DEF Traced, Told

IStop == IShutdown /\ Traced /\ Reported

\* Every step of the process keeps both.
LEMMA NextStop == IStop /\ [Next]_vars => IStop'
  <1> SUFFICES ASSUME IStop, [Next]_vars PROVE Traced' /\ Reported'
    BY NextOK DEF IStop
  <1>0. /\ IType /\ WorkerTypeOK({}) /\ JoinTrusted /\ Traced /\ Reported
    BY IParts DEF IStop, IShutdown, SharedTypeOK
  <1>1. ASSUME NEW w \in Workers, Worker(w) PROVE Traced' /\ Reported'
    <2>1. pc[w] # "done"
      BY <1>1
      DEF Worker, WorkerStep, LoadStep, LoopTop, GetLoad, GetNothing, AddRecord, RedoStep,
          DrainRedo, DrainMiss, DrainEnd, ProcessRedo, SettleRedo, MixedStep, PollHit,
          PollMiss, ReportStep, WorkerFatal, PutCheck, PutEnqueue, PutFull
    <2>2. Reported'
      BY <1>0, <1>1, <2>1 DEF Worker, mainVars, JoinTrusted, ThreadsDone, Reported
    <2> QED
      BY <1>0, <1>1, <2>2, WorkerStepTraced DEF Worker
  <1>2. CASE Fetcher
    <2>1. Reported'
      BY <1>0, <1>2, FetcherStepQuiet DEF Fetcher, mainVars, JoinTrusted, ThreadsDone, Reported
    <2> QED
      BY <1>0, <1>2, <2>1, FetcherStepTraced DEF Fetcher
  <1>3. CASE MainStep
    <2> USE DEF MainGoto
    <2>1. /\ UNCHANGED <<pc, act, fpc, jobs, WORKER_FATAL, signalled>>
          /\ RUNNING' = RUNNING \/ Told
      <3>1. UNCHANGED <<pc, act, fpc, jobs, WORKER_FATAL, signalled>>
        BY <1>3 DEF MainStep, TickStarts, TickEnds, StopMonitoring, Join, PrintTotals,
                    Finish, FinishFails, Teardown, workerVars, fetcherVars, channels
      <3>2. (\A w \in Workers : pc[w] = "done") => Told
        BY <1>0, WorkersAssumption DEF Traced
      <3>3. RUNNING' = RUNNING \/ Told
        BY <1>0, <1>3, <3>2 DEF MainStep, TickStarts, TickEnds, StopMonitoring, Join,
                                PrintTotals, Finish, FinishFails, Teardown, Traced
      <3> QED
        BY <3>1, <3>3
    <2>2. mpc' \notin {"monitor", "tick"} => Told
      <3>1. (\A w \in Workers : pc[w] = "done") => Told
        BY <1>0, WorkersAssumption DEF Traced
      <3> QED
        BY <1>0, <1>3, <3>1 DEF MainStep, TickStarts, TickEnds, StopMonitoring, Join,
                                PrintTotals, Finish, FinishFails, Teardown, Traced
    <2>3. Reported'
      <3> USE DEF Reported
      <3>1. CASE TickStarts \/ TickEnds \/ StopMonitoring \/ Join \/ PrintTotals
        BY <3>1 DEF TickStarts, TickEnds, StopMonitoring, Join, PrintTotals
      <3>2. CASE Finish \/ FinishFails
        <4>1. exitCode' = FATAL \/ exitCode' = UNCAUGHT \/ ~WORKER_FATAL
          BY <3>2, Zenon DEF Finish, FinishFails
        <4>2. FATAL # OK /\ UNCAUGHT # OK
          BY DEF OK, FATAL, UNCAUGHT
        <4>3. WORKER_FATAL' = WORKER_FATAL
          BY <2>1
        <4> QED
          BY <4>1, <4>2, <4>3, Zenon
      <3>3. CASE Teardown
        BY <1>0, <2>1, <3>3 DEF Teardown
      <3> QED
        BY <1>3, <3>1, <3>2, <3>3 DEF MainStep
    <2> QED
      BY <1>0, <2>1, <2>2, <2>3 DEF Traced, Told
  <1>4. CASE Signal \/ UNCHANGED vars
    <2>1. /\ UNCHANGED <<pc, act, fpc, jobs, WORKER_FATAL, mpc, workersClean, exitCode>>
          /\ (RUNNING' = RUNNING /\ signalled' = signalled) \/ signalled'
      BY <1>4 DEF Signal, vars, workerVars, fetcherVars, channels, statsVars, flags, mainVars
    <2> QED
      BY <1>0, <2>1 DEF Traced, Told, Reported
  <1> QED
    BY <1>1, <1>2, <1>3, <1>4 DEF Next, Exited

\* At the start nothing has stopped.
LEMMA StopTraced == Init => IStop
  <1> SUFFICES ASSUME Init PROVE Traced /\ Reported
    BY InitOK DEF IStop
  <1>1. RUNNING /\ ~WORKER_FATAL
    BY Zenon DEF Init, StatsInit
  <1>2. ~jobs.closed /\ fpc = "top" /\ mpc = "monitor"
    BY PureRedoerAssumption DEF Init, WorkerInit, FetcherInit, NewChannel
  <1>3. \A w \in Workers : pc[w] = "top"
    BY DEF Init, WorkerInit
  <1> QED
    BY <1>1, <1>2, <1>3 DEF Traced, Reported

\* The pure redoer keeps running until a signal or a fatal error stops it, and a
\* fatal error in any of its threads is never exit 0 when all were joined.
THEOREM StopsWhenTold == Spec => []StopsOnlyWhenTold
  <1>1. Init => IStop
    BY StopTraced
  <1>2. IStop => StopsOnlyWhenTold
    BY DEF IStop, Traced, Told, Reported, StopsOnlyWhenTold
  <1> QED
    BY <1>1, <1>2, NextStop, PTL DEF Spec

-----------------------------------------------------------------------------
(* What a stop loses *)

\* The workers that have a record the engine has not answered for, or whose
\* fatal error is not flagged yet.
Pending == {w \in Workers : pc[w] = "call" \/ (pc[w] = "fatal" /\ act[w] = "FATAL")}

InHand == IF fpc \in {"put", "enq"} THEN 1 ELSE 0
Coming == IF fpc = "probe" THEN 1 ELSE 0

\* The records fetched that are nowhere any more.
Kept == Len(jobs.q) + Cardinality(Pending) + InHand
Forgotten == Fetched - Answered - Kept

SomeDone == \E w \in Workers : pc[w] = "done"

\* Without a fatal error the fetcher alone forgets a record, and its last one;
\* once a worker has ended, what is left and may still come is one record.
Accounted ==
    /\ ~WORKER_FATAL =>
          /\ Forgotten \in {0, 1}
          /\ Forgotten = 1 => fpc \in {"close", "done"}
          /\ SomeDone =>
                Len(jobs.q) + InHand + Coming + Forgotten <= 1
    /\ jobs.closed => fpc = "done"
    /\ Told => ~RUNNING

\* The three things a worker's step may do with a record.
Unmoved == UNCHANGED <<jobs, Fetched, Answered>> /\ Pending' = Pending
Takes(w) ==
    /\ UNCHANGED <<Fetched, Answered>>
    /\ HasItem(jobs) /\ jobs' = Dequeued(jobs)
    /\ w \notin Pending /\ Pending' = Pending \union {w}
Finishes(w) ==
    /\ UNCHANGED <<jobs, Fetched>>
    /\ Answered' = Answered + 1
    /\ w \in Pending /\ Pending' = Pending \ {w}

\* A worker that ends without a fatal error found nothing to do.
EndsIdle(w) ==
    SomeDone' =>
        \/ SomeDone
        \/ Unmoved /\ ~HasItem(jobs) /\ (jobs.closed \/ pc[w] = "probe2")

\* The types these counts need.
LEMMA CountTypes ==
    ASSUME IType
    PROVE  /\ Fetched \in Int /\ Answered \in Nat /\ Len(jobs.q) \in Nat
           /\ jobs \in Channel({RedoJob}) /\ jobs.q \in Seq({RedoJob})
           /\ IsFiniteSet(Pending) /\ Cardinality(Pending) \in Nat
           /\ InHand \in {0, 1} /\ Kept \in Int
  <1>1. /\ Fetched \in Int /\ Answered \in Nat
        /\ jobs \in Channel({RedoJob}) /\ jobs.q \in Seq({RedoJob}) /\ Len(jobs.q) \in Nat
    BY IParts, MaxRedoAssumption
    DEF SharedTypeOK, StatsTypeOK, EngineTypeOK, WorkerTypeOK, Channel, Fetched, Answered
  <1>2. Pending \in SUBSET Workers
    BY DEF Pending
  <1>3. IsFiniteSet(Pending) /\ Cardinality(Pending) \in Nat
    BY <1>2, WorkersAssumption, FS_Subset, FS_CardinalityType
  <1>4. InHand \in {0, 1}
    BY DEF InHand
  <1>5. Kept \in Int
    BY <1>1, <1>3, <1>4 DEF Kept
  <1> QED
    BY <1>1, <1>3, <1>4, <1>5

\* What a worker's step does to the counts.
LEMMA WorkerStepMoves ==
    ASSUME IType, Traced, NEW w \in Workers, WorkerStep(w), ~WORKER_FATAL'
    PROVE  (Unmoved \/ Takes(w) \/ Finishes(w)) /\ EndsIdle(w)
  <1>0. WorkerTypeOK({}) /\ NoReports /\ ~HasLoad
    BY IParts, PureRedoerAssumption DEF SharedTypeOK
  <1>1. held[w].side # "load"
    BY <1>0 DEF WorkerTypeOK, RedoJob, Nothing
  <1>2. redoQueue \in Int /\ redoBudget \in Int /\ REDOS_PROCESSED \in Nat /\ REDOS_DROPPED \in Nat
    BY IParts, MaxRedoAssumption DEF SharedTypeOK, StatsTypeOK, EngineTypeOK
  <1> USE DEF Goto, Become, BackToTop, WorkerTypeOK, Pending
  <1>3. CASE DrainRedo(w)
    <2>1. UNCHANGED <<Fetched, Answered>>
      BY <1>3 DEF DrainRedo, Fetched, Answered, statsVars, redoCounters, engineVars
    <2>2. Takes(w)
      BY <1>0, <1>3, <2>1 DEF DrainRedo, TakeRedo, TakeFrom, Takes
    <2>3. EndsIdle(w)
      BY <1>0, <1>3 DEF DrainRedo, TakeRedo, TakeFrom, EndsIdle, SomeDone
    <2> QED
      BY <2>2, <2>3
  <1>4. CASE DrainMiss(w) \/ DrainEnd(w)
    <2>1. UNCHANGED <<Fetched, Answered>>
      BY <1>4 DEF DrainMiss, DrainEnd, Fetched, Answered, statsVars, redoCounters, engineVars
    <2>2. Unmoved
      BY <1>0, <1>4, <2>1 DEF DrainMiss, DrainEnd, Unmoved, channels
    <2>3. EndsIdle(w)
      BY <1>0, <1>4, <2>2 DEF DrainMiss, DrainEnd, ProbeMisses, EndsIdle, SomeDone
    <2> QED
      BY <2>2, <2>3
  <1>5. CASE ProcessRedo(w)
    <2>1. UNCHANGED Fetched
      BY <1>2, <1>5, MaxRedoAssumption
      DEF ProcessRedo, EngineRedo, Cascade, engineVars, Fetched
    <2>2. UNCHANGED jobs
      BY <1>5 DEF ProcessRedo, channels
    <2>3. CASE Goto(w, "fatal") /\ act' = [act EXCEPT ![w] = "FATAL"] /\ UNCHANGED Answered
      <3>1. Pending' = Pending
        BY <1>0, <1>5, <2>3 DEF ProcessRedo
      <3> QED
        BY <1>0, <2>1, <2>2, <2>3, <3>1 DEF Unmoved, EndsIdle, SomeDone
    <2>4. CASE /\ Goto(w, "settle") \/ (Goto(w, "fatal") /\ act' = [act EXCEPT ![w] = "DIED"])
               /\ Answered' = Answered + 1
      <3>1. w \in Pending /\ Pending' = Pending \ {w}
        BY <1>0, <1>5, <2>4 DEF ProcessRedo
      <3>2. EndsIdle(w)
        BY <1>0, <2>4 DEF EndsIdle, SomeDone
      <3> QED
        BY <2>1, <2>2, <2>4, <3>1, <3>2 DEF Finishes
    <2> QED
      BY <1>2, <1>5, <2>3, <2>4 DEF ProcessRedo, Answered, redoCounters
  <1>6. CASE SettleRedo(w)
    <2>1. UNCHANGED <<jobs, Fetched, Answered>>
      BY <1>6 DEF SettleRedo, Fetched, Answered, redoCounters, engineVars, channels
    <2>2. Pending' = Pending
      BY <1>0, <1>6 DEF SettleRedo
    <2>3. act[w] # "FATAL"
      BY <1>6 DEF SettleRedo, flags, Traced
    <2>4. EndsIdle(w)
      BY <1>0, <1>6, <2>3 DEF SettleRedo, EndsIdle, SomeDone
    <2> QED
      BY <2>1, <2>2, <2>4 DEF Unmoved
  <1>7. ~WorkerFatal(w)
    BY DEF WorkerFatal, MarkFatal
  <1>8. ~ (LoadStep(w) \/ MixedStep(w) \/ PutCheck(w) \/ PutEnqueue(w) \/ PutFull(w))
    BY <1>0, <1>1 DEF LoadStep, LoopTop, GetLoad, GetNothing, AddRecord, MixedStep,
                      PollHit, PollMiss, NoReports, PutCheck, PutEnqueue, PutFull
  <1> QED
    BY <1>3, <1>4, <1>5, <1>6, <1>7, <1>8 DEF WorkerStep, RedoStep, ReportStep

\* A worker's step keeps the records accounted for.
LEMMA WorkerStepAccounted ==
    ASSUME IType, Traced, Accounted, NEW w \in Workers, WorkerStep(w),
           UNCHANGED <<fetcherVars, mainVars>>
    PROVE  Accounted'
  <1>0. UNCHANGED <<fpc, signalled>> /\ InHand' = InHand /\ Coming' = Coming
    BY DEF fetcherVars, mainVars, InHand, Coming
  <1>1. InHand \in {0, 1} /\ Coming \in {0, 1}
    BY DEF InHand, Coming
  <1>2. /\ Fetched \in Int /\ Answered \in Nat /\ Len(jobs.q) \in Nat
        /\ jobs \in Channel({RedoJob}) /\ jobs.q \in Seq({RedoJob})
        /\ IsFiniteSet(Pending) /\ Cardinality(Pending) \in Nat /\ Kept \in Int
    BY CountTypes
  <1>3. /\ jobs'.closed = jobs.closed
        /\ UNCHANGED <<RUNNING, WORKER_FATAL>> \/ (WORKER_FATAL' /\ ~RUNNING')
    <2>1. jobs' = jobs \/ (HasItem(jobs) /\ jobs' = Dequeued(jobs))
      BY DEF WorkerStep, LoadStep, LoopTop, GetLoad, GetNothing, AddRecord, RedoStep,
             DrainRedo, DrainMiss, DrainEnd, ProcessRedo, SettleRedo, MixedStep, PollHit,
             PollMiss, ReportStep, WorkerFatal, PutCheck, PutEnqueue, PutFull, TakeLoad,
             TakeRedo, channels
    <2>2. UNCHANGED <<RUNNING, WORKER_FATAL>> \/ (WORKER_FATAL' /\ ~RUNNING')
      BY DEF WorkerStep, LoadStep, LoopTop, GetLoad, GetNothing, AddRecord, RedoStep,
             DrainRedo, DrainMiss, DrainEnd, ProcessRedo, SettleRedo, MixedStep, PollHit,
             PollMiss, ReportStep, WorkerFatal, MarkFatal, PutCheck, PutEnqueue, PutFull,
             statsVars, flags
    <2> QED
      BY <1>2, <2>1, <2>2, DequeuedType
  <1>4. (jobs'.closed => fpc' = "done") /\ (Told' => ~RUNNING')
    BY <1>0, <1>3 DEF Accounted, Told
  <1>5. SUFFICES ASSUME ~WORKER_FATAL'
                 PROVE  /\ Forgotten' \in {0, 1}
                        /\ Forgotten' = 1 => fpc' \in {"close", "done"}
                        /\ SomeDone' =>
                              Len(jobs'.q) + InHand' + Coming' + Forgotten' <= 1
    BY <1>4 DEF Accounted
  <1>6. ~WORKER_FATAL /\ (Unmoved \/ Takes(w) \/ Finishes(w)) /\ EndsIdle(w)
    BY <1>3, <1>5, WorkerStepMoves
  <1>7. /\ Forgotten \in {0, 1} /\ (Forgotten = 1 => fpc \in {"close", "done"})
        /\ SomeDone =>
              Len(jobs.q) + InHand + Coming + Forgotten <= 1
        /\ jobs.closed => fpc = "done"
    BY <1>6 DEF Accounted
  <1>8. Forgotten' = Forgotten /\ Len(jobs'.q) \in Nat /\ Len(jobs'.q) <= Len(jobs.q)
    <2>1. CASE Unmoved
      BY <1>0, <1>2, <2>1 DEF Unmoved, Forgotten, Kept
    <2>2. CASE Takes(w)
      <3>1. jobs'.q = Tail(jobs.q) /\ jobs.q # <<>>
        BY <1>2, <2>2, DequeuedType DEF Takes, HasItem
      <3>2. Len(jobs'.q) = Len(jobs.q) - 1 /\ Len(jobs.q) > 0
        BY <1>2, <3>1
      <3>3. Cardinality(Pending') = Cardinality(Pending) + 1
        BY <1>2, <2>2, FS_AddElement DEF Takes
      <3>4. UNCHANGED <<Fetched, Answered>>
        BY <2>2 DEF Takes
      <3>5. Len(jobs'.q) \in Nat /\ Len(jobs'.q) <= Len(jobs.q)
        BY <1>2, <3>2
      <3>6. Kept' = Kept
        BY <1>0, <1>1, <1>2, <3>2, <3>3 DEF Kept
      <3>7. Forgotten' = Forgotten
        BY <3>4, <3>6 DEF Forgotten
      <3> QED
        BY <3>5, <3>7
    <2>3. CASE Finishes(w)
      <3>1. Cardinality(Pending') = Cardinality(Pending) - 1
        BY <1>2, <2>3, FS_RemoveElement DEF Finishes
      <3>2. UNCHANGED <<jobs, Fetched>> /\ Answered' = Answered + 1
        BY <2>3 DEF Finishes
      <3>3. Kept' = Kept - 1
        BY <1>0, <1>1, <1>2, <3>1, <3>2 DEF Kept
      <3>4. Forgotten' = Forgotten
        BY <1>2, <3>2, <3>3 DEF Forgotten
      <3> QED
        BY <1>2, <3>2, <3>4
    <2> QED
      BY <1>6, <2>1, <2>2, <2>3
  <1>9. ASSUME SomeDone'
        PROVE  Len(jobs'.q) + InHand + Coming + Forgotten <= 1
    <2>1. CASE SomeDone
      BY <1>1, <1>2, <1>7, <1>8, <2>1
    <2>2. CASE ~HasItem(jobs)
      <3>1. Len(jobs'.q) = 0
        BY <1>2, <1>8, <2>2 DEF HasItem
      <3>2. InHand + Coming + Forgotten <= 1
        BY <1>7 DEF InHand, Coming
      <3> QED
        BY <1>1, <1>7, <3>1, <3>2
    <2> QED
      BY <1>6, <1>9, <2>1, <2>2 DEF EndsIdle, SomeDone
  <1> QED
    BY <1>0, <1>7, <1>8, <1>9

\* And the fetcher's.
LEMMA FetcherStepAccounted ==
    ASSUME IType, Traced, Accounted, FetcherStep(FALSE), UNCHANGED mainVars
    PROVE  Accounted'
  <1>1. /\ Fetched \in Int /\ Answered \in Nat /\ Len(jobs.q) \in Nat
        /\ jobs \in Channel({RedoJob}) /\ jobs.q \in Seq({RedoJob})
        /\ Cardinality(Pending) \in Nat /\ Kept \in Int
    BY CountTypes
  <1>2. /\ UNCHANGED <<pc, act, signalled, Answered>> /\ Pending' = Pending
        /\ UNCHANGED <<RUNNING, WORKER_FATAL>> \/ (WORKER_FATAL' /\ ~RUNNING')
    BY DEF FetcherStep, FetchTop, FetchRecord, FetchEmpty, FetchError, FetchQuiet,
           FetchDrained, FetchGiveUp, FetchPutCheck, FetchEnqueue, FetchFatal, MarkFatal,
           FetchReport, FetchClose, workerVars, mainVars, statsVars, flags, redoCounters,
           Answered, Pending
  <1>3. fpc # "done" /\ ~jobs.closed /\ NoReports
    BY IParts, FetcherStepQuiet DEF Accounted
  <1>4. Told' => ~RUNNING'
    BY <1>2 DEF Accounted, Told
  <1>5. jobs'.closed => fpc' = "done"
    <2>1. CASE FetchClose
      BY <2>1 DEF FetchClose
    <2>2. CASE ~FetchClose
      <3>1. jobs' = jobs \/ jobs' = Enqueued(jobs, RedoJob)
        BY <2>2
        DEF FetcherStep, FetchTop, FetchRecord, FetchEmpty, FetchError, FetchQuiet,
            FetchDrained, FetchGiveUp, FetchPutCheck, FetchEnqueue, FetchFatal,
            FetchReport, channels
      <3> QED
        BY <1>1, <1>3, <3>1, EnqueuedType
    <2> QED
      BY <2>1, <2>2
  <1>6. SUFFICES ASSUME ~WORKER_FATAL'
                 PROVE  /\ Forgotten' \in {0, 1}
                        /\ Forgotten' = 1 => fpc' \in {"close", "done"}
                        /\ SomeDone =>
                              Len(jobs'.q) + InHand' + Coming' + Forgotten' <= 1
    <2>1. SomeDone' = SomeDone
      BY <1>2 DEF SomeDone
    <2> QED
      BY <1>4, <1>5, <2>1 DEF Accounted
  <1>7. /\ Forgotten \in {0, 1} /\ (Forgotten = 1 => fpc \in {"close", "done"})
        /\ SomeDone =>
              Len(jobs.q) + InHand + Coming + Forgotten <= 1
        /\ SomeDone => ~RUNNING
    BY <1>2, <1>6 DEF Accounted, Traced, SomeDone
  <1>8. /\ Forgotten' = Fetched' - Answered - Kept'
        /\ Kept' = Len(jobs'.q) + Cardinality(Pending) + InHand'
    BY <1>2 DEF Forgotten, Kept
  <1>9. InHand \in {0, 1} /\ Coming \in {0, 1}
    BY DEF InHand, Coming
  <1>10. CASE FetchTop \/ FetchEmpty \/ FetchError \/ FetchQuiet \/ FetchDrained(FALSE)
              \/ FetchPutCheck
    <2>1. UNCHANGED <<jobs, Fetched>>
      BY <1>10 DEF FetchTop, FetchEmpty, FetchError, FetchQuiet, FetchDrained,
                   FetchPutCheck, channels, engineVars, Fetched
    <2>2. /\ InHand' = InHand /\ Coming' \in {0, 1}
          /\ Coming' = 1 => Coming = 1 \/ RUNNING
          /\ fpc \notin {"close", "done"}
      BY <1>10 DEF FetchTop, FetchEmpty, FetchError, FetchQuiet, FetchDrained,
                   FetchPutCheck, InHand, Coming
    <2>3. Forgotten' = Forgotten
      BY <1>8, <2>1, <2>2 DEF Forgotten, Kept
    <2>4. Forgotten = 0
      BY <1>7, <2>2
    <2> QED
      BY <1>1, <1>7, <1>9, <2>1, <2>2, <2>3, <2>4
  <1>11. CASE FetchRecord
    <2>1. Fetched' = Fetched + 1 /\ UNCHANGED jobs /\ fpc = "probe" /\ fpc' = "put"
      BY <1>11, IParts, MaxRedoAssumption
      DEF FetchRecord, EngineGetRedo, Fetched, SharedTypeOK, EngineTypeOK, channels
    <2>2. InHand = 0 /\ InHand' = 1 /\ Coming = 1 /\ Coming' = 0
      BY <2>1 DEF InHand, Coming
    <2>3. Kept' = Kept + 1
      BY <1>1, <1>8, <2>1, <2>2 DEF Kept
    <2>4. Forgotten' = Forgotten
      BY <1>1, <1>8, <2>1, <2>3 DEF Forgotten
    <2>5. Forgotten = 0
      BY <1>7, <2>1
    <2> QED
      BY <1>1, <1>7, <2>1, <2>2, <2>4, <2>5
  <1>12. CASE FetchGiveUp
    <2>1. UNCHANGED <<jobs, Fetched>> /\ fpc \in {"put", "enq"} /\ fpc' = "close"
      BY <1>12 DEF FetchGiveUp, channels, engineVars, Fetched
    <2>2. InHand = 1 /\ InHand' = 0 /\ Coming = 0 /\ Coming' = 0
      BY <2>1 DEF InHand, Coming
    <2>3. Kept' = Kept - 1
      BY <1>1, <1>8, <2>1, <2>2 DEF Kept
    <2>4. Forgotten' = Forgotten + 1
      BY <1>1, <1>8, <2>1, <2>3 DEF Forgotten
    <2>5. Forgotten = 0
      BY <1>7, <2>1
    <2> QED
      BY <1>1, <1>7, <2>1, <2>2, <2>4, <2>5
  <1>13. CASE FetchEnqueue
    <2>1. jobs'.q = Append(jobs.q, RedoJob)
      BY <1>1, <1>13, EnqueuedType DEF FetchEnqueue
    <2>2. Len(jobs'.q) = Len(jobs.q) + 1
      BY <1>1, <2>1
    <2>3. UNCHANGED Fetched /\ fpc = "enq" /\ fpc' = "top"
      BY <1>13 DEF FetchEnqueue, engineVars, Fetched
    <2>4. InHand = 1 /\ InHand' = 0 /\ Coming = 0 /\ Coming' = 0
      BY <2>3 DEF InHand, Coming
    <2>5. Kept' = Kept
      BY <1>1, <1>8, <2>2, <2>3, <2>4 DEF Kept
    <2>6. Forgotten' = Forgotten
      BY <1>1, <1>8, <2>3, <2>5 DEF Forgotten
    <2>7. Forgotten = 0
      BY <1>7, <2>3
    <2> QED
      BY <1>1, <1>7, <2>2, <2>3, <2>4, <2>6, <2>7
  <1>14. ~FetchFatal /\ ~FetchReport
    BY <1>3, <1>6 DEF FetchFatal, MarkFatal, FetchReport, NoReports
  <1>15. CASE FetchClose
    <2>1. jobs'.q = jobs.q /\ UNCHANGED Fetched /\ fpc = "close" /\ fpc' = "done"
      BY <1>1, <1>15, ClosedType DEF FetchClose, engineVars, Fetched
    <2>2. InHand' = InHand /\ Coming = 0 /\ Coming' = 0
      BY <2>1 DEF InHand, Coming
    <2>3. Forgotten' = Forgotten
      BY <1>8, <2>1, <2>2 DEF Forgotten, Kept
    <2> QED
      BY <1>7, <2>1, <2>2, <2>3
  <1> QED
    BY <1>10, <1>11, <1>12, <1>13, <1>14, <1>15 DEF FetcherStep

ILoss == IStop /\ Accounted

\* Every step of the process keeps the records accounted for.
LEMMA NextLoss == ILoss /\ [Next]_vars => ILoss'
  <1> SUFFICES ASSUME ILoss, [Next]_vars PROVE Accounted'
    BY NextStop DEF ILoss
  <1>0. IType /\ Traced /\ Accounted
    BY DEF ILoss, IStop, IShutdown
  <1>1. ASSUME NEW w \in Workers, Worker(w) PROVE Accounted'
    BY <1>0, <1>1, WorkerStepAccounted DEF Worker
  <1>2. CASE Fetcher
    BY <1>0, <1>2, FetcherStepAccounted DEF Fetcher
  <1>3. CASE MainStep \/ Signal \/ UNCHANGED vars
    <2>1. /\ UNCHANGED <<pc, act, fpc, jobs, WORKER_FATAL, redoCounters, engineVars>>
          /\ RUNNING' = RUNNING \/ ~RUNNING'
          /\ signalled' = signalled \/ ~RUNNING'
      BY <1>3, Zenon DEF MainStep, TickStarts, TickEnds, StopMonitoring, Join,
                         PrintTotals, Finish, FinishFails, Teardown, MainGoto, Signal,
                         vars, workerVars, fetcherVars, channels, statsVars, flags,
                         mainVars
    <2>2. UNCHANGED <<Forgotten, InHand, Coming, SomeDone>>
      BY <2>1 DEF SomeDone, Forgotten, Kept, Fetched, Answered, Pending, InHand, Coming,
                  redoCounters, engineVars
    <2>3. Told' => ~RUNNING'
      BY <1>0, <2>1 DEF Accounted, Told
    <2> QED
      BY <1>0, <2>1, <2>2, <2>3 DEF Accounted
  <1> QED
    BY <1>1, <1>2, <1>3 DEF Next, Exited

\* At the start every record is accounted for.
LEMMA InitLoss == Init => ILoss
  <1> SUFFICES ASSUME Init PROVE IStop /\ Accounted
    BY DEF ILoss
  <1>1. IStop
    BY StopTraced
  <1>2. RUNNING /\ ~WORKER_FATAL /\ ~signalled
    BY Zenon DEF Init, StatsInit
  <1>3. jobs = NewChannel /\ fpc = "top" /\ \A w \in Workers : pc[w] = "top"
    BY PureRedoerAssumption DEF Init, WorkerInit, FetcherInit
  <1>4. Fetched = 0 /\ Answered = 0 /\ Len(jobs.q) = 0 /\ InHand = 0 /\ ~jobs.closed
    BY <1>3, MaxRedoAssumption
    DEF Init, EngineInit, StatsInit, Fetched, Answered, NewChannel, InHand
  <1>5. Pending = {}
    BY <1>3 DEF Pending
  <1>6. Forgotten = 0
    BY <1>4, <1>5, FS_EmptySet DEF Forgotten, Kept
  <1> QED
    BY <1>1, <1>2, <1>3, <1>4, <1>6 DEF Accounted, Told, SomeDone

\* A graceful stop, at whatever instant, loses at most the one record the
\* fetcher has in hand.
THEOREM StopLosesAtMostOne == Spec => []ShutdownLosesAtMostOne
  <1>1. Init => ILoss
    BY InitLoss
  <1>2. ILoss => ShutdownLosesAtMostOne
    <2> SUFFICES ASSUME ILoss, mpc = "exited", workersClean, ~WORKER_FATAL
                 PROVE  Fetched - Answered <= 1
      BY DEF ShutdownLosesAtMostOne, Answered
    <2>0. IType /\ JoinTrusted /\ Accounted
      BY DEF ILoss, IStop, IShutdown
    <2>1. fpc = "done" /\ \A w \in Workers : pc[w] = "done"
      BY <2>0 DEF JoinTrusted, ThreadsDone
    <2>2. Pending = {} /\ InHand = 0 /\ Coming = 0
      BY <2>1 DEF Pending, InHand, Coming
    <2>3. Len(jobs.q) + InHand + Coming + Forgotten <= 1 /\ Forgotten \in {0, 1}
      BY <2>0, <2>1, WorkersAssumption DEF Accounted, SomeDone
    <2>4. Kept = Len(jobs.q)
      BY <2>0, <2>2, CountTypes, FS_EmptySet DEF Kept
    <2>5. /\ Len(jobs.q) \in Nat /\ Fetched - Answered \in Int
          /\ Forgotten \in Int /\ Len(jobs.q) + Forgotten <= 1
      BY <2>0, <2>2, <2>3, CountTypes
    <2>6. Forgotten = Fetched - Answered - Len(jobs.q)
      BY <2>4 DEF Forgotten
    <2> QED
      BY <2>5, <2>6
  <1> QED
    BY <1>1, <1>2, NextLoss, PTL DEF Spec
-----------------------------------------------------------------------------
(* When it sleeps *)

\* The threads of the pure redoer never wait for each other, sleep with a record
\* left only in a call that does not return, and after a stop only in one of the
\* main thread.
THEOREM NeverSleepsOnRedo == Spec => []SleepsOnlyWhenServed
  <1>1. ASSUME ILoss, ICount PROVE SleepsOnlyWhenServed
    <2> SUFFICES ASSUME \A w \in Workers : WorkerWaits(w) \/ (CallsHang /\ InEngine(w)),
                        FetcherWaits \/ (CallsHang /\ fpc = "probe"),
                        MainWaits \/ MainHangs, RUNNING \/ ~MainHangs
                 PROVE  RUNNING /\ (CallsHang \/ (redoQueue = 0 /\ REDO_OUTSTANDING = 0))
      BY DEF SleepsOnlyWhenServed
    <2>1. RUNNING
      <3> SUFFICES ASSUME ~RUNNING PROVE FALSE
        OBVIOUS
      <3>1. ~CallsHang /\ ~ThreadsDone
        BY DEF MainWaits, GraceEnds, CallsHang, Joined
      <3> QED
        BY <3>1 DEF WorkerWaits, FetcherWaits, ThreadsDone
    <2>2. ASSUME ~CallsHang PROVE redoQueue = 0 /\ REDO_OUTSTANDING = 0
      <3>1. fpc # "done" /\ \A w \in Workers : pc[w] = "top" /\ jobs.q = <<>>
        BY <1>1, <2>1, <2>2 DEF ILoss, IStop, Accounted, Traced, WorkerWaits, HasItem
      <3>2. jobs.q = <<>>
        BY <3>1, WorkersAssumption
      <3>3. HasRoom(jobs, JobsRoom)
        BY <3>2, JobsRoomAssumption DEF HasRoom, Capacity
      <3>4. fpc \in {"top", "probe", "quiet?", "loaded?"} /\ redoQueue = 0
        BY <2>2, <3>1, <3>3 DEF FetcherWaits
      <3> DEFINE R == {w \in Workers : held[w].side = "redo"}
      <3>5. R = {} /\ Len(jobs.q) = 0
        BY <1>1, <3>1, <3>2 DEF ICount, RedoInHand
      <3>6. Cardinality(R) = 0
        BY <3>5, FS_EmptySet
      <3>7. REDO_OUTSTANDING = Len(jobs.q) + Cardinality(R) + 0
        BY <1>1, <3>4 DEF ICount, OutstandingExact
      <3> HIDE DEF R
      <3> QED
        BY <3>4, <3>5, <3>6, <3>7
    <2> QED
      BY <2>1, <2>2
  <1>2. Init => ILoss /\ ICount
    BY InitLoss, InitOK, InitExact DEF Init, ICount
  <1> QED
    BY <1>1, <1>2, NextLoss, NextCount, PTL DEF Spec
=============================================================================
