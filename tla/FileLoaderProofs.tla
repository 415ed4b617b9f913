-------------------------- MODULE FileLoaderProofs --------------------------
(***************************************************************************)
(* A file load, for every pool, file and set of faults: what completing a  *)
(* line does to the watermark, type correctness, an engine that is not     *)
(* destroyed under a worker, calls that never return included, the count   *)
(* of redo records, and an exit code that reports every failure.           *)
(***************************************************************************)
EXTENDS FileLoaderProperties, WorkerProofs, WellFoundedInduction

-----------------------------------------------------------------------------
(* What ResumeTracker.complete does to the watermark *)

\* A set of numbers that is not empty has a least element.
LEMMA LeastNumber ==
    ASSUME NEW S \in SUBSET Nat, S # {}
    PROVE  \E n \in S : \A m \in S : n <= m
  <1> DEFINE R == OpToRel(<, Nat)
  <1>1. IsWellFoundedOn(R, Nat)
    BY NatLessThanWellFounded
  <1>2. PICK n \in S : \A m \in S : ~ (<<m, n>> \in R)
    BY <1>1, WFMin
  <1>3. \A m \in S : ~ (m < n)
    BY <1>2 DEF OpToRel
  <1> QED
    BY <1>3

\* FirstMissing finds the first line that is not done: the lines before it
\* are, and it is within the file or just past its end.
LEMMA FirstMissingIsFirst ==
    ASSUME NEW from \in Nat, NEW done \in SUBSET Lines, from <= LastLine + 1
    PROVE  /\ FirstMissing(from, done) \in from..(LastLine + 1)
           /\ FirstMissing(from, done) \notin done
           /\ (from..(FirstMissing(from, done) - 1)) \subseteq done
  <1> DEFINE missing == (from..(LastLine + 1)) \ done
  <1>1. LastLine + 1 \in missing
    BY LinesAssumption DEF Lines
  <1>2. missing \in SUBSET Nat
    BY LinesAssumption
  <1>3. PICK n \in missing : \A m \in missing : n <= m
    BY <1>1, <1>2, LeastNumber
  <1>4. n \in from..(LastLine + 1) /\ n \notin done
    OBVIOUS
  <1>5. (from..(n - 1)) \subseteq done
    <2> SUFFICES ASSUME NEW k \in from..(n - 1) PROVE k \in done
      OBVIOUS
    <2>1. k \in from..(LastLine + 1) /\ ~ (n <= k)
      BY <1>4, LinesAssumption
    <2> QED
      BY <1>3, <2>1
  <1> QED
    BY <1>4, <1>5 DEF FirstMissing

\* Membership in an interval, from the order.
LEMMA InInterval ==
    ASSUME NEW a \in Nat, NEW b \in Nat, NEW l \in Nat, a <= l, l < b
    PROVE  l \in a..(b - 1)
  OBVIOUS

\* Completing a line moves the watermark over lines that are complete and over
\* no other, and leaves the type of the tracker.
LEMMA CompleteAdvances ==
    ASSUME LoadStateTypeOK, NEW line \in Lines \union {0}, Complete(line)
    PROVE  /\ next' \in Nat \ {0}
           /\ next' >= next
           /\ next' # next => next' - 1 \in Lines
           /\ outOfOrder' \subseteq Lines
           /\ outOfOrder' \subseteq outOfOrder \union {line}
           /\ \A l \in Lines : next <= l /\ l < next' => l \in outOfOrder \union {line}
  <1>1. CASE line < next
    <2>1. next' = next /\ outOfOrder' = outOfOrder /\ next \in Nat \ {0}
      BY <1>1 DEF Complete, LoadStateTypeOK, resumeVars
    <2>2. \A l \in Lines : ~ (next <= l /\ l < next)
      BY <2>1, LinesAssumption DEF Lines
    <2> QED
      BY <2>1, <2>2 DEF LoadStateTypeOK
  <1>2. CASE ~ (line < next)
    <2> DEFINE done == outOfOrder \union {line}
    <2>1. line \in Lines /\ next \in Nat \ {0} /\ next <= LastLine + 1
      BY <1>2, LinesAssumption DEF LoadStateTypeOK, Lines
    <2>2. done \in SUBSET Lines
      BY <2>1 DEF LoadStateTypeOK
    <2>3. next' = FirstMissing(next, done) /\ outOfOrder' = {l \in done : l >= next'}
      BY <1>2 DEF Complete
    <2>4. /\ next' \in next..(LastLine + 1)
          /\ (next..(next' - 1)) \subseteq done
      BY <2>1, <2>2, <2>3, FirstMissingIsFirst
    <2>5. /\ next' \in Nat \ {0} /\ next' >= next
          /\ next' # next => next' - 1 \in Lines
      <3>1. PICK n \in next..(LastLine + 1) : n = next'
        BY <2>4
      <3>2. n \in Nat \ {0} /\ n >= next /\ (n # next => n - 1 \in 1..LastLine)
        BY <2>1, LinesAssumption
      <3> QED
        BY <3>1, <3>2 DEF Lines
    <2>6. ASSUME NEW l \in Lines, next <= l, l < next'
          PROVE  l \in done
      <3>1. l \in Nat
        BY <2>6, LinesAssumption DEF Lines
      <3>2. PICK n \in Nat : n = next'
        BY <2>5
      <3>3. next <= l /\ l < n
        BY <2>6, <3>2
      <3>4. l \in next..(n - 1)
        BY <2>1, <3>1, <3>3, InInterval
      <3> QED
        BY <2>4, <3>2, <3>4
    <2> QED
      BY <2>2, <2>3, <2>5, <2>6
  <1> QED
    BY <1>1, <1>2

-----------------------------------------------------------------------------
(* Type correctness *)

\* The type invariant is inductive with two facts about lines in hand: the
\* reader acts on a line of the file, and only such a line has a body.
LinesInHand ==
    /\ rpc \in {"reject", "write", "complete", "put", "enq"} => line_no \in Lines
    /\ outcome.body => outcome.line \in Lines
    /\ cpc = "write" => outcome.body /\ outcome.kind = "REJECT"

IType == TypeOK /\ LinesInHand

\* The parts of the type invariant, one for each group of threads.
OwnTypeOK ==
    /\ LoadStateTypeOK /\ ReaderTypeOK /\ ConsumerTypeOK
    /\ LinesInHand

MainTypeOK ==
    /\ mpc \in {"monitor", "tick", "stats", "closeWork", "joinWorkers", "closeJobs",
                "joinAux", "closeResults", "joinConsumer", "finish", "teardown", "exited"}
    /\ workersClean \in BOOLEAN
    /\ exitCode \in {OK, UNCAUGHT, FATAL}
    /\ destroyed \in BOOLEAN
    /\ signalled \in BOOLEAN

\* The type invariant is the conjunction of those parts.
LEMMA ITypeParts ==
    IType <=> SharedTypeOK(Lines) /\ FetcherTypeOK /\ OwnTypeOK /\ MainTypeOK
  BY DEF IType, TypeOK, SharedTypeOK, OwnTypeOK, MainTypeOK

\* The same of the state after a step.
LEMMA ITypePartsNext ==
    SharedTypeOK(Lines)' /\ FetcherTypeOK' /\ OwnTypeOK' /\ MainTypeOK' => IType'
  BY DEF IType, TypeOK, SharedTypeOK, OwnTypeOK, MainTypeOK

\* A part whose variables do not change still holds.
LEMMA PartsUnchanged ==
    /\ FetcherTypeOK /\ UNCHANGED fetcherVars => FetcherTypeOK'
    /\ MainTypeOK /\ UNCHANGED mainVars => MainTypeOK'
    /\ OwnTypeOK /\ UNCHANGED <<loadStateVars, readerVars, consumerVars>> => OwnTypeOK'
  BY DEF FetcherTypeOK, fetcherVars, MainTypeOK, mainVars, OwnTypeOK, LinesInHand,
         LoadStateTypeOK, loadStateVars, resumeVars, sinkVars, ReaderTypeOK, readerVars,
         ConsumerTypeOK, consumerVars

\* The initial state has the types.
LEMMA InitType == Init => IType
  <1> SUFFICES ASSUME Init PROVE IType
    OBVIOUS
  <1>0. /\ StatsInit /\ EngineInit /\ LoadStateInit
        /\ WorkerInit /\ FetcherInit /\ ReaderInit /\ ConsumerInit /\ MainInit
    BY DEF Init
  <1>1. StatsTypeOK /\ EngineTypeOK(Lines)
    <2>a. RUNNING \in BOOLEAN /\ WORKER_FATAL \in BOOLEAN
      BY <1>0, Zenon DEF StatsInit
    <2>1. StatsTypeOK
      BY <1>0, <2>a DEF StatsInit, StatsTypeOK
    <2>2. PICK r \in 0..MaxRedo : redoQueue = r /\ redoBudget = MaxRedo - r
      BY <1>0 DEF EngineInit
    <2>3. EngineTypeOK(Lines)
      BY <1>0, <2>2, MaxRedoAssumption DEF EngineInit, EngineTypeOK
    <2> QED
      BY <2>1, <2>3
  <1>2. WorkerTypeOK(Lines)
    <2>1. /\ work \in Channel([side : {"load"}, line : Lines])
          /\ jobs \in Channel({RedoJob})
          /\ results \in Channel([line : Lines \union {0},
                                  kind : {"ACK", "REJECT", "FATAL"}])
      BY <1>0, NewChannelType DEF WorkerInit
    <2> QED
      BY <1>0, <2>1 DEF WorkerInit, WorkerTypeOK
  <1>3. FetcherTypeOK /\ MainTypeOK
    BY <1>0 DEF FetcherInit, FetcherTypeOK, MainInit, MainTypeOK
  <1>4. OwnTypeOK
    <2>a. readerDone \in BOOLEAN /\ readError \in BOOLEAN
      BY <1>0, Zenon DEF LoadStateInit, ReaderInit
    <2>b. SkipLines + 1 \in Nat \ {0} /\ 0 \in 0..LastLine
      BY LinesAssumption
    <2>1. LoadStateTypeOK
      BY <1>0, <2>a, <2>b DEF LoadStateInit, LoadStateTypeOK
    <2>2. ReaderTypeOK
      BY <1>0, <2>a, <2>b, FilesAssumption DEF ReaderInit, ReaderTypeOK
    <2>3. ConsumerTypeOK
      BY <1>0 DEF ConsumerInit, ConsumerTypeOK, NoOutcome
    <2>4. LinesInHand
      BY <1>0 DEF ReaderInit, ConsumerInit, NoOutcome, LinesInHand
    <2> QED
      BY <2>1, <2>2, <2>3, <2>4 DEF OwnTypeOK
  <1> QED
    BY <1>1, <1>2, <1>3, <1>4, ITypeParts DEF SharedTypeOK

-----------------------------------------------------------------------------
(* The tracker and the reject file *)

\* Completing a line keeps the tracker's type, whoever completes it.
LEMMA CompleteType ==
    ASSUME LoadStateTypeOK, NEW line \in Lines \union {0}, Complete(line)
    PROVE  next' \in Nat \ {0} /\ outOfOrder' \subseteq Lines
  BY CompleteAdvances

\* Writing a rejected line of the file keeps the types of the sink.
LEMMA WriteType ==
    ASSUME LoadStateTypeOK, NEW line \in Lines, WriteReject(line)
    PROVE  /\ rejectFile' \subseteq Lines
           /\ damaged' \subseteq Lines
           /\ logged' \subseteq Lines
           /\ written' \in Nat
  BY DEF LoadStateTypeOK, WriteReject, WriteFails

-----------------------------------------------------------------------------
(* The steps of the reader and of the consumer *)

\* A reader step keeps the types of all it may change.
LEMMA ReaderStepType ==
    ASSUME SharedTypeOK(Lines), OwnTypeOK, ReaderStep, UNCHANGED consumerVars
    PROVE  SharedTypeOK(Lines)' /\ OwnTypeOK'
  <1> USE DEF SharedTypeOK, OwnTypeOK, LinesInHand, otherThanReader
  <1>0. /\ ConsumerTypeOK'
        /\ (outcome.body => outcome.line \in Lines)'
        /\ (cpc = "write" => outcome.body /\ outcome.kind = "REJECT")'
    BY DEF ConsumerTypeOK, consumerVars
  <1>1. CASE ReadStop
    BY <1>0, <1>1, SharedUnchanged
    DEF ReadStop, LoadStateTypeOK, loadStateVars, resumeVars, sinkVars, ReaderTypeOK
  <1>2. CASE ReadLine
    <2>1. line_no' = line_no + 1 /\ line_no' \in Lines
      BY <1>2, LinesAssumption DEF ReadLine, ReaderTypeOK, Lines
    <2>2. /\ rpc' \in {"read", "reject", "put", "close"}
          /\ readError' \in BOOLEAN
          /\ inFlight' \subseteq Lines
          /\ next' \in Nat \ {0} /\ outOfOrder' \subseteq Lines
      <3>1. CASE line_no + 1 <= SkipLines
        BY <1>2, <3>1 DEF ReadLine, ReaderTypeOK, LoadStateTypeOK, resumeVars
      <3>2. CASE ~ (line_no + 1 <= SkipLines)
        <4>1. PICK line \in Lines : line = line_no + 1
          BY <2>1
        <4>2. Feed(line)
          BY <1>2, <3>2, <4>1 DEF ReadLine
        <4>3. UNCHANGED resumeVars \/ Complete(line)
          BY <4>2 DEF Feed
        <4>4. next' \in Nat \ {0} /\ outOfOrder' \subseteq Lines
          BY <4>3, CompleteType DEF resumeVars, LoadStateTypeOK
        <4>5. inFlight' \subseteq Lines
          BY <4>2 DEF Feed, LoadStateTypeOK
        <4>6. rpc' \in {"read", "reject", "put", "close"} /\ readError' \in BOOLEAN
          BY <4>2 DEF Feed, ReaderTypeOK
        <4> QED
          BY <4>4, <4>5, <4>6
      <3> QED
        BY <3>1, <3>2
    <2>3. ReaderTypeOK' /\ LoadStateTypeOK'
      BY <1>2, <2>1, <2>2
      DEF ReadLine, ReaderTypeOK, LoadStateTypeOK, sinkVars, Lines
    <2> QED
      BY <1>0, <1>2, <2>1, <2>3, SharedUnchanged DEF ReadLine
  <1>3. CASE ReaderReject
    <2>1. line_no \in Lines
      BY <1>3 DEF ReaderReject
    <2>2. StatsTypeOK' /\ LoadStateTypeOK' /\ ReaderTypeOK'
      BY <1>3
      DEF ReaderReject, CountReject, StatsTypeOK, flags, redoCounters, LoadStateTypeOK,
          loadStateVars, resumeVars, sinkVars, ReaderTypeOK
    <2> QED
      BY <1>0, <1>3, <2>1, <2>2, SharedUnchanged DEF ReaderReject
  <1>10. CASE ReaderWrite
    <2>1. line_no \in Lines /\ WriteReject(line_no)
      BY <1>10 DEF ReaderWrite
    <2>2. /\ rejectFile' \subseteq Lines /\ damaged' \subseteq Lines
          /\ logged' \subseteq Lines /\ written' \in Nat
      BY <2>1, WriteType
    <2>3. LoadStateTypeOK' /\ ReaderTypeOK'
      BY <1>10, <2>2
      DEF ReaderWrite, Release, LoadStateTypeOK, resumeVars, ReaderTypeOK
    <2> QED
      BY <1>0, <1>10, <2>1, <2>3, SharedUnchanged DEF ReaderWrite
  <1>11. CASE ReaderWriteHangs
    BY <1>0, <1>11, SharedUnchanged
    DEF ReaderWriteHangs, KeepLock, LoadStateTypeOK, resumeVars, sinkVars, ReaderTypeOK
  <1>4. CASE ReaderComplete
    <2>1. line_no \in Lines /\ Complete(line_no)
      BY <1>4 DEF ReaderComplete
    <2>2. next' \in Nat \ {0} /\ outOfOrder' \subseteq Lines
      BY <2>1, CompleteType
    <2>3. LoadStateTypeOK' /\ ReaderTypeOK'
      BY <1>4, <2>2 DEF ReaderComplete, LoadStateTypeOK, sinkVars, ReaderTypeOK
    <2> QED
      BY <1>0, <1>4, <2>3, SharedUnchanged DEF ReaderComplete
  <1>5. CASE ReaderPutCheck
    BY <1>0, <1>5, SharedUnchanged
    DEF ReaderPutCheck, LoadStateTypeOK, loadStateVars, resumeVars, sinkVars, ReaderTypeOK
  <1>6. CASE ReaderEnqueue
    <2>1. work \in Channel(LoadItems(Lines)) /\ LoadItem(line_no) \in LoadItems(Lines)
      BY <1>6 DEF ReaderEnqueue, WorkerTypeOK, LoadItems, LoadItem
    <2>2. work' \in Channel(LoadItems(Lines))
      BY <1>6, <2>1, EnqueuedType DEF ReaderEnqueue
    <2>3. WorkerTypeOK(Lines)'
      BY <1>6, <2>2 DEF ReaderEnqueue, WorkerTypeOK, LoadItems, workerVars
    <2> QED
      BY <1>0, <1>6, <2>3, SharedUnchanged
      DEF ReaderEnqueue, LoadStateTypeOK, loadStateVars, resumeVars, sinkVars, ReaderTypeOK
  <1>7. CASE ReaderGiveUp
    BY <1>0, <1>7, SharedUnchanged
    DEF ReaderGiveUp, Withdraw, LoadStateTypeOK, resumeVars, sinkVars, ReaderTypeOK
  <1>8. CASE ReaderClose
    <2>1. work' \in Channel(LoadItems(Lines))
      BY <1>8, ClosedType DEF ReaderClose, WorkerTypeOK, LoadItems
    <2>2. WorkerTypeOK(Lines)'
      BY <1>8, <2>1 DEF ReaderClose, WorkerTypeOK, LoadItems, workerVars
    <2> QED
      BY <1>0, <1>8, <2>2, SharedUnchanged
      DEF ReaderClose, LoadStateTypeOK, loadStateVars, resumeVars, sinkVars, ReaderTypeOK
  <1>9. CASE ReaderFinish
    BY <1>0, <1>9, SharedUnchanged
    DEF ReaderFinish, LoadStateTypeOK, resumeVars, sinkVars, ReaderTypeOK
  <1> QED
    BY <1>1, <1>2, <1>3, <1>4, <1>5, <1>6, <1>7, <1>8, <1>9, <1>10, <1>11
    DEF ReaderStep

\* A consumer step keeps the types of all it may change.
LEMMA ConsumerStepType ==
    ASSUME SharedTypeOK(Lines), OwnTypeOK, ConsumerStep, UNCHANGED readerVars
    PROVE  SharedTypeOK(Lines)' /\ OwnTypeOK'
  <1> USE DEF SharedTypeOK, OwnTypeOK, LinesInHand, otherThanConsumer
  <1>0. /\ ReaderTypeOK'
        /\ (rpc \in {"reject", "write", "complete", "put", "enq"} => line_no \in Lines)'
    BY DEF ReaderTypeOK, readerVars
  <1>1. CASE ConsumerGet
    <2>1. results \in Channel(Outcomes(Lines)) /\ HasItem(results)
      BY <1>1 DEF ConsumerGet, WorkerTypeOK, Outcomes
    <2>2. /\ Head(results.q) \in Outcomes(Lines)
          /\ Dequeued(results) \in Channel(Outcomes(Lines))
      BY <2>1, DequeuedType
    <2>3. WorkerTypeOK(Lines)'
      BY <1>1, <2>2 DEF ConsumerGet, WorkerTypeOK, Outcomes, workerVars
    <2>4. PICK o \in Outcomes(Lines) :
             /\ outcome' = [line |-> o.line, kind |-> o.kind, body |-> o.line \in inFlight]
             /\ PopBody(o) /\ PickUp(o)
      BY <1>1, <2>2 DEF ConsumerGet
    <2>5. ConsumerTypeOK' /\ (outcome.body => outcome.line \in Lines)'
      <3>1. (o.line \in inFlight) \in BOOLEAN /\ (o.line \in inFlight => o.line \in Lines)
        BY DEF LoadStateTypeOK
      <3>2. /\ o.line \in Lines \union {0}
            /\ o.kind \in {"ACK", "REJECT", "FATAL", "none"}
        BY DEF Outcomes
      <3>3. cpc' = "settle"
        BY <1>1 DEF ConsumerGet
      <3> QED
        BY <2>4, <3>1, <3>2, <3>3 DEF ConsumerTypeOK
    <2>6. LoadStateTypeOK'
      BY <1>1, <2>4 DEF ConsumerGet, PopBody, PickUp, LoadStateTypeOK, resumeVars, sinkVars
    <2> QED
      BY <1>0, <1>1, <2>3, <2>5, <2>6, SharedUnchanged DEF ConsumerGet
  <1>2. CASE ConsumerClosed
    BY <1>0, <1>2, SharedUnchanged
    DEF ConsumerClosed, ConsumerTypeOK, LoadStateTypeOK, loadStateVars, resumeVars, sinkVars
  <1>3. CASE SettleAck
    <2>1. Complete(outcome.line) /\ outcome.line \in Lines \union {0}
      BY <1>3 DEF SettleAck, ConsumerTypeOK
    <2>2. next' \in Nat \ {0} /\ outOfOrder' \subseteq Lines
      BY <2>1, CompleteType
    <2>3. StatsTypeOK' /\ LoadStateTypeOK' /\ ConsumerTypeOK'
      BY <1>3, <2>2
      DEF SettleAck, StatsTypeOK, flags, redoCounters, LoadStateTypeOK, sinkVars,
          ConsumerTypeOK, NoOutcome
    <2> QED
      BY <1>0, <1>3, <2>3, SharedUnchanged DEF SettleAck, NoOutcome
  <1>4. CASE SettleFails
    <2>a. (WORKER_FATAL \in BOOLEAN)' /\ (RUNNING \in BOOLEAN)'
      BY <1>4, Zenon DEF SettleFails, MarkFatal
    <2>b. (ADDS_PROCESSED \in Nat)'
      BY <1>4 DEF SettleFails, StatsTypeOK
    <2>1. StatsTypeOK'
      BY <1>4, <2>a, <2>b DEF SettleFails, StatsTypeOK, redoCounters
    <2>2. LoadStateTypeOK' /\ ConsumerTypeOK'
      BY <1>4
      DEF SettleFails, LoadStateTypeOK, loadStateVars, resumeVars, sinkVars,
          ConsumerTypeOK, NoOutcome
    <2> QED
      BY <1>0, <1>4, <2>1, <2>2, SharedUnchanged DEF SettleFails, NoOutcome
  <1>5. CASE SettleReject
    <2>1. StatsTypeOK' /\ LoadStateTypeOK' /\ ConsumerTypeOK'
      BY <1>5
      DEF SettleReject, CountReject, StatsTypeOK, flags, redoCounters, LoadStateTypeOK,
          loadStateVars, resumeVars, sinkVars, ConsumerTypeOK
    <2> QED
      BY <1>0, <1>5, <2>1, SharedUnchanged DEF SettleReject
  <1>8. CASE SettleWrite
    <2>1. outcome.line \in Lines /\ WriteReject(outcome.line)
      BY <1>8 DEF SettleWrite
    <2>2. /\ rejectFile' \subseteq Lines /\ damaged' \subseteq Lines
          /\ logged' \subseteq Lines /\ written' \in Nat
      BY <2>1, WriteType
    <2>3. LoadStateTypeOK' /\ ConsumerTypeOK'
      BY <1>8, <2>2
      DEF SettleWrite, Release, LoadStateTypeOK, resumeVars, ConsumerTypeOK
    <2> QED
      BY <1>0, <1>8, <2>3, SharedUnchanged DEF SettleWrite
  <1>9. CASE SettleWriteHangs
    BY <1>0, <1>9, SharedUnchanged
    DEF SettleWriteHangs, KeepLock, LoadStateTypeOK, resumeVars, sinkVars, ConsumerTypeOK
  <1>6. CASE SettleComplete
    <2>1. Complete(outcome.line) /\ outcome.line \in Lines \union {0}
      BY <1>6 DEF SettleComplete, ConsumerTypeOK
    <2>2. next' \in Nat \ {0} /\ outOfOrder' \subseteq Lines
      BY <2>1, CompleteType
    <2>3. LoadStateTypeOK' /\ ConsumerTypeOK'
      BY <1>6, <2>2 DEF SettleComplete, LoadStateTypeOK, sinkVars, ConsumerTypeOK, NoOutcome
    <2> QED
      BY <1>0, <1>6, <2>3, SharedUnchanged DEF SettleComplete, NoOutcome
  <1>7. CASE SettleFatal
    <2>1. LoadStateTypeOK' /\ ConsumerTypeOK'
      BY <1>7
      DEF SettleFatal, LineFailed, LoadStateTypeOK, resumeVars, sinkVars,
          ConsumerTypeOK, NoOutcome
    <2> QED
      BY <1>0, <1>7, <2>1, SharedUnchanged DEF SettleFatal, NoOutcome
  <1> QED
    BY <1>1, <1>2, <1>3, <1>4, <1>5, <1>6, <1>7, <1>8, <1>9 DEF ConsumerStep

-----------------------------------------------------------------------------
(* The main thread, and the whole process *)

\* A step of the main thread closes a channel or sets its own variables.
LEMMA MainStepType ==
    ASSUME IType, MainStep
    PROVE  IType'
  <1> USE DEF othersVars, MainGoto
  <1>1. UNCHANGED <<othersVars, statsVars>> /\ MainTypeOK'
    <2>1. /\ UNCHANGED <<othersVars, statsVars, signalled>>
          /\ mpc' \in {"monitor", "tick", "stats", "closeWork", "joinWorkers", "closeJobs", "joinAux",
                       "closeResults", "joinConsumer", "finish", "teardown", "exited"}
      BY DEF MainStep, TickDue, TickAsks, TickEnds, StopMonitoring, CloseWork,
             JoinWorkers, CloseJobs, JoinAux, CloseResults, JoinConsumer, Finish,
             FinishFails, Teardown
    <2>2. exitCode' \in {OK, UNCAUGHT, FATAL}
      BY ITypeParts
      DEF MainStep, TickDue, TickAsks, TickEnds, StopMonitoring, CloseWork, JoinWorkers,
          CloseJobs, JoinAux, CloseResults, JoinConsumer, Finish, FinishFails, Teardown,
          MainTypeOK
    <2>3. /\ workersClean' = WorkersDone \/ workersClean' = workersClean
          /\ destroyed' = workersClean \/ destroyed' = destroyed
      BY DEF MainStep, TickDue, TickAsks, TickEnds, StopMonitoring, CloseWork,
             JoinWorkers, CloseJobs, JoinAux, CloseResults, JoinConsumer, Finish,
             FinishFails, Teardown, MayDestroy
    <2>4. WorkersDone \in BOOLEAN
      BY DEF WorkersDone
    <2> QED
      BY <2>1, <2>2, <2>3, <2>4, ITypeParts, Zenon DEF MainTypeOK
  <1>2. /\ work' = work \/ work' = Closed(work)
        /\ jobs' = jobs \/ jobs' = Closed(jobs)
        /\ results' = results \/ results' = Closed(results)
    BY DEF MainStep, TickDue, TickAsks, TickEnds, StopMonitoring, CloseWork,
           JoinWorkers, CloseJobs, JoinAux, CloseResults, JoinConsumer, Finish,
           FinishFails, Teardown, channels
  <1>3. WorkerTypeOK(Lines)'
    BY <1>1, <1>2, ITypeParts, ClosedType DEF SharedTypeOK, WorkerTypeOK, workerVars
  <1> QED
    BY <1>1, <1>3, ITypeParts, ITypePartsNext, PartsUnchanged, SharedUnchanged
    DEF SharedTypeOK

\* Every step of the process keeps the type invariant.
LEMMA NextType == IType /\ [Next]_vars => IType'
  <1> SUFFICES ASSUME IType, [Next]_vars PROVE IType'
    OBVIOUS
  <1>0. SharedTypeOK(Lines) /\ FetcherTypeOK /\ OwnTypeOK /\ MainTypeOK
    BY ITypeParts
  <1>1. ASSUME NEW w \in Workers, Worker(w) PROVE IType'
    BY <1>0, <1>1, WorkerStepType, PartsUnchanged, ITypePartsNext DEF Worker
  <1>2. CASE Fetcher
    <2>1. load_complete \in BOOLEAN
      BY DEF load_complete
    <2> QED
      BY <1>0, <1>2, <2>1, FetcherStepType, PartsUnchanged, ITypePartsNext DEF Fetcher
  <1>3. CASE ReaderThread
    <2>1. UNCHANGED fetcherVars
      BY <1>3
      DEF ReaderThread, ReaderStep, ReadStop, ReadLine, ReaderReject, ReaderWrite,
          ReaderWriteHangs, ReaderComplete, ReaderPutCheck, ReaderEnqueue, ReaderGiveUp,
          ReaderClose, ReaderFinish, otherThanReader
    <2> QED
      BY <1>0, <1>3, <2>1, ReaderStepType, PartsUnchanged, ITypePartsNext DEF ReaderThread
  <1>4. CASE Consumer
    <2>1. UNCHANGED fetcherVars
      BY <1>4
      DEF Consumer, ConsumerStep, ConsumerGet, ConsumerClosed, SettleAck, SettleFails,
          SettleReject, SettleWrite, SettleWriteHangs, SettleComplete, SettleFatal,
          otherThanConsumer
    <2> QED
      BY <1>0, <1>4, <2>1, ConsumerStepType, PartsUnchanged, ITypePartsNext DEF Consumer
  <1>5. CASE MainStep
    BY <1>5, MainStepType
  <1>6. CASE Signal
    <2>1. StatsTypeOK'
      BY <1>0, <1>6 DEF Signal, SharedTypeOK, StatsTypeOK, addCounters, redoCounters
    <2>2. MainTypeOK'
      BY <1>0, <1>6 DEF Signal, MainTypeOK
    <2> QED
      BY <1>0, <1>6, <2>1, <2>2, PartsUnchanged, SharedUnchanged, ITypePartsNext
      DEF Signal, othersVars, SharedTypeOK
  <1>7. CASE UNCHANGED vars
    BY <1>0, <1>7, PartsUnchanged, SharedUnchanged, ITypePartsNext DEF vars, SharedTypeOK
  <1> QED
    BY <1>1, <1>2, <1>3, <1>4, <1>5, <1>6, <1>7 DEF Next, Exited

\* Every variable of the process keeps its type in every behaviour: in
\* particular the watermark never leaves the positive numbers, no channel or
\* worker ever holds a line that is not in the file, and the engine never
\* hands out a redo record it does not have.
THEOREM TypeCorrect == Spec => []TypeOK
  <1>1. IType => TypeOK
    BY DEF IType
  <1> QED
    BY <1>1, InitType, NextType, PTL DEF Spec

-----------------------------------------------------------------------------
(* The end *)

\* The join of the workers is trusted only if they had all ended, and a worker
\* that has ended does not start again.
JoinTrusted ==
    /\ ~Monitoring /\ mpc \notin {"closeWork", "joinWorkers"} /\ workersClean => WorkersDone
    /\ destroyed => workersClean /\ mpc = "exited"

\* Nothing is destroyed before the threads start.
LEMMA InitJoinTrusted == Init => JoinTrusted
  BY DEF Init, MainInit, JoinTrusted, Monitoring

\* Every step of the process keeps the join trustworthy.
LEMMA NextJoinTrusted ==
    ASSUME IType, JoinTrusted, [Next]_vars
    PROVE  JoinTrusted'
  <1>0. WorkerTypeOK(Lines)
    BY ITypeParts DEF SharedTypeOK
  <1>1. ASSUME NEW w \in Workers, Worker(w) PROVE JoinTrusted'
    <2>1. WorkerStep(w) /\ UNCHANGED mainVars
      BY <1>1 DEF Worker
    <2>2. WorkersDone => WorkersDone'
      BY <1>0, <2>1, DoneStaysDone DEF WorkersDone
    <2> QED
      BY <2>1, <2>2 DEF JoinTrusted, mainVars, Monitoring
  <1>2. CASE Fetcher \/ ReaderThread \/ Consumer \/ Signal \/ UNCHANGED vars
    <2>1. UNCHANGED <<pc, mpc, workersClean, destroyed>>
      <3>1. CASE Fetcher
        BY <3>1
        DEF Fetcher, FetcherStep, FetchTop, FetchRecord, FetchEmpty, FetchError,
            FetchQuiet, FetchDrained, FetchGiveUp, FetchPutCheck, FetchEnqueue,
            FetchFatal, FetchReport, FetchClose, workerVars, mainVars
      <3>2. CASE ReaderThread
        BY <3>2
        DEF ReaderThread, ReaderStep, ReadStop, ReadLine, ReaderReject, ReaderWrite,
            ReaderWriteHangs, ReaderComplete, ReaderPutCheck, ReaderEnqueue,
            ReaderGiveUp, ReaderClose, ReaderFinish, otherThanReader, workerVars,
            mainVars
      <3>3. CASE Consumer
        BY <3>3
        DEF Consumer, ConsumerStep, ConsumerGet, ConsumerClosed, SettleAck, SettleFails,
            SettleReject, SettleWrite, SettleWriteHangs, SettleComplete, SettleFatal,
            otherThanConsumer, workerVars, mainVars
      <3>4. CASE Signal \/ UNCHANGED vars
        BY <3>4 DEF Signal, othersVars, vars, workerVars, mainVars
      <3> QED
        BY <1>2, <3>1, <3>2, <3>3, <3>4
    <2> QED
      BY <2>1 DEF JoinTrusted, WorkersDone, Monitoring
  <1>3. CASE MainStep
    <2> USE DEF MainGoto, JoinTrusted, Monitoring
    <2>0. WorkersDone' = WorkersDone
      BY <1>3
      DEF MainStep, TickDue, TickAsks, TickEnds, StopMonitoring, CloseWork, JoinWorkers,
          CloseJobs, JoinAux, CloseResults, JoinConsumer, Finish, FinishFails, Teardown,
          othersVars, workerVars, WorkersDone
    <2>1. CASE JoinWorkers
      BY <2>0, <2>1 DEF JoinWorkers
    <2>2. CASE TickDue \/ TickAsks \/ TickEnds \/ StopMonitoring \/ CloseWork
      BY <2>2 DEF TickDue, TickAsks, TickEnds, StopMonitoring, CloseWork
    <2>3. CASE \/ CloseJobs \/ JoinAux \/ CloseResults \/ JoinConsumer
               \/ Finish \/ FinishFails
      BY <2>0, <2>3 DEF CloseJobs, JoinAux, CloseResults, JoinConsumer, Finish, FinishFails
    <2>4. CASE Teardown
      BY <2>0, <2>4 DEF Teardown, MayDestroy
    <2> QED
      BY <1>3, <2>1, <2>2, <2>3, <2>4 DEF MainStep
  <1> QED
    BY <1>1, <1>2, <1>3 DEF Next, Exited

\* The native environment is never destroyed while a worker is inside an engine
\* call, however long the call lasts and however the run ends.
THEOREM NeverDestroyedUnderWorker == Spec => []NoDestroyUnderWorker
  <1>1. Init => IType /\ JoinTrusted
    BY InitType, InitJoinTrusted
  <1>2. IType /\ JoinTrusted /\ [Next]_vars => IType' /\ JoinTrusted'
    BY NextType, NextJoinTrusted
  <1>3. JoinTrusted => NoDestroyUnderWorker
    BY DEF JoinTrusted, WorkersDone, NoDestroyUnderWorker, InEngine, Monitoring
  <1> QED
    BY <1>1, <1>2, <1>3, PTL DEF Spec

-----------------------------------------------------------------------------
(* The count of redo records *)

ICount == IType /\ RedoInHand /\ OutstandingExact

\* Every step of the process keeps the count exact.
LEMMA NextCount == ICount /\ [Next]_vars => ICount'
  <1> SUFFICES ASSUME ICount, [Next]_vars PROVE RedoInHand' /\ OutstandingExact'
    BY NextType DEF ICount
  <1>0. SharedTypeOK(Lines) /\ FetcherTypeOK /\ RedoInHand /\ OutstandingExact
    BY ITypeParts DEF ICount
  <1>1. ASSUME NEW w \in Workers, Worker(w) PROVE RedoInHand' /\ OutstandingExact'
    BY <1>0, <1>1, WorkerStepExact, FileLoaderAssumption DEF Worker, fetcherVars, RedoAlone
  <1>2. CASE Fetcher
    <2>1. load_complete \in BOOLEAN
      BY DEF load_complete
    <2> QED
      BY <1>0, <1>2, <2>1, FetcherStepExact DEF Fetcher
  <1>3. CASE ReaderThread \/ Consumer \/ Signal \/ UNCHANGED vars
    <2>1. UNCHANGED <<pc, held, fpc, REDO_OUTSTANDING, jobs>>
      <3>1. CASE ReaderThread
        BY <3>1
        DEF ReaderThread, ReaderStep, ReadStop, ReadLine, ReaderReject, ReaderWrite,
            ReaderWriteHangs, ReaderComplete, ReaderPutCheck, ReaderEnqueue,
            ReaderGiveUp, ReaderClose, ReaderFinish, otherThanReader, workerVars,
            fetcherVars, channels, statsVars
      <3>2. CASE Consumer
        BY <3>2
        DEF Consumer, ConsumerStep, ConsumerGet, ConsumerClosed, SettleAck, SettleFails,
            SettleReject, SettleWrite, SettleWriteHangs, SettleComplete, SettleFatal,
            otherThanConsumer, workerVars, fetcherVars, channels, statsVars
      <3>3. CASE Signal \/ UNCHANGED vars
        BY <3>3 DEF Signal, vars, othersVars, channels, workerVars, fetcherVars, statsVars
      <3> QED
        BY <1>3, <3>1, <3>2, <3>3
    <2> QED
      BY <1>0, <2>1, OthersExact
  <1>4. CASE MainStep
    <2>1. /\ UNCHANGED <<pc, held, fpc, REDO_OUTSTANDING>>
          /\ jobs' = jobs \/ jobs' = Closed(jobs)
      BY <1>4 DEF MainStep, TickDue, TickAsks, TickEnds, StopMonitoring, CloseWork,
                  JoinWorkers, CloseJobs, JoinAux, CloseResults, JoinConsumer, Finish,
                  FinishFails, Teardown, MainGoto, othersVars, workerVars, fetcherVars,
                  statsVars, channels
    <2>2. jobs'.q = jobs.q
      BY <1>0, <2>1, ClosedType DEF SharedTypeOK, WorkerTypeOK
    <2> QED
      BY <1>0, <2>1, <2>2, OthersExact
  <1> QED
    BY <1>1, <1>2, <1>3, <1>4 DEF Next, Exited

\* REDO_OUTSTANDING counts the redo records between the fetch and the end of
\* _process_redo, through every failure and every interleaving with the load.
THEOREM OutstandingIsExact == Spec => []OutstandingExact
  <1>1. Init => ICount
    BY InitType, InitExact DEF Init, ICount
  <1>2. ICount => OutstandingExact
    BY DEF ICount
  <1> QED
    BY <1>1, <1>2, NextCount, PTL DEF Spec

-----------------------------------------------------------------------------
(* The exit code *)

\* The threads that have ended by the time the main thread is where it is.
AllJoined ==
    /\ ~Monitoring /\ mpc \notin {"closeWork", "joinWorkers"} => WorkersDone
    /\ mpc \in {"closeResults", "joinConsumer", "finish", "teardown", "exited"} => AuxDone
    /\ mpc \in {"finish", "teardown", "exited"} => cpc = "done"

\* The lines that are counted as rejected and about to be written.
Writing == (IF rpc = "write" THEN 1 ELSE 0) + (IF cpc = "write" THEN 1 ELSE 0)

\* A line that went to the log is one that is rejected and not written.
LogCounted == /\ written + Writing <= ADDS_REJECTED
              /\ logged # {} => written + Writing < ADDS_REJECTED

\* The exit code was computed from what every thread has left behind.
CodeIsFinal ==
    mpc \in {"teardown", "exited"} /\ (readError \/ WORKER_FATAL \/ ADDS_REJECTED > written)
        => exitCode \in {UNCAUGHT, FATAL}

IExit == IType /\ AllJoined /\ LogCounted /\ CodeIsFinal

NothingIsSlow == Faults \intersect {"slowEngine", "slowIO"} = {}

\* Every step of the process keeps the count of rejected lines above what is
\* written, and leaves the difference to see.
LEMMA NextLogCounted ==
    ASSUME IType, LogCounted, [Next]_vars
    PROVE  LogCounted'
  <1>0. /\ written \in Nat /\ ADDS_REJECTED \in Nat
        /\ UNCHANGED <<rpc, cpc, written, logged, ADDS_REJECTED>> => LogCounted'
    BY ITypeParts
    DEF OwnTypeOK, SharedTypeOK, StatsTypeOK, LoadStateTypeOK, LogCounted, Writing
  <1>1. ASSUME NEW w \in Workers, Worker(w) PROVE LogCounted'
    BY <1>0, <1>1
    DEF Worker, WorkerStep, LoadStep, LoopTop, GetLoad, GetNothing, AddRecord, RedoStep,
        DrainRedo, DrainMiss, DrainEnd, ProcessRedo, SettleRedo, MixedStep, PollHit,
        PollMiss, ReportStep, WorkerFatal, PutCheck, PutEnqueue, PutFull, readerVars,
        consumerVars, loadStateVars, sinkVars, statsVars, addCounters
  <1>2. CASE Fetcher
    BY <1>0, <1>2
    DEF Fetcher, FetcherStep, FetchTop, FetchRecord, FetchEmpty, FetchError, FetchQuiet,
        FetchDrained, FetchGiveUp, FetchPutCheck, FetchEnqueue, FetchFatal, FetchReport,
        FetchClose, readerVars, consumerVars, loadStateVars, sinkVars, statsVars,
        addCounters
  <1>3. CASE ReaderThread
    <2>1. /\ UNCHANGED cpc
          /\ \/ /\ rpc # "write" /\ rpc' # "write"
                /\ UNCHANGED <<written, logged, ADDS_REJECTED>>
             \/ UNCHANGED <<rpc, written, logged, ADDS_REJECTED>>
             \/ /\ rpc # "write" /\ rpc' = "write" /\ CountReject
                /\ UNCHANGED <<written, logged>>
             \/ /\ rpc = "write" /\ rpc' # "write" /\ WriteReject(line_no)
                /\ UNCHANGED ADDS_REJECTED
      BY <1>3
      DEF ReaderThread, ReaderStep, ReadStop, ReadLine, Feed, ReaderReject, ReaderWrite,
          ReaderWriteHangs, ReaderComplete, ReaderPutCheck, ReaderEnqueue, ReaderGiveUp,
          PutFails, ReaderClose, ReaderFinish, consumerVars, loadStateVars, sinkVars,
          statsVars, addCounters
    <2> QED
      BY <1>0, <2>1 DEF LogCounted, Writing, CountReject, WriteReject, WriteFails
  <1>4. CASE Consumer
    <2>1. /\ UNCHANGED rpc
          /\ \/ /\ cpc # "write" /\ cpc' # "write"
                /\ UNCHANGED <<written, logged, ADDS_REJECTED>>
             \/ UNCHANGED <<cpc, written, logged, ADDS_REJECTED>>
             \/ cpc # "write" /\ CountReject /\ UNCHANGED <<written, logged>>
             \/ /\ cpc = "write" /\ cpc' # "write" /\ WriteReject(outcome.line)
                /\ UNCHANGED ADDS_REJECTED
      BY <1>4
      DEF Consumer, ConsumerStep, ConsumerGet, ConsumerClosed, SettleAck, SettleFails,
          SettleReject, SettleWrite, SettleWriteHangs, SettleComplete, SettleFatal,
          readerVars, loadStateVars, sinkVars, statsVars, addCounters
    <2> QED
      BY <1>0, <2>1 DEF LogCounted, Writing, CountReject, WriteReject, WriteFails
  <1>5. CASE MainStep \/ Signal \/ UNCHANGED vars
    BY <1>0, <1>5
    DEF MainStep, TickDue, TickAsks, TickEnds, StopMonitoring, CloseWork, JoinWorkers,
        CloseJobs, JoinAux, CloseResults, JoinConsumer, Finish, FinishFails, Teardown,
        MainGoto, Signal, vars, othersVars, readerVars, consumerVars, loadStateVars,
        sinkVars, statsVars, addCounters
  <1> QED
    BY <1>1, <1>2, <1>3, <1>4, <1>5 DEF Next, Exited

\* Every step of the process keeps the exit code right.
LEMMA NextExit ==
    ASSUME NothingIsSlow, IExit, [Next]_vars
    PROVE  IExit'
  <1> SUFFICES AllJoined' /\ CodeIsFinal'
    BY NextType, NextLogCounted DEF IExit
  <1>0. AllJoined /\ CodeIsFinal
    BY DEF IExit
  <1>1. ASSUME NEW w \in Workers, Worker(w)
        PROVE  AllJoined' /\ CodeIsFinal'
    <2>1. ~WorkersDone
      BY <1>1
      DEF Worker, WorkerStep, LoadStep, LoopTop, GetLoad, GetNothing, AddRecord, RedoStep,
          DrainRedo, DrainMiss, DrainEnd, ProcessRedo, SettleRedo, MixedStep, PollHit,
          PollMiss, ReportStep, WorkerFatal, PutCheck, PutEnqueue, PutFull, WorkersDone
    <2>2. UNCHANGED mpc
      BY <1>1 DEF Worker, mainVars
    <2> QED
      BY <1>0, <2>1, <2>2 DEF AllJoined, CodeIsFinal, Monitoring
  <1>2. CASE Fetcher
    <2>1. fpc # "done" /\ UNCHANGED <<mpc, pc>>
      BY <1>2
      DEF Fetcher, FetcherStep, FetchTop, FetchRecord, FetchEmpty, FetchError,
          FetchQuiet, FetchDrained, FetchGiveUp, FetchPutCheck, FetchEnqueue,
          FetchFatal, FetchReport, FetchClose, workerVars, mainVars
    <2> QED
      BY <1>0, <2>1 DEF AllJoined, CodeIsFinal, Monitoring, AuxDone, WorkersDone
  <1>3. CASE ReaderThread
    <2>1. rpc # "done" /\ UNCHANGED <<mpc, pc, cpc>>
      BY <1>3
      DEF ReaderThread, ReaderStep, ReadStop, ReadLine, ReaderReject, ReaderWrite,
          ReaderWriteHangs, ReaderComplete, ReaderPutCheck, ReaderEnqueue, ReaderGiveUp,
          PutFails, ReaderClose, ReaderFinish, otherThanReader, workerVars,
          consumerVars, mainVars
    <2> QED
      BY <1>0, <2>1 DEF AllJoined, CodeIsFinal, Monitoring, AuxDone, WorkersDone
  <1>4. CASE Consumer
    <2>1. cpc # "done" /\ UNCHANGED <<mpc, pc, rpc, fpc>>
      BY <1>4
      DEF Consumer, ConsumerStep, ConsumerGet, ConsumerClosed, SettleAck, SettleFails,
          SettleReject, SettleWrite, SettleWriteHangs, SettleComplete, SettleFatal,
          otherThanConsumer, workerVars, fetcherVars, readerVars, mainVars
    <2> QED
      BY <1>0, <2>1 DEF AllJoined, CodeIsFinal, Monitoring, AuxDone, WorkersDone
  <1>5. CASE MainStep
    <2>1. UNCHANGED <<pc, fpc, rpc, cpc, readError, WORKER_FATAL, ADDS_REJECTED, written>>
      BY <1>5
      DEF MainStep, TickDue, TickAsks, TickEnds, StopMonitoring, CloseWork, JoinWorkers,
          CloseJobs, JoinAux, CloseResults, JoinConsumer, Finish, FinishFails, Teardown,
          MainGoto, othersVars, workerVars, fetcherVars, readerVars, consumerVars,
          loadStateVars, sinkVars, statsVars, flags, addCounters
    <2>2. ~SlowCall
      BY DEF NothingIsSlow, SlowCall, SlowFetcher, SlowReader, SlowConsumer, SlowWorker
    <2>3. AllJoined'
      BY <1>0, <1>5, <2>1, <2>2
      DEF MainStep, TickDue, TickAsks, TickEnds, StopMonitoring, CloseWork, JoinWorkers,
          CloseJobs, JoinAux, CloseResults, JoinConsumer, Finish, FinishFails, Teardown,
          MainGoto, Join, AllJoined, Monitoring, WorkersDone, AuxDone
    <2>4. CodeIsFinal'
      BY <1>0, <1>5, <2>1
      DEF MainStep, TickDue, TickAsks, TickEnds, StopMonitoring, CloseWork, JoinWorkers,
          CloseJobs, JoinAux, CloseResults, JoinConsumer, Finish, FinishFails, Teardown,
          MainGoto, CodeIsFinal, Failed
    <2> QED
      BY <2>3, <2>4
  <1>6. CASE Signal \/ UNCHANGED vars
    <2>1. UNCHANGED <<pc, fpc, rpc, cpc, mpc, exitCode, readError, WORKER_FATAL,
                      ADDS_REJECTED, written>>
      BY <1>6
      DEF Signal, vars, mainVars, othersVars, workerVars, fetcherVars, readerVars,
          consumerVars, loadStateVars, sinkVars, statsVars, flags, addCounters
    <2> QED
      BY <1>0, <2>1 DEF AllJoined, CodeIsFinal, Monitoring, WorkersDone, AuxDone
  <1> QED
    BY <1>1, <1>2, <1>3, <1>4, <1>5, <1>6 DEF Next, Exited

\* If every engine and I/O call ends within the shutdown grace, no thread fails
\* after the exit code is computed: a fatal error, an error of the reader and a
\* rejected line that is only in the log each make it other than 0.
THEOREM FailuresAreReported ==
    ASSUME NothingIsSlow
    PROVE  Spec => []FailureIsReported
  <1>1. Init => IExit
    BY InitType
    DEF Init, MainInit, StatsInit, LoadStateInit, IExit, AllJoined, Monitoring,
        LogCounted, Writing, ReaderInit, ConsumerInit, CodeIsFinal
  <1>2. IExit => FailureIsReported
    <2>1. ASSUME IExit, logged # {} PROVE ADDS_REJECTED > written
      BY <2>1, ITypeParts
      DEF IExit, LogCounted, Writing, OwnTypeOK, SharedTypeOK, StatsTypeOK, LoadStateTypeOK
    <2> QED
      BY <2>1 DEF IExit, CodeIsFinal, FailureIsReported
  <1>3. IExit /\ [Next]_vars => IExit'
    BY NextExit
  <1> QED
    BY <1>1, <1>2, <1>3, PTL DEF Spec
=============================================================================
