--------------------------- MODULE ContractProofs ---------------------------
(***************************************************************************)
(* A file load implements LoadContract, for every pool, file and set of    *)
(* faults: every line that is decided is decided by the only thread that   *)
(* has it, and once.  And what a load says of itself at the end is so:     *)
(* exit 0 means the file is loaded, and the totals are the lines loaded    *)
(* and the lines rejected.  And a load that stops without a failure leaves *)
(* nothing decided ahead of the watermark for the next load to repeat.     *)
(***************************************************************************)
EXTENDS WatermarkProofs

-----------------------------------------------------------------------------
(* No line meets two fates *)

\* DecidedOnce by who has the line.
ReaderUndecided ==
    /\ \A l \in Lines : l > line_no => Undecided(l)
    /\ rpc \in {"reject", "write"} => /\ SkipLines < line_no
                                     /\ file[line_no] = "bad"
                                     /\ Undecided(line_no)
    /\ rpc \in {"put", "enq"} => ForPool(line_no) /\ Undecided(line_no)

WorkUndecided ==
    \A i \in DOMAIN work.q : ForPool(work.q[i].line) /\ Undecided(work.q[i].line)

WorkersUndecided == \A w \in Workers : Carried(held[w].line, act[w])

ResultsUndecided ==
    \A i \in DOMAIN results.q : Carried(results.q[i].line, results.q[i].kind)

ConsumerUndecided ==
    cpc \in {"settle", "write"} =>
        /\ Carried(outcome.line, outcome.kind)
        /\ outcome.line # 0 => outcome.line \notin inFlight /\ outcome.line <= line_no

\* DecidedOnce is the conjunction of those parts.
LEMMA DecidedParts ==
    /\ DecidedOnce <=> /\ ReaderUndecided /\ WorkUndecided /\ WorkersUndecided
                       /\ ResultsUndecided /\ ConsumerUndecided
    /\ /\ ReaderUndecided' /\ WorkUndecided' /\ WorkersUndecided'
       /\ ResultsUndecided' /\ ConsumerUndecided'
       => DecidedOnce'
  BY DEF DecidedOnce, ReaderUndecided, WorkUndecided, WorkersUndecided,
         ResultsUndecided, ConsumerUndecided

\* A step that decides no line leaves the lines it does not move as they are.
LEMMA NothingDecided ==
    ASSUME UNCHANGED <<file, db, rejectFile, damaged, logged>>
    PROVE  /\ \A l : Undecided(l)' <=> Undecided(l)
           /\ \A l : ForPool(l)' <=> ForPool(l)
           /\ \A l, kind : Carried(l, kind)' <=> Carried(l, kind)
  BY DEF Undecided, ForPool, Carried

\* A step that decides one line leaves the others undecided.
LEMMA OneDecided ==
    ASSUME NEW d, file' = file,
           (db \union rejectFile \union damaged \union logged)' \subseteq
               db \union rejectFile \union damaged \union logged \union {d}
    PROVE  /\ \A l : l # d /\ Undecided(l) => Undecided(l)'
           /\ \A l : ForPool(l)' <=> ForPool(l)
           /\ \A l, kind : l # d /\ Carried(l, kind) => Carried(l, kind)'
  BY DEF Undecided, ForPool, Carried

\* Deciding a line nobody else has a say in leaves everybody else undecided.
LEMMA DecisionIsAlone ==
    ASSUME Placed, DecidedOnce, line_no \in Nat, NEW d \in Lines, d <= line_no, file' = file,
           (db \union rejectFile \union damaged \union logged)' \subseteq
               db \union rejectFile \union damaged \union logged \union {d},
           d \notin FedLine \union LinesOf(work.q) \union LinesOf(results.q),
           rpc \in {"reject", "write"} => d # line_no \/ rpc' = "complete",
           work'.q = work.q, results'.q = results.q, UNCHANGED line_no,
           rpc' = rpc \/ rpc' = "complete"
    PROVE  ReaderUndecided' /\ WorkUndecided' /\ ResultsUndecided'
  <1>0. /\ \A l : l # d /\ Undecided(l) => Undecided(l)'
        /\ \A l : ForPool(l)' <=> ForPool(l)
        /\ \A l, kind : l # d /\ Carried(l, kind) => Carried(l, kind)'
    BY OneDecided
  <1>1. ReaderUndecided'
    <2>1. \A l \in Lines : l > line_no => l # d
      BY LinesAssumption DEF Lines
    <2>2. rpc \in {"put", "enq"} => line_no # d
      BY DEF FedLine
    <2> QED
      BY <1>0, <2>1, <2>2, DecidedParts DEF ReaderUndecided
  <1>2. WorkUndecided'
    <2>1. \A i \in DOMAIN work.q : work.q[i].line # d
      BY LinesAssumption DEF LinesOf, Lines
    <2> QED
      BY <1>0, <2>1, DecidedParts DEF WorkUndecided
  <1>3. ResultsUndecided'
    <2>1. \A i \in DOMAIN results.q : results.q[i].line # d
      BY LinesAssumption DEF LinesOf, Lines
    <2> QED
      BY <1>0, <2>1, DecidedParts DEF ResultsUndecided
  <1> QED
    BY <1>1, <1>2, <1>3

\* The outcome of results.put leaves a worker what it had, or nothing.
LEMMA AfterPutVerdict ==
    ASSUME WorkerTypeOK(Lines), NEW w \in Workers, AfterPut(w)
    PROVE  \A v \in Workers : held'[v].line = 0 \/ (held'[v] = held[v] /\ act'[v] = act[v])
  BY DEF AfterPut, BackToTop, Become, WorkerTypeOK, Nothing

\* A worker that keeps its line changes its verdict only from none.
HoldsOn ==
    \A v \in Workers : held'[v].line = 0
                         \/ (held'[v] = held[v] /\ (act'[v] = act[v] \/ act[v] # "ACK"))

\* The steps of a worker that decide no line and move none.
LEMMA WorkerHoldsOn ==
    ASSUME WorkerTypeOK(Lines), Acknowledged, NEW w \in Workers,
           \/ LoopTop(w) \/ GetNothing(w) \/ AddRecord(w) \/ DrainMiss(w) \/ DrainEnd(w)
           \/ ProcessRedo(w) \/ SettleRedo(w) \/ PollMiss(w) \/ WorkerFatal(w)
           \/ PutCheck(w) \/ PutFull(w) \/ PutEnqueue(w)
    PROVE  HoldsOn
  <1>1. CASE PutCheck(w) \/ PutFull(w) \/ PutEnqueue(w)
    <2>1. AfterPut(w) \/ UNCHANGED <<held, act>>
      BY <1>1 DEF PutCheck, PutFull, PutEnqueue
    <2> QED
      BY <2>1, AfterPutVerdict DEF HoldsOn
  <1>2. CASE \/ LoopTop(w) \/ GetNothing(w) \/ DrainMiss(w) \/ DrainEnd(w) \/ PollMiss(w)
             \/ WorkerFatal(w)
    BY <1>2 DEF LoopTop, GetNothing, DrainMiss, DrainEnd, PollMiss, WorkerFatal, HoldsOn
  <1>3. CASE AddRecord(w) \/ ProcessRedo(w)
    <2>1. act[w] = "none" /\ held' = held
      BY <1>3 DEF AddRecord, ProcessRedo, Acknowledged
    <2>2. \A v \in Workers \ {w} : act'[v] = act[v]
      BY <1>3 DEF AddRecord, ProcessRedo, Become, WorkerTypeOK
    <2> QED
      BY <2>1, <2>2 DEF HoldsOn
  <1>4. CASE SettleRedo(w)
    BY <1>4 DEF SettleRedo, BackToTop, Become, WorkerTypeOK, Nothing, HoldsOn
  <1> QED
    BY <1>1, <1>2, <1>3, <1>4

\* The reader and the consumer are where they were.
LEMMA OthersUndecided ==
    ASSUME DecidedOnce,
           UNCHANGED <<file, db, rejectFile, damaged, logged, rpc, line_no, inFlight, consumerVars>>
    PROVE  ReaderUndecided' /\ ConsumerUndecided'
  BY NothingDecided, DecidedParts DEF ReaderUndecided, ConsumerUndecided, consumerVars

\* A worker that holds on to a line it has not decided.
LEMMA WorkersHoldOn ==
    ASSUME DecidedOnce, HoldsOn, UNCHANGED <<file, db, rejectFile, damaged, logged>>
    PROVE  WorkersUndecided'
  <1>1. ASSUME NEW v \in Workers PROVE Carried(held[v].line, act[v])'
    <2>1. Carried(held[v].line, act[v])
      BY DecidedParts DEF WorkersUndecided
    <2>2. \/ held'[v].line = 0
          \/ held'[v] = held[v] /\ (act'[v] = act[v] \/ act[v] # "ACK")
      BY DEF HoldsOn
    <2> QED
      BY <2>1, <2>2 DEF Carried, ForPool, Undecided
  <1> QED
    BY <1>1 DEF WorkersUndecided

\* A worker step decides the line it holds when the engine takes it, and no
\* other.
LEMMA WorkerStepUndecided ==
    ASSUME WorkerTypeOK(Lines), line_no \in Nat, Placed, Acknowledged, DecidedOnce,
           NEW w \in Workers, WorkerStep(w),
           UNCHANGED <<file, rpc, line_no, inFlight, rejectFile, damaged, logged, consumerVars>>
    PROVE  DecidedOnce'
  <1>1. CASE AddRecord(w) /\ db' # db
    <2> DEFINE d == held[w].line
    <2>1. /\ db' = db \union {d} /\ act'[w] = "ACK"
          /\ UNCHANGED <<channels, held>>
          /\ \A v \in Workers \ {w} : act'[v] = act[v]
      BY <1>1 DEF AddRecord, EngineAdd, Become, WorkerTypeOK, engineVars
    <2>2. d \in Lines /\ d # 0
      BY <1>1, LinesAssumption DEF AddRecord, WorkerTypeOK, RedoJob, Nothing, Lines
    <2>3. d \in inFlight /\ d <= line_no
      BY <2>2, LinesAssumption DEF Placed, Tracked, Lines
    <2>4. /\ d \notin FedLine \union LinesOf(work.q) \union LinesOf(results.q)
          /\ \A v \in Workers \ {w} : held[v].line # d
      BY <2>2 DEF Placed, Separate
    <2>5. ForPool(d)
      BY <2>2, DecidedParts DEF WorkersUndecided, Carried
    <2>6. rpc \in {"reject", "write"} => d # line_no
      BY <2>5, DecidedParts DEF ReaderUndecided, ForPool
    <2> HIDE DEF d
    <2>7. (db \union rejectFile \union damaged \union logged)' \subseteq
              db \union rejectFile \union damaged \union logged \union {d}
      BY <2>1
    <2>8. ReaderUndecided' /\ WorkUndecided' /\ ResultsUndecided'
      BY <2>1, <2>2, <2>3, <2>4, <2>6, <2>7, DecisionIsAlone DEF channels
    <2>9. WorkersUndecided'
      <3>1. Carried(held[w].line, act[w])'
        BY <2>1, <2>5 DEF Carried, ForPool, d
      <3>2. ASSUME NEW v \in Workers \ {w} PROVE Carried(held[v].line, act[v])'
        BY <2>1, <2>4, <2>7, OneDecided, DecidedParts DEF WorkersUndecided
      <3> QED
        BY <3>1, <3>2 DEF WorkersUndecided
    <2>10. ConsumerUndecided'
      <3>1. outcome.line # d \/ outcome.line = 0 \/ cpc \notin {"settle", "write"}
        BY <2>3, DecidedParts DEF ConsumerUndecided
      <3>2. d # 0
        BY <2>2
      <3> QED
        BY <2>7, <3>1, <3>2, OneDecided, DecidedParts DEF ConsumerUndecided, consumerVars
    <2> QED
      BY <2>8, <2>9, <2>10, DecidedParts
  <1>2. CASE /\ UNCHANGED <<work, results, db>>
             /\ \/ LoopTop(w) \/ GetNothing(w) \/ AddRecord(w) \/ DrainMiss(w) \/ DrainEnd(w)
                \/ ProcessRedo(w) \/ SettleRedo(w) \/ PollMiss(w) \/ WorkerFatal(w)
                \/ PutCheck(w) \/ PutFull(w)
    <2>1. WorkersUndecided'
      BY <1>2, WorkerHoldsOn, WorkersHoldOn
    <2>2. WorkUndecided' /\ ResultsUndecided'
      BY <1>2, NothingDecided, DecidedParts DEF WorkUndecided, ResultsUndecided
    <2> QED
      BY <1>2, <2>1, <2>2, OthersUndecided, DecidedParts
  <1>3. CASE TakeLoad(w) /\ UNCHANGED <<results, act, db>>
    <2>1. work \in Channel(LoadItems(Lines)) /\ HasItem(work)
      BY <1>3 DEF WorkerTypeOK, LoadItems, TakeLoad
    <2>2. /\ work.q \in Seq(LoadItems(Lines)) /\ work.q # <<>>
          /\ work'.q = Tail(work.q)
      BY <1>3, <2>1, DequeuedType DEF TakeLoad, Channel, HasItem
    <2>3. /\ held'[w] = work.q[1] /\ 1 \in DOMAIN work.q
          /\ \A v \in Workers \ {w} : held'[v] = held[v]
          /\ \A i \in DOMAIN work'.q : i + 1 \in DOMAIN work.q /\ work'.q[i] = work.q[i + 1]
      BY <1>3, <2>2, TailElements DEF TakeLoad, TakeFrom, WorkerTypeOK
    <2>4. WorkUndecided'
      BY <1>3, <2>3, NothingDecided, DecidedParts DEF WorkUndecided
    <2>5. WorkersUndecided'
      <3>1. Carried(held[w].line, act[w])'
        BY <1>3, <2>3, DecidedParts DEF WorkUndecided, Carried, ForPool, Undecided
      <3>2. ASSUME NEW v \in Workers \ {w} PROVE Carried(held[v].line, act[v])'
        BY <1>3, <2>3, NothingDecided, DecidedParts DEF WorkersUndecided
      <3> QED
        BY <3>1, <3>2 DEF WorkersUndecided
    <2>6. ResultsUndecided'
      BY <1>3, NothingDecided, DecidedParts DEF ResultsUndecided
    <2> QED
      BY <1>3, <2>4, <2>5, <2>6, OthersUndecided, DecidedParts
  <1>4. CASE TakeRedo(w) /\ UNCHANGED <<work, results, act, db>>
    <2>1. jobs \in Channel({RedoJob}) /\ HasItem(jobs)
      BY <1>4 DEF WorkerTypeOK, TakeRedo
    <2>2. Head(jobs.q) = RedoJob
      BY <2>1, DequeuedType
    <2>3. HoldsOn
      BY <1>4, <2>2 DEF TakeRedo, TakeFrom, WorkerTypeOK, RedoJob, HoldsOn
    <2>4. WorkersUndecided'
      BY <1>4, <2>3, WorkersHoldOn
    <2>5. WorkUndecided' /\ ResultsUndecided'
      BY <1>4, NothingDecided, DecidedParts DEF WorkUndecided, ResultsUndecided
    <2> QED
      BY <1>4, <2>4, <2>5, OthersUndecided, DecidedParts
  <1>5. CASE PutEnqueue(w)
    <2>0. UNCHANGED <<work, db>>
      BY <1>5 DEF PutEnqueue, engineVars
    <2>1. results \in Channel(Outcomes(Lines)) /\ Report(w) \in Outcomes(Lines)
      BY ReportType DEF WorkerTypeOK, Outcomes
    <2>2. results' = Enqueued(results, Report(w)) /\ results.q \in Seq(Outcomes(Lines))
      BY <1>5, <2>1 DEF PutEnqueue, Channel
    <2>3. results'.q = Append(results.q, Report(w))
      BY <2>1, <2>2, EnqueuedType
    <2>4. \A i \in DOMAIN results'.q :
             (i \in DOMAIN results.q /\ results'.q[i] = results.q[i]) \/ results'.q[i] = Report(w)
      BY <2>1, <2>2, <2>3, AppendElements
    <2>5. Carried(Report(w).line, Report(w).kind)
      <3>1. Carried(held[w].line, act[w])
        BY DecidedParts DEF WorkersUndecided
      <3> QED
        BY <3>1 DEF Report, Outcome, Carried
    <2>6. ResultsUndecided'
      BY <2>0, <2>4, <2>5, NothingDecided, DecidedParts DEF ResultsUndecided
    <2>7. WorkersUndecided'
      BY <1>5, <2>0, WorkerHoldsOn, WorkersHoldOn
    <2>8. WorkUndecided'
      BY <2>0, NothingDecided, DecidedParts DEF WorkUndecided
    <2> QED
      BY <2>0, <2>6, <2>7, <2>8, OthersUndecided, DecidedParts
  <1>6. \/ db' # db /\ AddRecord(w)
        \/ db' = db
    BY DEF WorkerStep, LoadStep, LoopTop, GetLoad, GetNothing, AddRecord, RedoStep,
           DrainRedo, DrainMiss, DrainEnd, ProcessRedo, SettleRedo, MixedStep, PollHit,
           PollMiss, ReportStep, WorkerFatal, PutCheck, PutEnqueue, PutFull, engineVars,
           EngineRedo
  <1>7. CASE db' = db
    <2>1. CASE \/ LoopTop(w) \/ GetNothing(w) \/ AddRecord(w) \/ DrainMiss(w) \/ DrainEnd(w)
               \/ ProcessRedo(w) \/ SettleRedo(w) \/ PollMiss(w) \/ WorkerFatal(w)
               \/ PutCheck(w) \/ PutFull(w)
      <3>1. UNCHANGED <<work, results>>
        BY <2>1
        DEF LoopTop, GetNothing, AddRecord, DrainMiss, DrainEnd, ProcessRedo, SettleRedo,
            PollMiss, WorkerFatal, PutCheck, PutFull, channels
      <3> QED
        BY <1>2, <1>7, <2>1, <3>1
    <2>2. CASE GetLoad(w) \/ DrainRedo(w) \/ PollHit(w)
      <3>1. \/ TakeLoad(w) /\ UNCHANGED <<results, act, db>>
            \/ TakeRedo(w) /\ UNCHANGED <<work, results, act, db>>
        BY <1>7, <2>2 DEF GetLoad, DrainRedo, PollHit, TakeRedo
      <3> QED
        BY <1>3, <1>4, <3>1
    <2> QED
      BY <1>5, <2>1, <2>2 DEF WorkerStep, LoadStep, RedoStep, MixedStep, ReportStep
  <1> QED
    BY <1>1, <1>6, <1>7

\* The fetcher puts no outcome of a line.
LEMMA FetcherStepUndecided ==
    ASSUME WorkerTypeOK(Lines), DecidedOnce, NEW complete, FetcherStep(complete),
           UNCHANGED <<file, rpc, line_no, inFlight, rejectFile, damaged, logged, consumerVars>>
    PROVE  DecidedOnce'
  <1>1. UNCHANGED <<work, held, act, db>>
    BY DEF FetcherStep, FetchTop, FetchRecord, FetchEmpty, FetchError, FetchQuiet,
           FetchDrained, FetchGiveUp, FetchPutCheck, FetchEnqueue, FetchFatal,
           FetchReport, FetchClose, EngineGetRedo, workerVars, engineVars, channels
  <1>2. UNCHANGED results \/ results' = Enqueued(results, Outcome(0, "FATAL"))
    BY DEF FetcherStep, FetchTop, FetchRecord, FetchEmpty, FetchError, FetchQuiet,
           FetchDrained, FetchGiveUp, FetchPutCheck, FetchEnqueue, FetchFatal,
           FetchReport, FetchClose, channels
  <1>3. WorkUndecided' /\ WorkersUndecided'
    BY <1>1, NothingDecided, DecidedParts DEF WorkUndecided, WorkersUndecided
  <1>4. ResultsUndecided'
    <2>1. CASE UNCHANGED results
      BY <1>1, <2>1, NothingDecided, DecidedParts DEF ResultsUndecided
    <2>2. CASE results' = Enqueued(results, Outcome(0, "FATAL"))
      <3> DEFINE o == Outcome(0, "FATAL")
      <3>1. results \in Channel(Outcomes(Lines)) /\ o \in Outcomes(Lines)
        BY DEF WorkerTypeOK, Outcomes, Outcome
      <3>2. results.q \in Seq(Outcomes(Lines))
        BY <3>1 DEF Channel
      <3>3. results'.q = Append(results.q, o)
        BY <2>2, <3>1, EnqueuedType
      <3>4. o.line = 0
        BY DEF Outcome
      <3> HIDE DEF o
      <3>5. \A i \in DOMAIN results'.q :
               (i \in DOMAIN results.q /\ results'.q[i] = results.q[i]) \/ results'.q[i] = o
        BY <3>1, <3>2, <3>3, AppendElements
      <3>6. Carried(o.line, o.kind)
        BY <3>4 DEF Carried
      <3> QED
        BY <1>1, <3>5, <3>6, NothingDecided, DecidedParts DEF ResultsUndecided
    <2> QED
      BY <1>2, <2>1, <2>2
  <1> QED
    BY <1>1, <1>3, <1>4, OthersUndecided, DecidedParts

\* A reader step decides the line it rejects, which no one else has.
LEMMA ReaderStepUndecided ==
    ASSUME WorkerTypeOK(Lines), OwnTypeOK, Placed, DecidedOnce, ReaderStep,
           UNCHANGED consumerVars
    PROVE  DecidedOnce'
  <1> USE DEF otherThanReader, workerVars, engineVars, channels, consumerVars
  <1>0. line_no \in Nat
    BY LinesAssumption DEF OwnTypeOK, ReaderTypeOK
  <1>1. UNCHANGED <<file, held, act, results, db>>
    BY DEF ReaderStep, ReadStop, ReadLine, ReaderReject, ReaderWrite, ReaderWriteHangs,
           ReaderComplete, ReaderPutCheck, ReaderEnqueue, ReaderGiveUp, ReaderClose,
           ReaderFinish
  <1>2. CASE ReaderWrite
    <2> DEFINE d == line_no
    <2>1. /\ d \in Lines /\ file[d] = "bad"
          /\ (rejectFile \union damaged \union logged)' \subseteq
                 rejectFile \union damaged \union logged \union {d}
          /\ UNCHANGED <<work, line_no, inFlight>>
          /\ rpc = "write" /\ rpc' = "complete"
      BY <1>2, DecidedParts
      DEF ReaderWrite, WriteReject, WriteFails, OwnTypeOK, LinesInHand,
          ReaderUndecided
    <2>2. \A l : ForPool(l) => l # d
      BY <2>1 DEF ForPool
    <2>3. d \notin FedLine \union LinesOf(work.q) \union LinesOf(results.q)
      <3>1. FedLine = {}
        BY <2>1 DEF FedLine
      <3>2. d \notin LinesOf(work.q)
        BY <2>2, DecidedParts DEF WorkUndecided, LinesOf
      <3>3. d \notin LinesOf(results.q)
        BY <2>2, DecidedParts DEF ResultsUndecided, LinesOf, Carried
      <3> QED
        BY <3>1, <3>2, <3>3
    <2>4. (db \union rejectFile \union damaged \union logged)' \subseteq
              db \union rejectFile \union damaged \union logged \union {d}
      BY <1>1, <2>1
    <2>5. ReaderUndecided' /\ WorkUndecided' /\ ResultsUndecided'
      BY <1>0, <1>1, <2>1, <2>3, <2>4, DecisionIsAlone
    <2>6. \A l, kind : Carried(l, kind) => Carried(l, kind)'
      <3>1. \A l, kind : Carried(l, kind) => l = 0 \/ l # d
        BY <2>2 DEF Carried
      <3>2. \A l, kind : Carried(l, kind) /\ l # d => Carried(l, kind)'
        BY <1>1, <2>4, OneDecided
      <3>3. d # 0
        BY <2>1, LinesAssumption DEF Lines
      <3> QED
        BY <3>1, <3>2, <3>3
    <2>7. WorkersUndecided' /\ ConsumerUndecided'
      BY <1>1, <2>1, <2>6, DecidedParts DEF WorkersUndecided, ConsumerUndecided
    <2> QED
      BY <2>5, <2>7, DecidedParts
  <1>3. CASE ~ ReaderWrite
    <2>1. UNCHANGED <<rejectFile, damaged, logged>>
      BY <1>3
      DEF ReaderStep, ReadStop, ReadLine, ReaderReject, ReaderWriteHangs,
          ReaderComplete, ReaderPutCheck, ReaderEnqueue, ReaderGiveUp, ReaderClose,
          ReaderFinish, loadStateVars, sinkVars
    <2>2. ResultsUndecided' /\ WorkersUndecided'
      BY <1>1, <2>1, NothingDecided, DecidedParts DEF ResultsUndecided, WorkersUndecided
    <2>3. CASE ReadLine
      <3>1. line_no' = line_no + 1 /\ work' = work /\ line_no' \in Lines
        BY <1>0, <2>3, LinesAssumption DEF ReadLine, OwnTypeOK, ReaderTypeOK, Lines
      <3>2. Undecided(line_no')
        BY <1>0, <3>1, DecidedParts DEF ReaderUndecided
      <3>3. /\ inFlight' \subseteq inFlight \union {line_no'}
            /\ rpc' \in {"reject", "write"} =>
                  SkipLines < line_no' /\ file[line_no'] = "bad"
            /\ rpc' \in {"put", "enq"} => ForPool(line_no')
        <4>1. CASE line_no + 1 <= SkipLines
          BY <2>3, <4>1 DEF ReadLine
        <4>2. CASE ~ (line_no + 1 <= SkipLines)
          <5>1. Feed(line_no') /\ SkipLines < line_no'
            BY <1>0, <2>3, <3>1, <4>2, LinesAssumption DEF ReadLine
          <5>2. file[line_no'] \in {"blank", "bad", "poison", "record"}
            BY <3>1, LineKindsAssumption DEF OwnTypeOK, ReaderTypeOK
          <5> QED
            BY <5>1, <5>2 DEF Feed, ForPool
        <4> QED
          BY <4>1, <4>2
      <3>4. ReaderUndecided'
        <4>1. \A l \in Lines : l > line_no' => l > line_no
          BY <1>0, <3>1 DEF Lines
        <4> QED
          BY <1>1, <2>1, <3>2, <3>3, <4>1, NothingDecided, DecidedParts
          DEF ReaderUndecided
      <3>5. WorkUndecided'
        BY <1>1, <2>1, <3>1, NothingDecided, DecidedParts DEF WorkUndecided
      <3>6. ConsumerUndecided'
        <4>1. outcome.line \in Nat
          BY LinesAssumption DEF OwnTypeOK, ConsumerTypeOK, Lines
        <4>2. outcome.line <= line_no => outcome.line <= line_no' /\ outcome.line # line_no'
          BY <1>0, <3>1, <4>1
        <4> QED
          BY <1>1, <2>1, <3>3, <4>2, NothingDecided, DecidedParts DEF ConsumerUndecided
      <3> QED
        BY <2>2, <3>4, <3>5, <3>6, DecidedParts
    <2>4. CASE ~ ReadLine
      <3>1. /\ line_no' = line_no /\ inFlight' \subseteq inFlight
            /\ rpc' \in {"reject", "write"} => rpc \in {"reject", "write"}
            /\ rpc' \in {"put", "enq"} => rpc \in {"put", "enq"}
        BY <1>3, <2>4
        DEF ReaderStep, ReadStop, ReaderReject, ReaderWriteHangs, ReaderComplete,
            ReaderPutCheck, ReaderEnqueue, ReaderGiveUp, ReaderClose, ReaderFinish,
            Withdraw, loadStateVars
      <3>2. ReaderUndecided' /\ ConsumerUndecided'
        BY <1>1, <2>1, <3>1, NothingDecided, DecidedParts
        DEF ReaderUndecided, ConsumerUndecided
      <3>3. WorkUndecided'
        <4>1. CASE ReaderEnqueue
          <5> DEFINE x == LoadItem(line_no)
          <5>1. line_no \in Lines /\ ForPool(line_no) /\ Undecided(line_no)
            BY <4>1, DecidedParts DEF ReaderEnqueue, OwnTypeOK, LinesInHand, ReaderUndecided
          <5>2. work \in Channel(LoadItems(Lines)) /\ x \in LoadItems(Lines) /\ x.line = line_no
            BY <5>1 DEF WorkerTypeOK, LoadItems, LoadItem
          <5>3. work.q \in Seq(LoadItems(Lines)) /\ work' = Enqueued(work, x)
            BY <4>1, <5>2 DEF Channel, ReaderEnqueue
          <5> HIDE DEF x
          <5>4. work'.q = Append(work.q, x)
            BY <5>2, <5>3, EnqueuedType
          <5>5. \A i \in DOMAIN work'.q :
                   (i \in DOMAIN work.q /\ work'.q[i] = work.q[i]) \/ work'.q[i] = x
            BY <5>2, <5>3, <5>4, AppendElements
          <5> QED
            BY <1>1, <2>1, <5>1, <5>2, <5>5, NothingDecided, DecidedParts DEF WorkUndecided
        <4>2. CASE ~ ReaderEnqueue
          <5>1. work' = work \/ work' = Closed(work)
            BY <1>3, <2>4, <4>2
            DEF ReaderStep, ReadStop, ReaderReject, ReaderWriteHangs, ReaderComplete,
                ReaderPutCheck, ReaderGiveUp, ReaderClose, ReaderFinish
          <5>2. work'.q = work.q
            BY <5>1, ClosedType DEF WorkerTypeOK
          <5> QED
            BY <1>1, <2>1, <5>2, NothingDecided, DecidedParts DEF WorkUndecided
        <4> QED
          BY <4>1, <4>2
      <3> QED
        BY <2>2, <3>2, <3>3, DecidedParts
    <2> QED
      BY <2>3, <2>4
  <1> QED
    BY <1>2, <1>3

\* A consumer step decides the line it rejects, which has left every other hand.
LEMMA ConsumerStepUndecided ==
    ASSUME WorkerTypeOK(Lines), OwnTypeOK, Placed, DecidedOnce, ConsumerStep,
           UNCHANGED readerVars
    PROVE  DecidedOnce'
  <1> USE DEF otherThanConsumer, workerVars, engineVars, readerVars, channels
  <1>0. line_no \in Nat
    BY LinesAssumption DEF OwnTypeOK, ReaderTypeOK
  <1>1. UNCHANGED <<file, held, act, work, db, rpc, line_no>>
    BY DEF ConsumerStep, ConsumerGet, ConsumerClosed, SettleAck, SettleFails, SettleReject,
           SettleWrite, SettleWriteHangs, SettleComplete, SettleFatal
  <1>2. CASE ConsumerGet
    <2> DEFINE o == Head(results.q)
    <2>1. results \in Channel(Outcomes(Lines)) /\ HasItem(results)
      BY <1>2 DEF ConsumerGet, WorkerTypeOK, Outcomes
    <2>2. /\ results.q \in Seq(Outcomes(Lines)) /\ results.q # <<>>
          /\ results' = Dequeued(results)
      BY <1>2, <2>1 DEF ConsumerGet, Channel, HasItem
    <2>3. results'.q = Tail(results.q)
      BY <2>1, <2>2, DequeuedType
    <2>4. /\ outcome'.line = o.line /\ outcome'.kind = o.kind
          /\ inFlight' = inFlight \ {o.line}
          /\ UNCHANGED <<rejectFile, damaged, logged>>
      BY <1>2 DEF ConsumerGet, PopBody, sinkVars
    <2>5. o = results.q[1] /\ 1 \in DOMAIN results.q
      BY <2>2, TailElements
    <2>6. \A i \in DOMAIN results'.q :
             i + 1 \in DOMAIN results.q /\ results'.q[i] = results.q[i + 1]
      BY <2>2, <2>3, TailElements
    <2> HIDE DEF o
    <2>7. ResultsUndecided'
      BY <1>1, <2>4, <2>6, NothingDecided, DecidedParts DEF ResultsUndecided
    <2>8. ReaderUndecided' /\ WorkUndecided' /\ WorkersUndecided'
      BY <1>1, <2>4, NothingDecided, DecidedParts
      DEF ReaderUndecided, WorkUndecided, WorkersUndecided
    <2>9. ConsumerUndecided'
      <3>1. Carried(o.line, o.kind)
        BY <2>5, DecidedParts DEF ResultsUndecided
      <3>2. o.line # 0 => o.line \in inFlight
        BY <2>5 DEF Placed, Tracked, LinesOf
      <3>3. o.line # 0 => o.line <= line_no
        <4>1. o.line # 0 => o.line \in 1..line_no
          BY <3>2 DEF Placed, Tracked
        <4> HIDE DEF o
        <4> QED
          BY <1>0, <4>1
      <3> QED
        BY <1>1, <2>4, <3>1, <3>3, NothingDecided DEF ConsumerUndecided
    <2> QED
      BY <2>7, <2>8, <2>9, DecidedParts
  <1>3. CASE SettleWrite
    <2> DEFINE d == outcome.line
    <2>1. /\ d \in Lines
          /\ (rejectFile \union damaged \union logged)' \subseteq
                 rejectFile \union damaged \union logged \union {d}
          /\ UNCHANGED <<results, inFlight>> /\ cpc = "write" /\ cpc' = "complete"
          /\ outcome.kind = "REJECT"
      BY <1>3 DEF SettleWrite, WriteReject, WriteFails, OwnTypeOK, LinesInHand
    <2>2. d # 0
      BY <2>1, LinesAssumption DEF Lines
    <2>3. ForPool(d) /\ d \notin inFlight /\ d <= line_no
      BY <2>1, <2>2, DecidedParts DEF ConsumerUndecided, Carried
    <2>4. /\ d \notin FedLine \union LinesOf(work.q) \union LinesOf(results.q)
          /\ \A w \in Workers : held[w].line = 0 \/ held[w].line # d
      BY <2>3 DEF Placed, Tracked
    <2>5. rpc \in {"reject", "write"} => d # line_no
      BY <2>3, DecidedParts DEF ReaderUndecided, ForPool
    <2> HIDE DEF d
    <2>6. (db \union rejectFile \union damaged \union logged)' \subseteq
              db \union rejectFile \union damaged \union logged \union {d}
      BY <1>1, <2>1
    <2>7. ReaderUndecided' /\ WorkUndecided' /\ ResultsUndecided'
      BY <1>0, <1>1, <2>1, <2>3, <2>4, <2>5, <2>6, DecisionIsAlone
    <2>8. WorkersUndecided'
      BY <1>1, <2>2, <2>4, <2>6, OneDecided, DecidedParts DEF WorkersUndecided
    <2>9. ConsumerUndecided'
      BY <2>1 DEF ConsumerUndecided
    <2> QED
      BY <2>7, <2>8, <2>9, DecidedParts
  <1>4. CASE ~ ConsumerGet /\ ~ SettleWrite
    <2>1. /\ UNCHANGED <<results, rejectFile, damaged, logged>>
          /\ cpc' \in {"settle", "write"} =>
                cpc \in {"settle", "write"} /\ UNCHANGED <<outcome, inFlight>>
      BY <1>4
      DEF ConsumerStep, ConsumerClosed, SettleAck, SettleFails, SettleReject,
          SettleWriteHangs, SettleComplete, SettleFatal, sinkVars, loadStateVars
    <2>2. /\ ReaderUndecided' /\ WorkUndecided' /\ WorkersUndecided'
          /\ ResultsUndecided' /\ ConsumerUndecided'
      BY <1>1, <2>1, NothingDecided, DecidedParts
      DEF ReaderUndecided, WorkUndecided, WorkersUndecided, ResultsUndecided,
          ConsumerUndecided
    <2> QED
      BY <2>2, DecidedParts
  <1> QED
    BY <1>2, <1>3, <1>4

\* Nothing has been decided before the first step.
LEMMA InitUndecided == Init => DecidedOnce
  <1> SUFFICES ASSUME Init PROVE DecidedOnce
    OBVIOUS
  <1>1. /\ work.q = <<>> /\ results.q = <<>>
        /\ \A w \in Workers : held[w].line = 0
        /\ rpc = "read" /\ line_no = 0 /\ cpc = "get"
        /\ db = {} /\ rejectFile = {} /\ damaged = {} /\ logged = {}
    BY DEF Init, WorkerInit, ReaderInit, ConsumerInit, LoadStateInit, EngineInit,
           NewChannel, Nothing
  <1> QED
    BY <1>1 DEF DecidedOnce, Undecided, Carried

\* Every step of the process leaves each line to one decision.
LEMMA NextUndecided ==
    ASSUME IWatermark, DecidedOnce, [Next]_vars
    PROVE  DecidedOnce'
  <1>0. /\ WorkerTypeOK(Lines) /\ OwnTypeOK /\ Placed /\ Acknowledged
        /\ line_no \in Nat
    BY ITypeParts, TracedParts, LinesAssumption
    DEF IWatermark, SharedTypeOK, OwnTypeOK, ReaderTypeOK
  <1>1. ASSUME NEW w \in Workers, Worker(w) PROVE DecidedOnce'
    <2>1. /\ WorkerStep(w)
          /\ UNCHANGED <<file, rpc, line_no, inFlight, rejectFile, damaged, logged, consumerVars>>
      BY <1>1 DEF Worker, readerVars, loadStateVars, sinkVars
    <2> QED
      BY <1>0, <2>1, WorkerStepUndecided
  <1>2. CASE Fetcher
    <2>1. /\ FetcherStep(load_complete)
          /\ UNCHANGED <<file, rpc, line_no, inFlight, rejectFile, damaged, logged, consumerVars>>
      BY <1>2 DEF Fetcher, readerVars, loadStateVars, sinkVars
    <2> QED
      BY <1>0, <2>1, FetcherStepUndecided
  <1>3. CASE ReaderThread
    BY <1>0, <1>3, ReaderStepUndecided DEF ReaderThread
  <1>4. CASE Consumer
    BY <1>0, <1>4, ConsumerStepUndecided DEF Consumer
  <1>5. CASE MainStep \/ Signal \/ UNCHANGED vars
    <2>1. /\ work' = work \/ work' = Closed(work)
          /\ results' = results \/ results' = Closed(results)
          /\ UNCHANGED <<held, act, db, file, rpc, line_no, consumerVars>>
          /\ UNCHANGED <<inFlight, rejectFile, damaged, logged>>
      BY <1>5
      DEF MainStep, TickDue, TickAsks, TickEnds, StopMonitoring, CloseWork, JoinWorkers,
          CloseJobs, JoinAux, CloseResults, JoinConsumer, Finish, FinishFails, Teardown,
          MainGoto, Signal, vars, othersVars, workerVars, readerVars, loadStateVars,
          sinkVars, engineVars, channels
    <2>2. work'.q = work.q /\ results'.q = results.q
      BY <1>0, <2>1, ClosedType DEF WorkerTypeOK
    <2>3. WorkUndecided' /\ WorkersUndecided' /\ ResultsUndecided'
      BY <2>1, <2>2, NothingDecided, DecidedParts
      DEF WorkUndecided, WorkersUndecided, ResultsUndecided
    <2> QED
      BY <2>1, <2>3, OthersUndecided, DecidedParts
  <1> QED
    BY <1>1, <1>2, <1>3, <1>4, <1>5 DEF Next, Exited

\* Nobody decides a line a second time, in any behaviour of any pool over any
\* file: one whose write was short is not decided again either (_feed_line,
\* _process_load, _settle).
THEOREM NoLineDecidedTwice == Spec => []DecidedOnce
  <1>1. Init => IWatermark /\ DecidedOnce
    BY InitType, InitTraced, InitUndecided DEF IWatermark
  <1>2. IWatermark /\ DecidedOnce /\ [Next]_vars => IWatermark' /\ DecidedOnce'
    BY NextType, NextTraced, NextUndecided DEF IWatermark
  <1> QED
    BY <1>1, <1>2, PTL DEF Spec

-----------------------------------------------------------------------------
(* The load implements its contract *)

\* The tracker never falls behind the lines it was told to skip.
IContract == IWatermark /\ DecidedOnce /\ next >= SkipLines + 1

FateOf == [l \in Lines |-> Fate(l)]

\* A step that decides nothing and completes nothing is a stutter.
LEMMA StutterMapped ==
    ASSUME UNCHANGED <<file, db, rejectFile, damaged, logged, next>>
    PROVE  UNCHANGED Contract!contractVars
  <1>1. UNCHANGED FateOf
    BY DEF FateOf, Fate
  <1>2. UNCHANGED Watermark
    BY DEF Watermark
  <1> QED
    BY <1>1, <1>2 DEF Contract!contractVars, FateOf

\* A step that decides one line changes the fate of no other.
LEMMA OneFate ==
    ASSUME NEW d \in Lines, NEW what, Fate(d)' = what,
           \A l \in Lines \ {d} : Fate(l)' = Fate(l)
    PROVE  FateOf' = [FateOf EXCEPT ![d] = what]
  BY DEF FateOf

\* A line the engine takes is loaded.
LEMMA LoadMapped ==
    ASSUME NEW d \in Lines, ForPool(d), Undecided(d), db' = db \union {d},
           UNCHANGED <<file, rejectFile, damaged, logged, next>>
    PROVE  Contract!Load(d)
  <1>1. FateOf' = [FateOf EXCEPT ![d] = "loaded"]
    <2>1. Fate(d)' = "loaded"
      <3>1. d \in db' /\ d \notin rejectFile' \union damaged' \union logged'
        BY DEF Undecided
      <3> QED
        BY <3>1 DEF Fate
    <2>2. \A l \in Lines \ {d} : l \in db' <=> l \in db
      OBVIOUS
    <2>3. \A l \in Lines \ {d} : Fate(l)' = Fate(l)
      BY <2>2 DEF Fate
    <2> QED
      BY <2>1, <2>3, OneFate
  <1>2. UNCHANGED Watermark
    BY DEF Watermark
  <1>3. Fate(d) = "pending"
    BY DEF Fate, Undecided
  <1> QED
    BY <1>1, <1>2, <1>3
    DEF FateOf, ForPool, Contract!Load, Contract!Open, Contract!Meets

\* A line given to the reject file is rejected.
LEMMA RejectMapped ==
    ASSUME NEW d \in Lines, SkipLines < d, Undecided(d),
           file[d] \in {"record", "bad"}, WriteReject(d), UNCHANGED <<file, db, next>>
    PROVE  Contract!RejectLine(d)
  <1>1. \/ FateOf' = [FateOf EXCEPT ![d] = "written"]
        \/ FateOf' = [FateOf EXCEPT ![d] = "logged"]
    <2>1. CASE /\ (rejectFile \union damaged)' = rejectFile \union damaged \union {d}
               /\ logged' = logged
      <3>1. Fate(d)' = "written"
        BY <2>1 DEF Fate, Undecided
      <3>2. \A l \in Lines \ {d} : Fate(l)' = Fate(l)
        BY <2>1 DEF Fate
      <3> QED
        BY <3>1, <3>2, OneFate
    <2>2. CASE logged' = logged \union {d} /\ UNCHANGED <<rejectFile, damaged>>
      <3>1. Fate(d)' = "logged"
        BY <2>2 DEF Fate, Undecided
      <3>2. \A l \in Lines \ {d} : Fate(l)' = Fate(l)
        BY <2>2 DEF Fate
      <3> QED
        BY <3>1, <3>2, OneFate
    <2> QED
      BY <2>1, <2>2 DEF WriteReject, WriteFails
  <1>2. UNCHANGED Watermark
    BY DEF Watermark
  <1>3. Fate(d) = "pending"
    BY DEF Fate, Undecided
  <1> QED
    BY <1>1, <1>2, <1>3
    DEF FateOf, Contract!RejectLine, Contract!Open, Contract!Meets

\* Completing a line moves the watermark over settled lines, or not at all.
LEMMA CompleteMapped ==
    ASSUME IContract, WatermarkSafe', NEW line \in Lines \union {0}, Complete(line),
           UNCHANGED <<file, db, rejectFile, damaged, logged>>
    PROVE  /\ [Contract!LoadNext]_(Contract!contractVars)
           /\ next' >= SkipLines + 1
  <1>0. LoadStateTypeOK /\ next \in Nat \ {0} /\ next >= SkipLines + 1 /\ SkipLines \in Nat
    BY ITypeParts, LinesAssumption DEF IContract, IWatermark, OwnTypeOK, LoadStateTypeOK
  <1>1. /\ next' \in Nat \ {0} /\ next' >= next
        /\ next' # next => next' - 1 \in Lines
    BY <1>0, CompleteAdvances
  <1>2. CASE next' = next
    BY <1>0, <1>2, StutterMapped
  <1>3. CASE next' # next
    <2>1. PICK n \in Lines : n = next' - 1
      BY <1>1, <1>3
    <2>2. next - 1 < n /\ n \in Nat /\ Watermark' = n /\ Watermark = next - 1
      <3>1. PICK m \in Nat \ {0} : m = next'
        BY <1>1
      <3>2. n = m - 1 /\ m >= next /\ m # next
        BY <1>1, <1>3, <2>1, <3>1
      <3>3. next - 1 < n /\ n \in Nat
        BY <1>0, <3>2
      <3> QED
        BY <2>1, <3>3 DEF Watermark
    <2>3. ASSUME NEW l \in (Watermark + 1)..n
          PROVE  l \in Lines /\ (file[l] = "blank" \/ Fate(l) # "pending")
      <3>1. l \in Lines /\ SkipLines < l /\ l <= n
        BY <1>0, <2>1, <2>2, LinesAssumption DEF Lines
      <3>2. Settled(l)'
        BY <2>2, <3>1 DEF WatermarkSafe
      <3>3. Settled(l)
        BY <3>2 DEF Settled
      <3> QED
        BY <3>1, <3>3 DEF Settled, Fate
    <2>4. UNCHANGED FateOf
      BY DEF FateOf, Fate
    <2>5. \A l \in (Watermark + 1)..n : Contract!Settled(l)
      BY <2>3 DEF Contract!Settled, Contract!Lines, Lines
    <2>6. Contract!Advance(n)
      BY <2>2, <2>4, <2>5 DEF Contract!Advance, FateOf
    <2>7. Contract!LoadNext
      BY <2>6 DEF Contract!LoadNext, Contract!Lines, Lines
    <2> QED
      BY <1>0, <1>1, <2>7
  <1> QED
    BY <1>2, <1>3

\* Every step of the process is a step of the contract or a stutter.
LEMMA NextMapped ==
    ASSUME IContract, [Next]_vars
    PROVE  /\ [Contract!LoadNext]_(Contract!contractVars)
           /\ next' >= SkipLines + 1
  <1>0. /\ WorkerTypeOK(Lines) /\ OwnTypeOK /\ Placed /\ Acknowledged /\ Booked
        /\ next >= SkipLines + 1 /\ IWatermark /\ DecidedOnce
    BY ITypeParts, TracedParts DEF IContract, IWatermark, SharedTypeOK
  <1>1. WatermarkSafe'
    BY <1>0, NextTraced DEF LinesTraced
  <1>2. ASSUME UNCHANGED <<file, db, rejectFile, damaged, logged, next>>
        PROVE  /\ [Contract!LoadNext]_(Contract!contractVars)
               /\ next' >= SkipLines + 1
    BY <1>0, <1>2, StutterMapped
  <1>3. ASSUME NEW line \in Lines \union {0}, Complete(line),
               UNCHANGED <<file, db, rejectFile, damaged, logged>>
        PROVE  /\ [Contract!LoadNext]_(Contract!contractVars)
               /\ next' >= SkipLines + 1
    BY <1>1, <1>3, CompleteMapped
  <1>4. ASSUME NEW w \in Workers, Worker(w)
        PROVE  /\ [Contract!LoadNext]_(Contract!contractVars)
               /\ next' >= SkipLines + 1
    <2>1. UNCHANGED <<file, rejectFile, damaged, logged, next>> /\ WorkerStep(w)
      BY <1>4 DEF Worker, readerVars, loadStateVars, resumeVars, sinkVars
    <2>2. db' = db \/ AddRecord(w)
      BY <2>1
      DEF WorkerStep, LoadStep, LoopTop, GetLoad, GetNothing, AddRecord, RedoStep,
          DrainRedo, DrainMiss, DrainEnd, ProcessRedo, SettleRedo, MixedStep, PollHit,
          PollMiss, ReportStep, WorkerFatal, PutCheck, PutEnqueue, PutFull, engineVars,
          EngineRedo
    <2>3. CASE db' = db
      BY <1>2, <2>1, <2>3
    <2>4. CASE AddRecord(w) /\ db' # db
      <3> DEFINE d == held[w].line
      <3>1. d \in Lines /\ d # 0 /\ db' = db \union {d} /\ act[w] = "none"
        BY <1>0, <2>4, LinesAssumption
        DEF AddRecord, EngineAdd, engineVars, WorkerTypeOK, RedoJob, Nothing, Lines,
            Acknowledged
      <3>2. ForPool(d) /\ Undecided(d)
        BY <1>0, <3>1 DEF DecidedOnce, Carried
      <3> HIDE DEF d
      <3>3. Contract!Load(d)
        BY <2>1, <3>1, <3>2, LoadMapped
      <3> QED
        BY <1>0, <2>1, <3>1, <3>3 DEF Contract!LoadNext, Contract!Lines, Lines
    <2> QED
      BY <2>2, <2>3, <2>4
  <1>5. CASE Fetcher
    <2>1. UNCHANGED <<file, rejectFile, damaged, logged, next, db>>
      BY <1>5
      DEF Fetcher, FetcherStep, FetchTop, FetchRecord, FetchEmpty, FetchError, FetchQuiet,
          FetchDrained, FetchGiveUp, FetchPutCheck, FetchEnqueue, FetchFatal,
          FetchReport, FetchClose, EngineGetRedo, engineVars, readerVars, loadStateVars,
          resumeVars, sinkVars
    <2> QED
      BY <1>2, <2>1
  <1>6. CASE ReaderThread
    <2>0. ReaderStep
      BY <1>6 DEF ReaderThread
    <2>1. CASE ReaderWrite
      <3> DEFINE d == line_no
      <3>1. /\ d \in Lines /\ SkipLines < d /\ Undecided(d) /\ file[d] = "bad"
            /\ WriteReject(d) /\ UNCHANGED <<file, db, next>>
        BY <1>0, <2>1
        DEF ReaderWrite, OwnTypeOK, LinesInHand, DecidedOnce, otherThanReader,
            engineVars, resumeVars
      <3>2. Contract!RejectLine(d)
        BY <3>1, RejectMapped
      <3> QED
        BY <1>0, <3>1, <3>2 DEF Contract!LoadNext, Contract!Lines, Lines
    <2>2. CASE ReaderComplete
      BY <1>0, <1>3, <2>2
      DEF ReaderComplete, OwnTypeOK, LinesInHand, otherThanReader, engineVars, sinkVars
    <2>3. CASE ReadLine
      <3>1. UNCHANGED <<file, db, rejectFile, damaged, logged>> /\ line_no + 1 \in Lines
        BY <1>0, <2>3, LinesAssumption
        DEF ReadLine, otherThanReader, engineVars, sinkVars, OwnTypeOK, ReaderTypeOK, Lines
      <3>2. UNCHANGED resumeVars \/ Complete(line_no + 1)
        <4>1. CASE line_no + 1 <= SkipLines
          BY <2>3, <4>1 DEF ReadLine
        <4>2. CASE ~ (line_no + 1 <= SkipLines)
          BY <2>3, <4>2 DEF ReadLine, Feed
        <4> QED
          BY <4>1, <4>2
      <3> QED
        BY <1>2, <1>3, <3>1, <3>2 DEF resumeVars
    <2>4. CASE \/ ReadStop \/ ReaderReject \/ ReaderWriteHangs \/ ReaderPutCheck \/ ReaderEnqueue
               \/ ReaderGiveUp \/ ReaderClose \/ ReaderFinish
      <3>1. UNCHANGED <<file, db, rejectFile, damaged, logged, next>>
        BY <2>4
        DEF ReadStop, ReaderReject, ReaderWriteHangs, ReaderPutCheck, ReaderEnqueue,
            ReaderGiveUp, ReaderClose, ReaderFinish, otherThanReader, engineVars,
            loadStateVars, resumeVars, sinkVars
      <3> QED
        BY <1>2, <3>1
    <2> QED
      BY <2>0, <2>1, <2>2, <2>3, <2>4 DEF ReaderStep
  <1>7. CASE Consumer
    <2>0. ConsumerStep /\ UNCHANGED <<file, db>>
      BY <1>7
      DEF Consumer, ConsumerStep, ConsumerGet, ConsumerClosed, SettleAck, SettleFails,
          SettleReject, SettleWrite, SettleWriteHangs, SettleComplete, SettleFatal,
          otherThanConsumer, engineVars, readerVars
    <2>1. CASE SettleWrite
      <3> DEFINE d == outcome.line
      <3>1. /\ d \in Lines /\ d # 0 /\ WriteReject(d) /\ next' = next
            /\ cpc = "write" /\ outcome.kind = "REJECT"
        BY <1>0, <2>1, LinesAssumption
        DEF SettleWrite, OwnTypeOK, LinesInHand, resumeVars, Lines
      <3>2. ForPool(d) /\ Undecided(d)
        BY <1>0, <3>1 DEF DecidedOnce, Carried
      <3> HIDE DEF d
      <3>3. Contract!RejectLine(d)
        BY <2>0, <3>1, <3>2, RejectMapped DEF ForPool
      <3> QED
        BY <1>0, <3>1, <3>3 DEF Contract!LoadNext, Contract!Lines, Lines
    <2>2. CASE SettleAck \/ SettleComplete
      <3>1. /\ Complete(outcome.line) /\ UNCHANGED <<rejectFile, damaged, logged>>
            /\ outcome.line \in Lines \union {0}
        BY <1>0, <2>2 DEF SettleAck, SettleComplete, sinkVars, OwnTypeOK, ConsumerTypeOK
      <3> QED
        BY <1>3, <2>0, <3>1
    <2>3. CASE \/ ConsumerGet \/ ConsumerClosed \/ SettleFails \/ SettleFatal
               \/ SettleReject \/ SettleWriteHangs
      <3>1. UNCHANGED <<rejectFile, damaged, logged, next>>
        BY <2>3
        DEF ConsumerGet, PickUp, ConsumerClosed, SettleFails, SettleFatal, LineFailed,
            SettleReject, SettleWriteHangs, loadStateVars, resumeVars, sinkVars
      <3> QED
        BY <1>2, <2>0, <3>1
    <2> QED
      BY <2>0, <2>1, <2>2, <2>3 DEF ConsumerStep
  <1>8. CASE MainStep \/ Signal \/ UNCHANGED vars
    <2>1. UNCHANGED <<file, db, rejectFile, damaged, logged, next>>
      BY <1>8
      DEF MainStep, TickDue, TickAsks, TickEnds, StopMonitoring, CloseWork, JoinWorkers,
          CloseJobs, JoinAux, CloseResults, JoinConsumer, Finish, FinishFails, Teardown,
          MainGoto, Signal, vars, othersVars, readerVars, loadStateVars, resumeVars,
          sinkVars, engineVars
    <2> QED
      BY <1>2, <2>1
  <1> QED
    BY <1>4, <1>5, <1>6, <1>7, <1>8 DEF Next, Exited

\* The first state is one of the contract.
LEMMA InitMapped == Init => Contract!Init
  <1> SUFFICES ASSUME Init PROVE Contract!Init
    OBVIOUS
  <1>1. /\ file \in [Lines -> LineKinds] /\ Watermark = SkipLines
        /\ db = {} /\ rejectFile = {} /\ damaged = {} /\ logged = {}
    BY LinesAssumption, FilesAssumption
    DEF Init, ReaderInit, LoadStateInit, EngineInit, Watermark
  <1>2. FateOf = [l \in Lines |-> "pending"]
    BY <1>1 DEF FateOf, Fate
  <1> QED
    BY <1>1, <1>2, LinesAssumption DEF Contract!Init, Contract!Lines, Lines, FateOf

\* All the threads, channels and counters of a load amount to the contract,
\* whatever the pool, the file and the faults.
THEOREM LoadImplementsContract == Spec => ImplementsContract
  <1>1. Init => IContract
    BY InitType, InitTraced, InitUndecided, LinesAssumption
    DEF IContract, IWatermark, Init, LoadStateInit
  <1>2. IContract /\ [Next]_vars => IContract'
    BY NextType, NextTraced, NextUndecided, NextMapped DEF IContract, IWatermark
  <1>3. IContract /\ [Next]_vars => [Contract!LoadNext]_(Contract!contractVars)
    BY NextMapped
  <1> QED
    BY <1>1, <1>2, <1>3, InitMapped, PTL DEF Spec, ImplementsContract, Contract!Spec

-----------------------------------------------------------------------------
(* When the process exits with 0 *)

\* A side is over: nobody puts on its channel any more, and nothing is left there.
LoadOver == rpc \in {"finish", "done"} /\ work.q = <<>>
RedoOver == fpc = "done" /\ jobs.q = <<>>

\* A worker of a run that nothing has disturbed: it reports no failure, and it
\* turns from a side, or ends, only when that side is over.
Orderly(w) ==
    /\ pc[w] \in {"put", "enq", "settle"} => act[w] \in {"ACK", "REJECT"}
    /\ "load" \notin open[w] => LoadOver
    /\ "redo" \notin open[w] => RedoOver
    /\ pc[w] = "done" => LoadOver /\ RedoOver /\ held[w] = Nothing

\* A channel is closed by the thread that feeds it, and by the main thread only
\* after that.
ClosedInOrder ==
    /\ work.closed => rpc \in {"finish", "done"}
    /\ HasRedo /\ jobs.closed => fpc = "done"

\* No failure is on its way to the consumer.
NoFailureSent ==
    /\ fpc \notin {"fput", "fenq"}
    /\ \A i \in DOMAIN results.q : results.q[i].kind # "FATAL"
    /\ outcome.kind # "FATAL"

Completed(l) == l < next \/ l \in outOfOrder

\* A line that was read is completed, or somebody has yet to complete it.
Followed(l) ==
    \/ Completed(l) \/ l \in inFlight
    \/ rpc \in {"reject", "write", "complete"} /\ l = line_no
    \/ cpc \in {"settle", "write", "complete"} /\ l = outcome.line
    \/ readError

AllFollowed ==
    /\ rpc \in {"close", "finish", "done"} => readError \/ line_no = LastLine
    /\ \A l \in Lines : SkipLines < l /\ l <= line_no => Followed(l)

\* A run that nothing has disturbed.
Undisturbed ==
    /\ ~Monitoring => WorkersDone
    /\ ClosedInOrder /\ NoFailureSent /\ AllFollowed
    /\ \A w \in Workers : Orderly(w)

\* A worker with two sides polls both, and one with none to poll waits for work.
OneLoop ==
    \A w \in Workers :
        /\ HasRedo => pc[w] # "get"
        /\ ~HasRedo => pc[w] \notin {"probe1", "probe2"} /\ "load" \in open[w]

\* Whoever has ended, and the main thread once it is past its closes, has left
\* the channel closed.
ClosedBehind ==
    /\ \/ work.closed
       \/ rpc \notin {"finish", "done"} /\ (Monitoring \/ mpc = "closeWork")
    /\ rpc = "done" => readerDone
    /\ HasRedo =>
          \/ jobs.closed
          \/ /\ fpc # "done"
             /\ Monitoring \/ mpc \in {"closeWork", "joinWorkers", "closeJobs"}
    /\ \/ results.closed
       \/ cpc # "done" /\ mpc \notin {"joinConsumer", "finish", "teardown", "exited"}

\* What holds of a disturbed run too.
InAnyRun ==
    /\ RUNNING <=> ~signalled /\ ~WORKER_FATAL
    /\ SkipLines < next /\ next \notin outOfOrder
    /\ ~HasRedo => RedoOver
    /\ OneLoop /\ ClosedBehind

\* What every run owes its end to: nothing disturbs it but what clears RUNNING.
IRun == /\ IFlight /\ ICount /\ InAnyRun
        /\ RUNNING => Undisturbed

\* Completing a line completes no other, and leaves none out that was.
LEMMA CompleteCompletes ==
    ASSUME LoadStateTypeOK, SkipLines < next, next \notin outOfOrder,
           NEW line \in Lines \union {0}, Complete(line)
    PROVE  /\ SkipLines < next' /\ next' \notin outOfOrder'
           /\ \A l \in Lines : Completed(l) \/ l = line => Completed(l)'
  <1>0. /\ next \in Nat \ {0} /\ next' \in Nat \ {0} /\ next' >= next
        /\ outOfOrder \subseteq Lines /\ LastLine \in Nat /\ SkipLines \in Nat
        /\ \A l \in Lines : l \in Nat
    BY CompleteAdvances, LinesAssumption DEF LoadStateTypeOK, Lines
  <1>1. CASE line < next
    BY <1>0, <1>1 DEF Complete, resumeVars, Completed
  <1>2. CASE ~(line < next)
    <2> DEFINE done == outOfOrder \union {line}
    <2>1. line \in Lines /\ next <= LastLine + 1
      BY <1>0, <1>2 DEF Lines
    <2>2. next' = FirstMissing(next, done) /\ outOfOrder' = {l \in done : l >= next'}
      BY <1>2 DEF Complete
    <2>3. done \in SUBSET Lines
      BY <1>0, <2>1
    <2>4. next' \notin done
      <3> HIDE DEF done
      <3> QED
        BY <1>0, <2>1, <2>2, <2>3, FirstMissingIsFirst
    <2>5. SkipLines < next' /\ next' \notin outOfOrder'
      BY <1>0, <2>2, <2>4
    <2>6. ASSUME NEW l \in Lines, Completed(l) \/ l = line PROVE Completed(l)'
      <3>1. l < next \/ l \in done
        BY <2>6 DEF Completed
      <3>2. l \in Nat
        BY <1>0
      <3> HIDE DEF done
      <3> QED
        BY <1>0, <2>2, <3>1, <3>2 DEF Completed
    <2> QED
      BY <2>5, <2>6
  <1> QED
    BY <1>1, <1>2

\* A queue that a step only takes from, or puts an item on.
LEMMA QueueEnds ==
    ASSUME NEW Item, NEW ch \in Channel(Item), NEW after,
           \/ after = ch
           \/ HasItem(ch) /\ after = Dequeued(ch)
    PROVE  after.closed = ch.closed /\ (ch.q = <<>> => after.q = <<>>)
  BY DequeuedType DEF HasItem

\* A worker step leaves an undisturbed run as it is, or disturbs it.
LEMMA WorkerStepUndisturbed ==
    ASSUME WorkerTypeOK(Lines), RedoInHand, NEW w \in Workers, AtWork(w), Orderly(w),
           ClosedInOrder, NoFailureSent, ~HasRedo => RedoOver,
           HasRedo => pc[w] # "get", WorkerStep(w), RUNNING, RUNNING',
           UNCHANGED <<rpc, fpc, outcome>>
    PROVE  /\ Orderly(w)' /\ ClosedInOrder' /\ NoFailureSent'
           /\ LoadOver => LoadOver'
           /\ RedoOver => RedoOver'
  <1>0. /\ work \in Channel(LoadItems(Lines)) /\ jobs \in Channel({RedoJob})
        /\ results \in Channel(Outcomes(Lines))
    BY DEF WorkerTypeOK, LoadItems, Outcomes
  <1>1. /\ work' = work \/ (HasItem(work) /\ work' = Dequeued(work))
        /\ jobs' = jobs \/ (HasItem(jobs) /\ jobs' = Dequeued(jobs))
        /\ results' = results \/ (pc[w] = "enq" /\ results' = Enqueued(results, Report(w)))
    BY DEF WorkerStep, LoadStep, LoopTop, GetLoad, GetNothing, AddRecord, RedoStep,
           DrainRedo, DrainMiss, DrainEnd, ProcessRedo, SettleRedo, MixedStep, PollHit,
           PollMiss, ReportStep, WorkerFatal, PutCheck, PutEnqueue, PutFull, channels,
           TakeLoad, TakeRedo
  <1>2. /\ work'.closed = work.closed /\ (work.q = <<>> => work'.q = <<>>)
        /\ jobs'.closed = jobs.closed /\ (jobs.q = <<>> => jobs'.q = <<>>)
    BY <1>0, <1>1, QueueEnds
  <1>3. (LoadOver => LoadOver') /\ (RedoOver => RedoOver') /\ ClosedInOrder'
    BY <1>2 DEF LoadOver, RedoOver, ClosedInOrder
  <1>4. NoFailureSent'
    <2>1. CASE results' = results
      BY <2>1 DEF NoFailureSent
    <2>2. CASE pc[w] = "enq" /\ results' = Enqueued(results, Report(w))
      <3> DEFINE o == Report(w)
      <3>1. o \in Outcomes(Lines) /\ o.kind # "FATAL"
        <4>1. o \in Outcomes(Lines)
          BY <1>0, ReportType DEF WorkerTypeOK, Outcomes
        <4>2. o.kind = act[w] /\ act[w] # "FATAL"
          BY <2>2 DEF Orderly, Report, Outcome
        <4> QED
          BY <4>1, <4>2
      <3>2. results'.q = Append(results.q, o) /\ results.q \in Seq(Outcomes(Lines))
        <4>1. results' = Enqueued(results, o)
          BY <2>2
        <4>2. results.q \in Seq(Outcomes(Lines))
          BY <1>0 DEF Channel
        <4> HIDE DEF o
        <4> QED
          BY <1>0, <3>1, <4>1, <4>2, EnqueuedType
      <3> HIDE DEF o
      <3>3. \A j \in DOMAIN results'.q : results'.q[j].kind # "FATAL"
        BY <3>1, <3>2, AppendElements DEF NoFailureSent
      <3> QED
        BY <3>3 DEF NoFailureSent
    <2> QED
      BY <1>1, <2>1, <2>2
  <1>5. Orderly(w)'
    <2> USE DEF WorkerTypeOK, Goto, Become, Orderly
    <2>1. CASE /\ \/ LoopTop(w) \/ GetLoad(w) \/ AddRecord(w) \/ ProcessRedo(w)
                  \/ PollHit(w) \/ DrainRedo(w)
      <3>1. open'[w] = open[w] /\ pc'[w] \notin {"done", "enq"}
        BY <2>1, FileLoaderAssumption
        DEF LoopTop, GetLoad, AddRecord, ProcessRedo, PollHit, DrainRedo, TakeLoad,
            TakeRedo, TakeFrom
      <3>2. pc'[w] \in {"put", "settle"} => act'[w] \in {"ACK", "REJECT"}
        BY <2>1, FileLoaderAssumption
        DEF LoopTop, GetLoad, AddRecord, ProcessRedo, PollHit, DrainRedo, TakeLoad,
            TakeRedo, TakeFrom
      <3> QED
        BY <1>3, <3>1, <3>2
    <2>2. CASE GetNothing(w)
      <3>1. ~HasItem(work) /\ work.closed /\ UNCHANGED <<channels, held, open>>
        BY <2>2 DEF GetNothing
      <3>2. LoadOver /\ RedoOver
        BY <2>2, <3>1 DEF GetNothing, HasItem, ClosedInOrder, LoadOver
      <3>3. held[w] = Nothing
        BY <2>2 DEF GetNothing, AtWork, RedoInHand, RedoJob, Nothing, Lines
      <3> QED
        BY <1>3, <2>2, <3>1, <3>2, <3>3 DEF GetNothing
    <2>3. CASE PollMiss(w)
      <3>1. /\ held' = held /\ act' = act /\ pc[w] \in {"probe1", "probe2"}
            /\ pc'[w] \in {"probe2", "top", "done"}
            /\ pc'[w] = "done" => open'[w] = {}
        BY <2>3 DEF PollMiss
      <3>2. held[w] = Nothing
        BY <3>1 DEF AtWork, RedoInHand, RedoJob, Nothing, Lines
      <3>3. "load" \notin open'[w] => LoadOver
        <4>1. CASE "load" \notin open[w]
          BY <4>1
        <4>2. CASE "load" \in open[w] /\ "load" \notin open'[w]
          BY <2>3, <4>2 DEF PollMiss, Side, HasItem, ClosedInOrder, LoadOver
        <4> QED
          BY <4>1, <4>2
      <3>4. "redo" \notin open'[w] => RedoOver
        <4>1. CASE "redo" \notin open[w] \/ ~HasRedo
          BY <4>1
        <4>2. CASE "redo" \in open[w] /\ "redo" \notin open'[w] /\ HasRedo
          BY <2>3, <4>2 DEF PollMiss, Side, HasItem, ClosedInOrder, RedoOver
        <4> QED
          BY <4>1, <4>2, WorkersAssumption
      <3> QED
        BY <1>3, <3>1, <3>2, <3>3, <3>4
    <2>4. CASE SettleRedo(w) \/ PutCheck(w) \/ PutEnqueue(w) \/ PutFull(w)
      <3>1. pc[w] \in {"put", "enq", "settle"} /\ UNCHANGED open
        BY <2>4 DEF SettleRedo, PutCheck, PutEnqueue, PutFull
      <3>2. pc'[w] \in {"top", "settle", "enq"}
        BY <2>4, <3>1 DEF SettleRedo, PutCheck, PutEnqueue, PutFull, AfterPut, BackToTop
      <3>3. pc'[w] \in {"settle", "enq"} => act'[w] = act[w]
        BY <2>4, <3>1 DEF SettleRedo, PutCheck, PutEnqueue, PutFull, AfterPut, BackToTop
      <3> QED
        BY <1>3, <3>1, <3>2, <3>3
    <2>5. CASE WorkerFatal(w) \/ DrainMiss(w) \/ DrainEnd(w)
      BY <2>5, FileLoaderAssumption DEF WorkerFatal, MarkFatal, DrainMiss, DrainEnd
    <2> QED
      BY <2>1, <2>2, <2>3, <2>4, <2>5
      DEF WorkerStep, LoadStep, RedoStep, MixedStep, ReportStep
  <1> QED
    BY <1>3, <1>4, <1>5

\* The fetcher ends only its own side, and tells the consumer only of failures.
LEMMA FetcherStepUndisturbed ==
    ASSUME WorkerTypeOK(Lines), ClosedInOrder, NoFailureSent, ~HasRedo => RedoOver,
           \A w \in Workers : Orderly(w), FetcherStep(load_complete), RUNNING, RUNNING',
           UNCHANGED <<rpc, outcome>>
    PROVE  ClosedInOrder' /\ NoFailureSent' /\ \A w \in Workers : Orderly(w)'
  <1>0. jobs \in Channel({RedoJob})
    BY DEF WorkerTypeOK
  <1>1. fpc # "done" /\ UNCHANGED <<pc, held, act, open, work>>
    BY DEF FetcherStep, FetchTop, FetchRecord, FetchEmpty, FetchError, FetchQuiet,
           FetchDrained, FetchGiveUp, FetchPutCheck, FetchEnqueue, FetchFatal,
           FetchReport, FetchClose, workerVars, channels
  <1>2. HasRedo /\ ~jobs.closed /\ ~RedoOver
    BY <1>1 DEF RedoOver, ClosedInOrder
  <1>3. \/ fpc' = "done"
        \/ jobs' = jobs
        \/ jobs' = Enqueued(jobs, RedoJob)
    BY DEF FetcherStep, FetchTop, FetchRecord, FetchEmpty, FetchError, FetchQuiet,
           FetchDrained, FetchGiveUp, FetchPutCheck, FetchEnqueue, FetchFatal,
           FetchReport, FetchClose, channels
  <1>4. fpc' = "done" \/ ~jobs'.closed
    BY <1>0, <1>2, <1>3, EnqueuedType
  <1>5. ClosedInOrder'
    BY <1>1, <1>4 DEF ClosedInOrder
  <1>6. results' = results /\ fpc' \notin {"fput", "fenq"}
    BY DEF NoFailureSent, FetcherStep, FetchTop, FetchRecord, FetchEmpty, FetchError,
           FetchQuiet, FetchDrained, FetchGiveUp, FetchPutCheck, FetchEnqueue, FetchFatal,
           MarkFatal, FetchReport, FetchClose, channels
  <1>7. NoFailureSent'
    BY <1>6 DEF NoFailureSent
  <1>8. \A w \in Workers : Orderly(w)'
    BY <1>1, <1>2 DEF Orderly, LoadOver
  <1> QED
    BY <1>5, <1>7, <1>8

\* What the reader reads it follows up, and it stops at the end of the file or
\* with an error.
LEMMA ReaderStepUndisturbed ==
    ASSUME WorkerTypeOK(Lines), OwnTypeOK, SkipLines < next, next \notin outOfOrder,
           ClosedInOrder, NoFailureSent, AllFollowed, \A w \in Workers : Orderly(w),
           ReaderStep, RUNNING, UNCHANGED consumerVars
    PROVE  /\ ClosedInOrder' /\ NoFailureSent' /\ AllFollowed'
           /\ \A w \in Workers : Orderly(w)'
  <1>0. /\ LoadStateTypeOK /\ ReaderTypeOK /\ LinesInHand
        /\ LastLine \in Nat /\ SkipLines \in Nat
        /\ UNCHANGED <<cpc, outcome>>
        /\ work \in Channel(LoadItems(Lines))
    BY LinesAssumption DEF OwnTypeOK, consumerVars, WorkerTypeOK, LoadItems
  <1>1. /\ UNCHANGED <<pc, held, act, open, fpc, jobs, results>>
        /\ rpc # "done"
    BY DEF ReaderStep, ReadStop, ReadLine, ReaderReject, ReaderWrite, ReaderWriteHangs,
           ReaderComplete, ReaderPutCheck, ReaderEnqueue, ReaderGiveUp, PutFails,
           ReaderClose, ReaderFinish, otherThanReader, workerVars, fetcherVars, channels
  <1>2. NoFailureSent' /\ RedoOver' = RedoOver
    BY <1>0, <1>1 DEF NoFailureSent, RedoOver
  <1>3. rpc = "finish" => rpc' = "done" /\ work' = work
    BY DEF ReaderStep, ReadStop, ReadLine, ReaderReject, ReaderWrite, ReaderWriteHangs,
           ReaderComplete, ReaderPutCheck, ReaderEnqueue, ReaderGiveUp, PutFails,
           ReaderClose, ReaderFinish, channels
  <1>4. \A w \in Workers : Orderly(w)'
    BY <1>1, <1>2, <1>3 DEF Orderly, LoadOver
  <1>5. ClosedInOrder'
    <2>1. CASE rpc = "finish"
      BY <1>1, <1>3, <2>1 DEF ClosedInOrder
    <2>2. CASE rpc # "finish"
      <3>1. ~work.closed
        BY <1>1, <2>2 DEF ClosedInOrder
      <3>2. \/ work' = work
            \/ \E x \in LoadItems(Lines) : work' = Enqueued(work, x)
            \/ rpc' = "finish"
        <4>1. CASE ReaderEnqueue
          BY <1>0, <4>1 DEF ReaderEnqueue, LoadItem, LoadItems, LinesInHand
        <4>2. CASE ~ReaderEnqueue
          BY <4>2
          DEF ReaderStep, ReadStop, ReadLine, ReaderReject, ReaderWrite,
              ReaderWriteHangs, ReaderComplete, ReaderPutCheck, ReaderGiveUp,
              ReaderClose, ReaderFinish, channels
        <4> QED
          BY <4>1, <4>2
      <3>3. ~work'.closed \/ rpc' = "finish"
        BY <1>0, <3>1, <3>2, EnqueuedType
      <3> QED
        BY <1>1, <3>3 DEF ClosedInOrder
    <2> QED
      BY <2>1, <2>2
  <1>6. AllFollowed'
    <2> USE DEF AllFollowed, Followed
    <2>1. CASE ReadStop
      <3>1. /\ UNCHANGED <<line_no, next, outOfOrder, inFlight>> /\ rpc = "read"
            /\ readError' \/ (readError' = readError /\ line_no = LastLine)
        BY <2>1 DEF ReadStop, loadStateVars, resumeVars
      <3> QED
        BY <1>0, <3>1 DEF Completed
    <2>2. CASE ReadLine
      <3>1. rpc = "read" /\ line_no' = line_no + 1 /\ line_no' \in Lines
        BY <1>0, <2>2 DEF ReadLine, ReaderTypeOK, Lines
      <3>2. CASE line_no' <= SkipLines
        <4>1. UNCHANGED <<rpc, next, outOfOrder, inFlight, readError>>
          BY <2>2, <3>1, <3>2 DEF ReadLine, resumeVars
        <4>2. \A l \in Lines : SkipLines < l => ~(l <= line_no')
          BY <1>0, <3>1, <3>2 DEF Lines
        <4> QED
          BY <3>1, <4>1, <4>2
      <3>3. CASE ~(line_no' <= SkipLines)
        <4>1. Feed(line_no')
          BY <2>2, <3>1, <3>3 DEF ReadLine
        <4>2. \A l \in Lines : l <= line_no' => l <= line_no \/ l = line_no'
          BY <1>0, <3>1 DEF Lines, ReaderTypeOK
        <4>3. CASE /\ rpc' = "read" /\ Complete(line_no')
                   /\ UNCHANGED <<inFlight, readError>>
          <5>1. \A l \in Lines : Completed(l) \/ l = line_no' => Completed(l)'
            BY <1>0, <3>1, <4>3, CompleteCompletes
          <5> QED
            BY <1>0, <3>1, <4>2, <4>3, <5>1
        <4>4. CASE rpc' = "reject" /\ UNCHANGED <<resumeVars, inFlight, readError>>
          BY <1>0, <3>1, <4>2, <4>4 DEF Completed, resumeVars
        <4>5. CASE rpc' = "close" /\ readError' = TRUE
          BY <4>5
        <4>6. CASE /\ rpc' = "put" /\ inFlight' = inFlight \union {line_no'}
                   /\ UNCHANGED <<resumeVars, readError>>
          BY <1>0, <3>1, <4>2, <4>6 DEF Completed, resumeVars
        <4> QED
          BY <4>1, <4>3, <4>4, <4>5, <4>6 DEF Feed
      <3> QED
        BY <3>2, <3>3
    <2>3. CASE ReaderComplete
      <3>1. /\ rpc = "complete" /\ rpc' = "read" /\ UNCHANGED <<line_no, inFlight, readError>>
            /\ Complete(line_no) /\ line_no \in Lines
        BY <1>0, <2>3 DEF ReaderComplete, LinesInHand
      <3>2. \A l \in Lines : Completed(l) \/ l = line_no => Completed(l)'
        BY <1>0, <3>1, CompleteCompletes
      <3> QED
        BY <1>0, <3>1, <3>2
    <2>4. CASE ReaderGiveUp
      BY <2>4 DEF ReaderGiveUp, PutFails, ClosedInOrder
    <2>5. CASE \/ ReaderReject \/ ReaderWrite \/ ReaderWriteHangs \/ ReaderPutCheck
               \/ ReaderEnqueue
               \/ ReaderClose \/ ReaderFinish
      <3>1. /\ UNCHANGED <<line_no, next, outOfOrder, inFlight, readError>>
            /\ rpc \in {"reject", "write", "complete"} => rpc' \in {"write", "complete"}
            /\ rpc' \in {"close", "finish", "done"} => rpc \in {"close", "finish", "done"}
        BY <2>5 DEF ReaderReject, ReaderWrite, ReaderWriteHangs, ReaderPutCheck,
                    ReaderEnqueue, ReaderClose, ReaderFinish, loadStateVars, resumeVars
      <3> QED
        BY <1>0, <3>1 DEF Completed
    <2> QED
      BY <2>1, <2>2, <2>3, <2>4, <2>5 DEF ReaderStep
  <1> QED
    BY <1>2, <1>4, <1>5, <1>6

\* The consumer completes what it takes, unless a failure stops the run.
LEMMA ConsumerStepUndisturbed ==
    ASSUME WorkerTypeOK(Lines), OwnTypeOK, SkipLines < next, next \notin outOfOrder,
           NoFailureSent, AllFollowed, ConsumerStep, RUNNING', UNCHANGED readerVars
    PROVE  NoFailureSent' /\ AllFollowed'
  <1>0. /\ LoadStateTypeOK /\ ConsumerTypeOK
        /\ UNCHANGED <<rpc, line_no, readError>>
        /\ results \in Channel(Outcomes(Lines))
    BY DEF OwnTypeOK, readerVars, WorkerTypeOK, Outcomes
  <1>1. UNCHANGED fpc
    BY DEF ConsumerStep, ConsumerGet, ConsumerClosed, SettleAck, SettleFails, SettleReject,
           SettleWrite, SettleWriteHangs, SettleComplete, SettleFatal, otherThanConsumer,
           fetcherVars
  <1> USE DEF AllFollowed, Followed
  <1>2. CASE ConsumerGet
    <2> DEFINE o == Head(results.q)
    <2>1. /\ results.q \in Seq(Outcomes(Lines)) /\ results.q # <<>>
          /\ results'.q = Tail(results.q)
      BY <1>0, <1>2, DequeuedType DEF ConsumerGet, Channel, HasItem
    <2>2. /\ cpc = "get" /\ cpc' = "settle" /\ UNCHANGED <<next, outOfOrder>>
          /\ outcome'.line = o.line /\ outcome'.kind = o.kind
          /\ inFlight' = inFlight \ {o.line}
      BY <1>2 DEF ConsumerGet, PopBody, PickUp, resumeVars
    <2> HIDE DEF o
    <2>3. AllFollowed'
      BY <1>0, <2>2 DEF Completed
    <2>4. NoFailureSent'
      <3>1. o = results.q[1] /\ 1 \in DOMAIN results.q
        BY <2>1, TailElements DEF o
      <3>2. \A i \in DOMAIN results'.q : i + 1 \in DOMAIN results.q
                                           /\ results'.q[i] = results.q[i + 1]
        BY <2>1, TailElements
      <3> QED
        BY <1>1, <2>2, <3>1, <3>2 DEF NoFailureSent
    <2> QED
      BY <2>3, <2>4
  <1>3. CASE SettleAck \/ SettleComplete
    <2>1. /\ cpc \in {"settle", "complete"} /\ cpc' = "get" /\ outcome' = NoOutcome
          /\ Complete(outcome.line) /\ UNCHANGED <<results, inFlight>>
      BY <1>3 DEF SettleAck, SettleComplete, channels
    <2>2. outcome.line \in Lines \union {0}
      BY <1>0 DEF ConsumerTypeOK
    <2>3. \A l \in Lines : Completed(l) \/ l = outcome.line => Completed(l)'
      BY <1>0, <2>1, <2>2, CompleteCompletes
    <2>4. AllFollowed'
      BY <1>0, <2>1, <2>3
    <2> QED
      BY <1>1, <2>1, <2>4 DEF NoFailureSent, NoOutcome
  <1>4. CASE ConsumerClosed \/ SettleReject \/ SettleWrite \/ SettleWriteHangs
    <2>1. /\ cpc \in {"settle", "write", "complete"} => cpc' \in {"write", "complete"}
          /\ UNCHANGED <<outcome, results, next, outOfOrder, inFlight>>
      BY <1>4 DEF ConsumerClosed, SettleReject, SettleWrite, SettleWriteHangs, channels,
                  loadStateVars, resumeVars
    <2> QED
      BY <1>0, <1>1, <2>1 DEF NoFailureSent, Completed
  <1>5. CASE SettleFails \/ SettleFatal
    BY <1>5 DEF SettleFails, MarkFatal, SettleFatal, NoFailureSent
  <1> QED
    BY <1>2, <1>3, <1>4, <1>5 DEF ConsumerStep

\* The main thread closes a channel of an undisturbed run only after the thread
\* that feeds it has.
LEMMA MainStepUndisturbed ==
    ASSUME WorkerTypeOK(Lines), Undisturbed, MainStep \/ UNCHANGED vars, RUNNING
    PROVE  Undisturbed'
  <1>1. /\ UNCHANGED <<pc, held, act, open, fpc, rpc, line_no, readError, cpc, outcome,
                       next, outOfOrder, inFlight>>
        /\ \/ work' = work
           \/ mpc = "closeWork" /\ work' = Closed(work)
        /\ \/ jobs' = jobs
           \/ mpc = "closeJobs" /\ jobs' = Closed(jobs)
        /\ results' = results \/ results' = Closed(results)
        /\ Monitoring' = Monitoring \/ ~Monitoring \/ WorkersDone
    BY DEF MainStep, TickDue, TickAsks, TickEnds, StopMonitoring, CloseWork,
           JoinWorkers, CloseJobs, JoinAux, CloseResults, JoinConsumer, Finish,
           FinishFails, Teardown, MainGoto, Monitoring, vars, othersVars, mainVars,
           workerVars, fetcherVars, readerVars, consumerVars, loadStateVars, resumeVars,
           channels
  <1>2. work'.q = work.q /\ jobs'.q = jobs.q /\ results'.q = results.q
    BY <1>1, ClosedType DEF WorkerTypeOK
  <1>3. ~Monitoring => LoadOver /\ RedoOver
    <2>1. PICK w : w \in Workers
      BY WorkersAssumption
    <2> QED
      BY <2>1 DEF Undisturbed, WorkersDone, Orderly
  <1>4. ClosedInOrder'
    BY <1>1, <1>3 DEF Undisturbed, ClosedInOrder, LoadOver, RedoOver, Monitoring
  <1>5. ~Monitoring' => WorkersDone'
    BY <1>1 DEF Undisturbed, WorkersDone, Monitoring
  <1>6. NoFailureSent' /\ AllFollowed'
    BY <1>1, <1>2 DEF Undisturbed, NoFailureSent, AllFollowed, Followed, Completed
  <1>7. \A w \in Workers : Orderly(w)'
    BY <1>1, <1>2 DEF Undisturbed, Orderly, LoadOver, RedoOver
  <1> QED
    BY <1>4, <1>5, <1>6, <1>7 DEF Undisturbed

\* A channel that is closed stays closed.
LEMMA ClosedStays ==
    ASSUME NEW Item, NEW ch \in Channel(Item), ch.closed, NEW after,
           \/ after \in {ch, Dequeued(ch), Closed(ch)}
           \/ \E x : after = Enqueued(ch, x)
    PROVE  after.closed
  BY DEF Channel, Dequeued, Closed, Enqueued

\* No step opens a channel again.
LEMMA NextClosed ==
    ASSUME WorkerTypeOK(Lines), [Next]_vars
    PROVE  /\ work.closed => work'.closed
           /\ jobs.closed => jobs'.closed
           /\ results.closed => results'.closed
  <1>0. /\ work \in Channel(LoadItems(Lines)) /\ jobs \in Channel({RedoJob})
        /\ results \in Channel(Outcomes(Lines))
    BY DEF WorkerTypeOK, LoadItems, Outcomes
  <1>1. /\ work' \in {work, Dequeued(work), Closed(work)} \/ \E x : work' = Enqueued(work, x)
        /\ jobs' \in {jobs, Dequeued(jobs), Closed(jobs)} \/ \E x : jobs' = Enqueued(jobs, x)
        /\ \/ results' \in {results, Dequeued(results), Closed(results)}
           \/ \E x : results' = Enqueued(results, x)
    <2>1. ASSUME NEW w \in Workers, Worker(w)
          PROVE  /\ work' \in {work, Dequeued(work)}
                 /\ jobs' \in {jobs, Dequeued(jobs)}
                 /\ results' \in {results, Enqueued(results, Report(w))}
      BY <2>1
      DEF Worker, WorkerStep, LoadStep, LoopTop, GetLoad, GetNothing, AddRecord, RedoStep,
          DrainRedo, DrainMiss, DrainEnd, ProcessRedo, SettleRedo, MixedStep, PollHit,
          PollMiss, ReportStep, WorkerFatal, PutCheck, PutEnqueue, PutFull, channels,
          TakeLoad, TakeRedo
    <2>2. CASE Fetcher
      BY <2>2
      DEF Fetcher, FetcherStep, FetchTop, FetchRecord, FetchEmpty, FetchError,
          FetchQuiet, FetchDrained, FetchGiveUp, FetchPutCheck, FetchEnqueue,
          FetchFatal, FetchReport, FetchClose, channels
    <2>3. CASE ReaderThread
      BY <2>3
      DEF ReaderThread, ReaderStep, ReadStop, ReadLine, ReaderReject, ReaderWrite,
          ReaderWriteHangs, ReaderComplete, ReaderPutCheck, ReaderEnqueue, ReaderGiveUp,
          ReaderClose, ReaderFinish, channels
    <2>4. CASE Consumer
      BY <2>4
      DEF Consumer, ConsumerStep, ConsumerGet, ConsumerClosed, SettleAck, SettleFails,
          SettleReject, SettleWrite, SettleWriteHangs, SettleComplete, SettleFatal, channels
    <2>5. CASE MainStep \/ Signal \/ UNCHANGED vars
      BY <2>5
      DEF MainStep, TickDue, TickAsks, TickEnds, StopMonitoring, CloseWork, JoinWorkers,
          CloseJobs, JoinAux, CloseResults, JoinConsumer, Finish, FinishFails, Teardown,
          MainGoto, Signal, vars, channels
    <2> QED
      BY <2>1, <2>2, <2>3, <2>4, <2>5 DEF Next, Exited
  <1> QED
    BY <1>0, <1>1, ClosedStays

\* Every step of the process closes the channels behind it.
LEMMA NextClosedBehind ==
    ASSUME WorkerTypeOK(Lines), ClosedBehind, ~HasRedo => RedoOver, [Next]_vars
    PROVE  ClosedBehind'
  <1>0. /\ work.closed => work'.closed
        /\ jobs.closed => jobs'.closed
        /\ results.closed => results'.closed
    BY NextClosed
  <1>1. ASSUME NEW w \in Workers, Worker(w) PROVE ClosedBehind'
    <2>1. UNCHANGED <<rpc, fpc, cpc, mpc, readerDone>>
      BY <1>1 DEF Worker, readerVars, fetcherVars, consumerVars, mainVars, loadStateVars
    <2> QED
      BY <1>0, <2>1 DEF ClosedBehind, Monitoring
  <1>2. CASE Fetcher
    <2>1. UNCHANGED <<rpc, cpc, mpc, readerDone>>
      BY <1>2 DEF Fetcher, readerVars, consumerVars, mainVars, loadStateVars
    <2>2. fpc' = "done" => jobs' = Closed(jobs)
      BY <1>2
      DEF Fetcher, FetcherStep, FetchTop, FetchRecord, FetchEmpty, FetchError,
          FetchQuiet, FetchDrained, FetchGiveUp, FetchPutCheck, FetchEnqueue,
          FetchFatal, AfterFatal, FetchReport, FetchClose
    <2>3. Closed(jobs).closed
      BY DEF Closed, WorkerTypeOK, Channel
    <2> QED
      BY <1>0, <2>1, <2>2, <2>3 DEF ClosedBehind, Monitoring
  <1>3. CASE ReaderThread
    <2>1. UNCHANGED <<fpc, cpc, mpc>>
      BY <1>3
      DEF ReaderThread, ReaderStep, ReadStop, ReadLine, ReaderReject, ReaderWrite,
          ReaderWriteHangs, ReaderComplete, ReaderPutCheck, ReaderEnqueue, ReaderGiveUp,
          ReaderClose, ReaderFinish, otherThanReader, fetcherVars, consumerVars,
          mainVars
    <2>2. /\ rpc' = "finish" => work' = Closed(work)
          /\ rpc' = "done" => rpc = "finish" /\ readerDone'
      BY <1>3
      DEF ReaderThread, ReaderStep, ReadStop, ReadLine, Feed, ReaderReject, ReaderWrite,
          ReaderWriteHangs, ReaderComplete, ReaderPutCheck, ReaderEnqueue, ReaderGiveUp,
          ReaderClose, ReaderFinish
    <2>3. Closed(work).closed
      BY DEF Closed, WorkerTypeOK, Channel
    <2> QED
      BY <1>0, <2>1, <2>2, <2>3 DEF ClosedBehind, Monitoring
  <1>4. CASE Consumer
    <2>1. /\ UNCHANGED <<rpc, fpc, mpc, readerDone>>
          /\ cpc' = "done" => results.closed
      BY <1>4
      DEF Consumer, ConsumerStep, ConsumerGet, ConsumerClosed, ResultsEnd, SettleAck,
          SettleFails, SettleReject, SettleWrite, SettleWriteHangs, SettleComplete,
          SettleFatal, otherThanConsumer, fetcherVars, readerVars, mainVars,
          loadStateVars
    <2> QED
      BY <1>0, <2>1 DEF ClosedBehind, Monitoring
  <1>5. CASE MainStep
    <2>1. UNCHANGED <<rpc, fpc, cpc, readerDone>>
      BY <1>5
      DEF MainStep, TickDue, TickAsks, TickEnds, StopMonitoring, CloseWork, JoinWorkers,
          CloseJobs, JoinAux, CloseResults, JoinConsumer, Finish, FinishFails, Teardown,
          MainGoto, othersVars, fetcherVars, readerVars, consumerVars, loadStateVars
    <2>2. /\ Closed(work).closed /\ Closed(jobs).closed /\ Closed(results).closed
      BY DEF Closed, WorkerTypeOK, Channel
    <2>3. CASE TickDue \/ TickAsks \/ TickEnds \/ StopMonitoring \/ JoinWorkers \/ JoinAux
      BY <1>0, <2>1, <2>3
      DEF TickDue, TickAsks, TickEnds, StopMonitoring, JoinWorkers, JoinAux, MainGoto,
          ClosedBehind, Monitoring
    <2>4. CASE CloseWork \/ CloseJobs \/ CloseResults
      BY <1>0, <2>1, <2>2, <2>4
      DEF CloseWork, CloseJobs, CloseResults, MainGoto, ClosedBehind, Monitoring
    <2>5. CASE JoinConsumer \/ Finish \/ FinishFails \/ Teardown
      BY <1>0, <2>1, <2>5
      DEF JoinConsumer, Finish, FinishFails, Teardown, MainGoto, ClosedBehind, Monitoring
    <2> QED
      BY <1>5, <2>3, <2>4, <2>5 DEF MainStep
  <1>6. CASE Signal \/ UNCHANGED vars
    <2>1. UNCHANGED <<rpc, fpc, cpc, mpc, readerDone>>
      BY <1>6
      DEF Signal, vars, othersVars, fetcherVars, readerVars, consumerVars, mainVars,
          loadStateVars
    <2> QED
      BY <1>0, <2>1 DEF ClosedBehind, Monitoring
  <1> QED
    BY <1>1, <1>2, <1>3, <1>4, <1>5, <1>6 DEF Next, Exited

\* A worker keeps to its loop.
LEMMA WorkerStepOneLoop ==
    ASSUME WorkerTypeOK(Lines), OneLoop, NEW w \in Workers, WorkerStep(w)
    PROVE  OneLoop'
  <1> USE DEF WorkerTypeOK, Goto, Become
  <1>1. /\ HasRedo => pc'[w] # "get"
        /\ ~HasRedo => pc'[w] \notin {"probe1", "probe2"} /\ open'[w] = open[w]
    <2>1. CASE LoadStep(w)
      BY <2>1
      DEF LoadStep, LoopTop, GetLoad, GetNothing, AddRecord, TakeLoad, TakeFrom, OneLoop
    <2>2. CASE RedoStep(w)
      BY <2>2, FileLoaderAssumption
      DEF RedoStep, DrainRedo, DrainMiss, DrainEnd, ProcessRedo, SettleRedo, BackToTop
    <2>3. CASE MixedStep(w)
      BY <2>3
      DEF MixedStep, PollHit, PollMiss, TakeLoad, TakeRedo, TakeFrom, OneLoop
    <2>4. CASE ReportStep(w)
      BY <2>4
      DEF ReportStep, WorkerFatal, PutCheck, PutEnqueue, PutFull, AfterPut, BackToTop
    <2> QED
      BY <2>1, <2>2, <2>3, <2>4 DEF WorkerStep
  <1>2. \A v \in Workers \ {w} : pc'[v] = pc[v] /\ open'[v] = open[v]
    <2>1. UNCHANGED open \/ \E sides : open' = [open EXCEPT ![w] = sides]
      BY DEF WorkerStep, LoadStep, LoopTop, GetLoad, GetNothing, AddRecord, RedoStep,
             DrainRedo, DrainMiss, DrainEnd, ProcessRedo, SettleRedo, MixedStep,
             PollHit, PollMiss, ReportStep, WorkerFatal, PutCheck, PutEnqueue, PutFull
    <2>2. \A v \in Workers \ {w} : open'[v] = open[v]
      BY <2>1
    <2> QED
      BY <2>2, OthersUntouched
  <1> QED
    BY <1>1, <1>2 DEF OneLoop

\* Every step of the process keeps what holds of any run.
LEMMA NextInAnyRun ==
    ASSUME IType, InAnyRun, Next
    PROVE  InAnyRun'
  <1>0. /\ WorkerTypeOK(Lines) /\ OwnTypeOK
        /\ LoadStateTypeOK /\ ReaderTypeOK /\ ConsumerTypeOK /\ LinesInHand
        /\ jobs \in Channel({RedoJob})
    BY ITypeParts DEF SharedTypeOK, OwnTypeOK, WorkerTypeOK
  <1>1. ClosedBehind'
    BY <1>0, NextClosedBehind DEF InAnyRun
  <1>2. ASSUME NEW w \in Workers, Worker(w) PROVE InAnyRun'
    <2>1. WorkerStep(w) /\ UNCHANGED <<signalled, fpc, next, outOfOrder>>
      BY <1>2 DEF Worker, mainVars, fetcherVars, loadStateVars, resumeVars
    <2>2. UNCHANGED flags \/ MarkFatal
      BY <2>1
      DEF WorkerStep, LoadStep, LoopTop, GetLoad, GetNothing, AddRecord, RedoStep,
          DrainRedo, DrainMiss, DrainEnd, ProcessRedo, SettleRedo, MixedStep, PollHit,
          PollMiss, ReportStep, WorkerFatal, PutCheck, PutEnqueue, PutFull, statsVars
    <2>3. jobs' = jobs \/ (HasItem(jobs) /\ jobs' = Dequeued(jobs))
      BY <2>1
      DEF WorkerStep, LoadStep, LoopTop, GetLoad, GetNothing, AddRecord, RedoStep,
          DrainRedo, DrainMiss, DrainEnd, ProcessRedo, SettleRedo, MixedStep, PollHit,
          PollMiss, ReportStep, WorkerFatal, PutCheck, PutEnqueue, PutFull, channels,
          TakeLoad, TakeRedo
    <2>4. RedoOver => RedoOver'
      BY <1>0, <2>1, <2>3, QueueEnds DEF RedoOver
    <2>5. OneLoop'
      BY <1>0, <2>1, WorkerStepOneLoop DEF InAnyRun
    <2>6. RUNNING' <=> ~signalled' /\ ~WORKER_FATAL'
      BY <2>1, <2>2 DEF InAnyRun, flags, MarkFatal
    <2> QED
      BY <1>1, <2>1, <2>4, <2>5, <2>6 DEF InAnyRun
  <1>3. CASE Fetcher
    <2>1. /\ fpc # "done"
          /\ UNCHANGED flags \/ MarkFatal
          /\ UNCHANGED <<signalled, pc, open, next, outOfOrder>>
      BY <1>3
      DEF Fetcher, FetcherStep, FetchTop, FetchRecord, FetchEmpty, FetchError,
          FetchQuiet, FetchDrained, FetchGiveUp, FetchPutCheck, FetchEnqueue,
          FetchFatal, FetchReport, FetchClose, workerVars, mainVars, loadStateVars,
          resumeVars, statsVars
    <2>2. RUNNING' <=> ~signalled' /\ ~WORKER_FATAL'
      BY <2>1 DEF InAnyRun, flags, MarkFatal
    <2> QED
      BY <1>1, <2>1, <2>2 DEF InAnyRun, OneLoop, RedoOver
  <1>4. CASE ReaderThread
    <2>1. /\ ReaderStep
          /\ UNCHANGED <<RUNNING, WORKER_FATAL, signalled, pc, open, fpc, jobs>>
          /\ \/ UNCHANGED <<next, outOfOrder>>
             \/ rpc = "read" /\ line_no < LastLine /\ Complete(line_no + 1)
             \/ rpc = "complete" /\ Complete(line_no)
      BY <1>4
      DEF ReaderThread, ReaderStep, ReadStop, ReadLine, Feed, ReaderReject, ReaderWrite,
          ReaderWriteHangs, ReaderComplete, ReaderPutCheck, ReaderEnqueue, ReaderGiveUp,
          ReaderClose, ReaderFinish, otherThanReader, workerVars, fetcherVars, mainVars,
          loadStateVars, resumeVars, statsVars, flags, channels
    <2>2. /\ rpc = "read" /\ line_no < LastLine => line_no + 1 \in Lines
          /\ rpc = "complete" => line_no \in Lines
      BY <1>0, LinesAssumption DEF ReaderTypeOK, LinesInHand, Lines
    <2>3. SkipLines < next' /\ next' \notin outOfOrder'
      BY <1>0, <2>1, <2>2, CompleteCompletes DEF InAnyRun
    <2> QED
      BY <1>1, <2>1, <2>3 DEF InAnyRun, OneLoop, RedoOver
  <1>5. CASE Consumer
    <2>1. /\ UNCHANGED <<signalled, pc, open, fpc, jobs>>
          /\ UNCHANGED flags \/ MarkFatal
          /\ UNCHANGED <<next, outOfOrder>> \/ Complete(outcome.line)
      BY <1>5
      DEF Consumer, ConsumerStep, ConsumerGet, PickUp, ConsumerClosed, SettleAck,
          SettleFails, SettleReject, SettleWrite, SettleWriteHangs, SettleComplete,
          SettleFatal, LineFailed, otherThanConsumer, workerVars, fetcherVars, mainVars,
          loadStateVars, resumeVars, statsVars, channels
    <2>2. SkipLines < next' /\ next' \notin outOfOrder'
      BY <1>0, <2>1, CompleteCompletes DEF InAnyRun, ConsumerTypeOK
    <2>3. RUNNING' <=> ~signalled' /\ ~WORKER_FATAL'
      BY <2>1 DEF InAnyRun, flags, MarkFatal
    <2> QED
      BY <1>1, <2>1, <2>2, <2>3 DEF InAnyRun, OneLoop, RedoOver
  <1>6. CASE MainStep \/ Signal \/ UNCHANGED vars
    <2>1. /\ UNCHANGED <<WORKER_FATAL, pc, open, fpc, next, outOfOrder>>
          /\ \/ UNCHANGED <<RUNNING, signalled>>
             \/ ~RUNNING' /\ signalled'
          /\ jobs' = jobs \/ jobs' = Closed(jobs)
      BY <1>6
      DEF MainStep, TickDue, TickAsks, TickEnds, StopMonitoring, CloseWork, JoinWorkers,
          CloseJobs, JoinAux, CloseResults, JoinConsumer, Finish, FinishFails, Teardown,
          MainGoto, Signal, vars, othersVars, workerVars, fetcherVars, loadStateVars,
          resumeVars, statsVars, flags, mainVars, channels
    <2>2. jobs'.q = jobs.q
      BY <1>0, <2>1, ClosedType
    <2> QED
      BY <1>1, <2>1, <2>2 DEF InAnyRun, OneLoop, RedoOver
  <1> QED
    BY <1>2, <1>3, <1>4, <1>5, <1>6 DEF Next, Exited

\* Every step of the process leaves an undisturbed run as it is, or disturbs it.
LEMMA NextRun ==
    ASSUME IRun, [Next]_vars
    PROVE  IRun' /\ (RUNNING' => RUNNING)
  <1>0. /\ WorkerTypeOK(Lines) /\ OwnTypeOK /\ InAnyRun /\ RedoInHand
        /\ \A w \in Workers : AtWork(w)
        /\ RUNNING => Undisturbed
    BY ITypeParts DEF IRun, IFlight, ICount, SharedTypeOK
  <1>1. IFlight' /\ ICount'
    BY NextFlight, NextCount DEF IRun
  <1>2. CASE UNCHANGED vars
    <2>1. InAnyRun' /\ RUNNING' = RUNNING
      BY <1>0, <1>2
      DEF vars, statsVars, flags, mainVars, readerVars, consumerVars, loadStateVars,
          resumeVars, channels, fetcherVars, workerVars, InAnyRun, OneLoop, ClosedBehind,
          RedoOver, Monitoring
    <2> QED
      BY <1>0, <1>1, <1>2, <2>1, MainStepUndisturbed DEF IRun
  <1>3. CASE Next
    <2>1. InAnyRun'
      BY <1>0, <1>3, NextInAnyRun DEF IRun, IFlight
    <2>2. RUNNING' => RUNNING
      BY <1>0, <2>1, <1>3
      DEF InAnyRun, Next, Worker, Fetcher, ReaderThread, Consumer, MainStep, TickDue,
          TickAsks, TickEnds, StopMonitoring, CloseWork, JoinWorkers, CloseJobs,
          JoinAux, CloseResults, JoinConsumer, Finish, FinishFails, Teardown, MainGoto,
          Signal, Exited, vars, mainVars, statsVars, flags, WorkerStep, LoadStep,
          LoopTop, GetLoad, GetNothing, AddRecord, RedoStep, DrainRedo, DrainMiss,
          DrainEnd, ProcessRedo, SettleRedo, MixedStep, PollHit, PollMiss, ReportStep,
          WorkerFatal, PutCheck, PutEnqueue, PutFull, FetcherStep, FetchTop,
          FetchRecord, FetchEmpty, FetchError, FetchQuiet, FetchDrained, FetchGiveUp,
          FetchPutCheck, FetchEnqueue, FetchFatal, FetchReport, FetchClose, ReaderStep,
          ReadStop, ReadLine, ReaderReject, ReaderWrite, ReaderWriteHangs,
          ReaderComplete, ReaderPutCheck, ReaderEnqueue, ReaderGiveUp, ReaderClose,
          ReaderFinish, ConsumerStep, ConsumerGet, ConsumerClosed, SettleAck,
          SettleFails, SettleReject, SettleWrite, SettleWriteHangs, SettleComplete,
          SettleFatal, MarkFatal
    <2>3. ASSUME RUNNING, RUNNING' PROVE Undisturbed'
      <3>0. /\ ClosedInOrder /\ NoFailureSent /\ AllFollowed
            /\ \A w \in Workers : Orderly(w)
            /\ SkipLines < next /\ next \notin outOfOrder
            /\ ~HasRedo => RedoOver
            /\ \A w \in Workers : HasRedo => pc[w] # "get"
            /\ ~Monitoring => WorkersDone
        BY <1>0, <2>3 DEF Undisturbed, InAnyRun, OneLoop
      <3>1. ASSUME NEW w \in Workers, Worker(w) PROVE Undisturbed'
        <4>1. /\ WorkerStep(w)
              /\ UNCHANGED <<fpc, rpc, line_no, readError, cpc, outcome, mpc, next,
                             outOfOrder, inFlight>>
          BY <3>1 DEF Worker, fetcherVars, readerVars, consumerVars, mainVars,
                      loadStateVars, resumeVars
        <4>2. /\ Orderly(w)' /\ ClosedInOrder' /\ NoFailureSent'
              /\ LoadOver => LoadOver'
              /\ RedoOver => RedoOver'
          BY <1>0, <2>3, <3>0, <4>1, WorkerStepUndisturbed
        <4>3. \A v \in Workers \ {w} : UNCHANGED <<pc[v], held[v], act[v], open[v]>>
          <5>1. UNCHANGED open \/ \E sides : open' = [open EXCEPT ![w] = sides]
            BY <4>1
            DEF WorkerStep, LoadStep, LoopTop, GetLoad, GetNothing, AddRecord, RedoStep,
                DrainRedo, DrainMiss, DrainEnd, ProcessRedo, SettleRedo, MixedStep,
                PollHit, PollMiss, ReportStep, WorkerFatal, PutCheck, PutEnqueue, PutFull
          <5>2. \A v \in Workers \ {w} : open'[v] = open[v]
            BY <1>0, <5>1 DEF WorkerTypeOK
          <5> QED
            BY <1>0, <4>1, <5>2, OthersUntouched
        <4>4. \A v \in Workers : Orderly(v)'
          BY <3>0, <4>2, <4>3 DEF Orderly
        <4>5. AllFollowed'
          BY <3>0, <4>1 DEF AllFollowed, Followed, Completed
        <4>6. Monitoring'
          <5>1. pc[w] # "done"
            BY <4>1
            DEF WorkerStep, LoadStep, LoopTop, GetLoad, GetNothing, AddRecord, RedoStep,
                DrainRedo, DrainMiss, DrainEnd, ProcessRedo, SettleRedo, MixedStep,
                PollHit, PollMiss, ReportStep, WorkerFatal, PutCheck, PutEnqueue, PutFull
          <5> QED
            BY <3>0, <4>1, <5>1 DEF WorkersDone, Monitoring
        <4> QED
          BY <4>2, <4>4, <4>5, <4>6 DEF Undisturbed
      <3>2. CASE Fetcher
        <4>1. /\ FetcherStep(load_complete)
              /\ UNCHANGED <<pc, rpc, line_no, readError, cpc, outcome, mpc, next,
                             outOfOrder, inFlight>>
          BY <3>2
          DEF Fetcher, FetcherStep, FetchTop, FetchRecord, FetchEmpty, FetchError,
              FetchQuiet, FetchDrained, FetchGiveUp, FetchPutCheck, FetchEnqueue,
              FetchFatal, FetchReport, FetchClose, workerVars, readerVars, consumerVars,
              mainVars, loadStateVars, resumeVars
        <4>2. ClosedInOrder' /\ NoFailureSent' /\ \A w \in Workers : Orderly(w)'
          BY <1>0, <2>3, <3>0, <4>1, FetcherStepUndisturbed
        <4>3. AllFollowed'
          BY <3>0, <4>1 DEF AllFollowed, Followed, Completed
        <4> QED
          BY <3>0, <4>1, <4>2, <4>3 DEF Undisturbed, WorkersDone, Monitoring
      <3>3. CASE ReaderThread
        <4>1. ReaderStep /\ UNCHANGED <<consumerVars, mpc, pc>>
          BY <3>3
          DEF ReaderThread, ReaderStep, ReadStop, ReadLine, ReaderReject, ReaderWrite,
              ReaderWriteHangs, ReaderComplete, ReaderPutCheck, ReaderEnqueue,
              ReaderGiveUp, ReaderClose, ReaderFinish, otherThanReader, workerVars,
              mainVars
        <4>2. /\ ClosedInOrder' /\ NoFailureSent' /\ AllFollowed'
              /\ \A w \in Workers : Orderly(w)'
          BY <1>0, <2>3, <3>0, <4>1, ReaderStepUndisturbed
        <4> QED
          BY <3>0, <4>1, <4>2 DEF Undisturbed, WorkersDone, Monitoring
      <3>4. CASE Consumer
        <4>1. /\ ConsumerStep
              /\ UNCHANGED <<readerVars, mpc, pc, held, act, open, fpc, rpc, work, jobs>>
          BY <3>4
          DEF Consumer, ConsumerStep, ConsumerGet, ConsumerClosed, SettleAck,
              SettleFails, SettleReject, SettleWrite, SettleWriteHangs, SettleComplete,
              SettleFatal, otherThanConsumer, workerVars, fetcherVars, readerVars,
              mainVars, channels
        <4>2. NoFailureSent' /\ AllFollowed'
          BY <1>0, <2>3, <3>0, <4>1, ConsumerStepUndisturbed
        <4>3. ClosedInOrder' /\ \A w \in Workers : Orderly(w)'
          BY <3>0, <4>1 DEF ClosedInOrder, Orderly, LoadOver, RedoOver
        <4> QED
          BY <3>0, <4>1, <4>2, <4>3 DEF Undisturbed, WorkersDone, Monitoring
      <3>5. CASE MainStep \/ UNCHANGED vars
        BY <1>0, <2>3, <3>5, MainStepUndisturbed
      <3>6. CASE Signal
        BY <2>3, <3>6 DEF Signal
      <3> QED
        BY <1>3, <3>1, <3>2, <3>3, <3>4, <3>5, <3>6 DEF Next, Exited
    <2> QED
      BY <1>1, <2>1, <2>2, <2>3 DEF IRun
  <1> QED
    BY <1>2, <1>3

\* Before the first step nothing is disturbed.
LEMMA InitRun == Init => IRun
  <1> SUFFICES ASSUME Init PROVE IRun
    OBVIOUS
  <1>1. IFlight /\ ICount
    BY InitType, InitExact, InitFlight DEF Init, ICount
  <1>2. InAnyRun
    <2>1. SkipLines + 1 > SkipLines
      BY LinesAssumption
    <2> QED
      BY <2>1
      DEF Init, MainInit, StatsInit, LoadStateInit, ReaderInit, ConsumerInit,
          FetcherInit, WorkerInit, NewChannel, InAnyRun, OneLoop, ClosedBehind, RedoOver,
          Monitoring
  <1>3. Undisturbed
    <2>1. line_no = 0 /\ \A l \in Lines : ~(l <= line_no)
      BY LinesAssumption DEF Init, ReaderInit, Lines
    <2> QED
      BY <2>1
      DEF Init, MainInit, ConsumerInit, NoOutcome, FetcherInit, WorkerInit, NewChannel,
          ReaderInit, Undisturbed, ClosedInOrder, NoFailureSent, AllFollowed, Orderly,
          Monitoring
  <1> QED
    BY <1>1, <1>2, <1>3 DEF IRun

\* No file or terminal I/O outlasts the grace of a join.
IOIsPrompt == "slowIO" \notin Faults

\* In an undisturbed run every join waits for its thread.
JoinedInTime ==
    RUNNING =>
        /\ workersClean
        /\ cpc = "done" => results.q = <<>>
        /\ mpc \in {"closeResults", "joinConsumer", "finish", "teardown", "exited"} =>
              rpc = "done"
        /\ mpc \in {"finish", "teardown", "exited"} => cpc = "done"

\* Nothing has happened since the exit code was found to be 0, but a signal.
ZeroIsFinal ==
    mpc \in {"teardown", "exited"} /\ exitCode = OK /\ ~signalled =>
        RUNNING /\ ~readError /\ ~(ADDS_REJECTED > written)

IZero == IRun /\ LogCounted /\ JoinedInTime /\ ZeroIsFinal

\* Once the main thread closes the channels of an undisturbed run, nobody is in
\* the engine and nobody but the consumer has anything left to do.
LEMMA PoolGone ==
    ASSUME IRun, RUNNING, ~Monitoring
    PROVE  /\ WorkersDone /\ LoadOver /\ RedoOver
           /\ \A w \in Workers : held[w] = Nothing
           /\ IOIsPrompt => ~SlowCall
  <1>1. WorkersDone /\ \A w \in Workers : LoadOver /\ RedoOver /\ held[w] = Nothing
    BY DEF IRun, Undisturbed, WorkersDone, Orderly
  <1>2. LoadOver /\ RedoOver
    BY <1>1, WorkersAssumption
  <1>3. IOIsPrompt => ~SlowCall
    BY <1>1, <1>2
    DEF SlowCall, SlowWorker, SlowFetcher, SlowReader, SlowConsumer, InEngine, IOIsPrompt,
        WorkersDone, RedoOver
  <1> QED
    BY <1>1, <1>2, <1>3

\* Every step of the process leaves an exit with 0 what it stands for.
LEMMA NextZero ==
    ASSUME IOIsPrompt, IZero, [Next]_vars
    PROVE  IZero'
  <1>0. /\ IRun /\ JoinedInTime /\ ZeroIsFinal /\ WorkerTypeOK(Lines)
        /\ results.closed => mpc \in {"joinConsumer", "finish", "teardown", "exited"}
        /\ Monitoring \/ mpc \in {"closeWork", "joinWorkers"} => workersClean
        /\ cpc = "done" => results.closed
        /\ RUNNING /\ ~Monitoring => WorkersDone /\ LoadOver /\ RedoOver /\ ~SlowCall
    BY PoolGone, ITypeParts
    DEF IZero, IRun, IFlight, OpenUntilJoined, InAnyRun, ClosedBehind, SharedTypeOK,
        Monitoring
  <1>1. IRun' /\ LogCounted' /\ (RUNNING' => RUNNING)
    BY NextRun, NextLogCounted DEF IZero, IRun, IFlight
  <1> SUFFICES JoinedInTime' /\ ZeroIsFinal'
    BY <1>1 DEF IZero
  <1>2. ASSUME NEW w \in Workers, Worker(w) PROVE JoinedInTime' /\ ZeroIsFinal'
    <2>1. WorkerStep(w) /\ UNCHANGED <<mpc, workersClean, exitCode, signalled, cpc, rpc>>
      BY <1>2 DEF Worker, mainVars, consumerVars, readerVars
    <2>2. pc[w] # "done"
      BY <2>1
      DEF WorkerStep, LoadStep, LoopTop, GetLoad, GetNothing, AddRecord, RedoStep,
          DrainRedo, DrainMiss, DrainEnd, ProcessRedo, SettleRedo, MixedStep, PollHit,
          PollMiss, ReportStep, WorkerFatal, PutCheck, PutEnqueue, PutFull
    <2>3. RUNNING => Monitoring
      BY <1>0, <2>2 DEF WorkersDone
    <2> QED
      BY <1>0, <1>1, <2>1, <2>3 DEF JoinedInTime, ZeroIsFinal, Monitoring
  <1>3. CASE Fetcher
    <2>1. fpc # "done" /\ UNCHANGED <<mpc, workersClean, exitCode, signalled, cpc, rpc>>
      BY <1>3
      DEF Fetcher, FetcherStep, FetchTop, FetchRecord, FetchEmpty, FetchError,
          FetchQuiet, FetchDrained, FetchGiveUp, FetchPutCheck, FetchEnqueue,
          FetchFatal, FetchReport, FetchClose, mainVars, consumerVars, readerVars
    <2>2. RUNNING => Monitoring
      BY <1>0, <2>1 DEF RedoOver
    <2> QED
      BY <1>0, <1>1, <2>1, <2>2 DEF JoinedInTime, ZeroIsFinal, Monitoring
  <1>4. CASE ReaderThread
    <2>1. rpc # "done" /\ UNCHANGED <<mpc, workersClean, exitCode, signalled, cpc, results>>
      BY <1>4
      DEF ReaderThread, ReaderStep, ReadStop, ReadLine, ReaderReject, ReaderWrite,
          ReaderWriteHangs, ReaderComplete, ReaderPutCheck, ReaderEnqueue, ReaderGiveUp,
          PutFails, ReaderClose, ReaderFinish, mainVars, consumerVars, channels
    <2> QED
      BY <1>0, <1>1, <2>1 DEF JoinedInTime, ZeroIsFinal, Monitoring
  <1>5. CASE Consumer
    <2>1. /\ cpc # "done" /\ UNCHANGED <<mpc, workersClean, exitCode, signalled, rpc>>
          /\ cpc' = "done" => results' = results /\ results.q = <<>>
      BY <1>5
      DEF Consumer, ConsumerStep, ConsumerGet, ConsumerClosed, ResultsEnd, HasItem,
          SettleAck, SettleFails, SettleReject, SettleWrite, SettleWriteHangs,
          SettleComplete, SettleFatal, mainVars, readerVars, channels
    <2> QED
      BY <1>0, <1>1, <2>1 DEF JoinedInTime, ZeroIsFinal, Monitoring
  <1>6. CASE MainStep
    <2>1. /\ UNCHANGED <<RUNNING, WORKER_FATAL, ADDS_REJECTED, signalled, rpc, fpc, cpc, pc,
                         readError, written>>
          /\ results' = results \/ results' = Closed(results)
      BY <1>6
      DEF MainStep, TickDue, TickAsks, TickEnds, StopMonitoring, CloseWork, JoinWorkers,
          CloseJobs, JoinAux, CloseResults, JoinConsumer, Finish, FinishFails, Teardown,
          MainGoto, othersVars, statsVars, flags, addCounters, readerVars, fetcherVars,
          consumerVars, workerVars, loadStateVars, sinkVars, channels
    <2>2. results'.q = results.q
      BY <1>0, <2>1, ClosedType DEF WorkerTypeOK
    <2>3. CASE TickDue \/ TickAsks \/ TickEnds \/ StopMonitoring \/ CloseWork
          \/ CloseJobs \/ CloseResults \/ JoinConsumer
      BY <1>0, <2>1, <2>2, <2>3
      DEF TickDue, TickAsks, TickEnds, StopMonitoring, CloseWork, CloseJobs,
          CloseResults, JoinConsumer, Join, MainGoto, JoinedInTime, ZeroIsFinal,
          Monitoring
    <2>4. CASE JoinWorkers \/ JoinAux
      BY <1>0, <2>1, <2>2, <2>4
      DEF JoinWorkers, JoinAux, Join, AuxDone, MainGoto, JoinedInTime, ZeroIsFinal, Monitoring
    <2>5. CASE Finish
      BY <1>0, <2>1, <2>2, <2>5
      DEF Finish, Failed, MainGoto, JoinedInTime, ZeroIsFinal, IRun, InAnyRun, OK, FATAL,
          Monitoring
    <2>6. CASE FinishFails \/ Teardown
      BY <1>0, <2>1, <2>2, <2>6
      DEF FinishFails, Teardown, MainGoto, JoinedInTime, ZeroIsFinal, OK, UNCAUGHT, Monitoring
    <2> QED
      BY <1>6, <2>3, <2>4, <2>5, <2>6 DEF MainStep
  <1>7. CASE Signal
    BY <1>7 DEF Signal, JoinedInTime, ZeroIsFinal
  <1>8. CASE UNCHANGED vars
    BY <1>0, <1>8
    DEF vars, mainVars, statsVars, flags, addCounters, readerVars, consumerVars,
        loadStateVars, sinkVars, channels, JoinedInTime, ZeroIsFinal
  <1> QED
    BY <1>2, <1>3, <1>4, <1>5, <1>6, <1>7, <1>8 DEF Next, Exited

\* A process that was not told to stop and exits with 0 has completed every line
\* of its file, has no rejected body that is only in the log, and has finished
\* every redo record it fetched, if no I/O call outlasts the grace: an engine call
\* may, and so may any thread fail.
THEOREM ZeroMeansLoaded ==
    ASSUME IOIsPrompt
    PROVE  Spec => []ExitZeroMeansLoaded
  <1>1. Init => IZero
    <2> SUFFICES ASSUME Init PROVE IZero
      OBVIOUS
    <2>1. IRun
      BY InitRun
    <2> QED
      BY <2>1
      DEF Init, MainInit, StatsInit, LoadStateInit, ReaderInit, ConsumerInit, IZero,
          LogCounted, Writing, JoinedInTime, ZeroIsFinal
  <1>2. IZero => ExitZeroMeansLoaded
    <2> SUFFICES ASSUME IZero, ExitedOK, ~signalled
                 PROVE  /\ Watermark >= LastLine /\ logged = {}
                        /\ REDO_OUTSTANDING = 0 /\ jobs.q = <<>>
      BY DEF ExitZeroMeansLoaded
    <2>0. /\ OwnTypeOK /\ LoadStateTypeOK /\ SharedTypeOK(Lines) /\ InAnyRun
          /\ LogCounted /\ OutstandingExact
          /\ LastLine \in Nat /\ SkipLines \in Nat
      BY ITypeParts, LinesAssumption DEF IZero, IRun, ICount, OwnTypeOK
    <2>1. RUNNING /\ ~readError /\ ~(ADDS_REJECTED > written)
      BY DEF IZero, ZeroIsFinal, ExitedOK
    <2>2. logged = {}
      BY <2>0, <2>1 DEF LogCounted, Writing, SharedTypeOK, StatsTypeOK, LoadStateTypeOK
    <2>3. Undisturbed
      BY <2>1 DEF IZero, IRun
    <2>4. /\ workersClean /\ rpc = "done" /\ cpc = "done" /\ results.q = <<>>
          /\ mpc = "exited"
      BY <2>1 DEF IZero, JoinedInTime, ExitedOK
    <2>5. LoadOver /\ RedoOver /\ \A w \in Workers : held[w] = Nothing
      BY <2>1, <2>4, PoolGone DEF IZero, Monitoring
    <2>7. REDO_OUTSTANDING = 0
      <3> DEFINE R == {w \in Workers : held[w].side = "redo"}
      <3>1. Cardinality(R) = 0 /\ Len(jobs.q) = 0
        <4>1. R = {}
          BY <2>5 DEF Nothing
        <4> QED
          BY <2>5, <4>1, FS_EmptySet DEF RedoOver
      <3>2. REDO_OUTSTANDING = Len(jobs.q) + Cardinality(R) + 0
        BY <2>0, <2>5 DEF OutstandingExact, RedoOver
      <3> HIDE DEF R
      <3> QED
        BY <3>1, <3>2
    <2>8. inFlight = {}
      <3>1. Covered
        BY <2>4 DEF IZero, IRun, IFlight
      <3>2. FedLine = {} /\ HeldLines = {}
        BY <2>4, <2>5 DEF FedLine, HeldLines, Nothing
      <3>3. LinesOf(work.q) = {} /\ LinesOf(results.q) = {}
        BY <2>4, <2>5 DEF LoadOver, LinesOf
      <3> QED
        BY <3>1, <3>2, <3>3 DEF Covered, Dispatched
    <2>9. line_no = LastLine
      BY <2>1, <2>3, <2>4 DEF Undisturbed, AllFollowed
    <2>10. \A l \in Lines : SkipLines < l => Completed(l)
      BY <2>0, <2>1, <2>3, <2>4, <2>8, <2>9 DEF Undisturbed, AllFollowed, Followed, Lines
    <2>11. next > LastLine
      <3> SUFFICES ASSUME ~(next > LastLine) PROVE FALSE
        OBVIOUS
      <3>1. next \in Lines /\ SkipLines < next /\ next \notin outOfOrder
        BY <2>0 DEF LoadStateTypeOK, InAnyRun, Lines
      <3> QED
        BY <2>0, <2>10, <3>1 DEF Completed, LoadStateTypeOK
    <2> QED
      BY <2>0, <2>2, <2>5, <2>7, <2>11 DEF Watermark, RedoOver, LoadStateTypeOK
  <1>3. IZero /\ [Next]_vars => IZero'
    BY NextZero
  <1> QED
    BY <1>1, <1>2, <1>3, PTL DEF Spec

-----------------------------------------------------------------------------
(* Nobody waits for ever *)

\* An empty channel has room, whatever it was created for.
LEMMA EmptyHasRoom ==
    ASSUME NEW ch, ch.q = <<>>, NEW n \in Nat
    PROVE  HasRoom(ch, n) /\ ~HasItem(ch)
  BY DEF HasRoom, Capacity, HasItem

\* When nobody has a redo record and no line is under way, nothing is outstanding
\* and the load is complete.
LEMMA NothingUnderWay ==
    ASSUME IRun, workersClean, readerDone, rpc = "done", fpc \notin {"put", "enq"},
           work.q = <<>>, jobs.q = <<>>, results.q = <<>>,
           \A w \in Workers : held[w].side # "redo" /\ held[w].line = 0
    PROVE  ~CascadePossible /\ load_complete
  <1>1. ~CascadePossible
    <2> DEFINE R == {w \in Workers : held[w].side = "redo"}
    <2>1. R = {} /\ Len(jobs.q) = 0
      OBVIOUS
    <2>2. Cardinality(R) = 0
      BY <2>1, FS_EmptySet
    <2>3. REDO_OUTSTANDING = Len(jobs.q) + Cardinality(R) + 0
      BY DEF IRun, ICount, OutstandingExact
    <2> HIDE DEF R
    <2> QED
      BY <2>1, <2>2, <2>3 DEF CascadePossible
  <1>2. load_complete
    <2>1. FedLine = {} /\ HeldLines = {} /\ LinesOf(work.q) = {} /\ LinesOf(results.q) = {}
      BY DEF FedLine, HeldLines, LinesOf
    <2> QED
      BY <2>1 DEF IRun, IFlight, Covered, Dispatched, load_complete
  <1> QED
    BY <1>1, <1>2

\* While the main thread watches a run, a worker that looks in vain has a thread
\* that feeds it still at work.
LEMMA SomebodyFeeds ==
    ASSUME IRun, RUNNING, mpc = "monitor", LockFree, results.q = <<>>,
           ReaderWaits, FetcherWaits, fpc # "fenq",
           \A v \in Workers : pc[v] # "enq" /\ WorkerWaits(v),
           NEW w \in Workers, pc[w] # "done"
    PROVE  FALSE
  <1>0. /\ WorkerTypeOK(Lines) /\ InAnyRun /\ Undisturbed /\ workersClean
        /\ WorkSize \in Nat /\ JobsRoom \in Nat
    BY ITypeParts, WorkersAssumption, JobsRoomAssumption, FS_CardinalityType
    DEF IRun, IFlight, OpenUntilJoined, Monitoring, SharedTypeOK, WorkSize
  <1>1. /\ open[w] # {} /\ open[w] \subseteq {"load", "redo"}
        /\ "load" \in open[w] => work.q = <<>> /\ ~work.closed
        /\ "redo" \in open[w] => jobs.q = <<>> /\ ~jobs.closed
    BY <1>0 DEF WorkerWaits, HasItem, WorkerTypeOK
  <1>2. CASE "load" \in open[w]
    <2>1. rpc # "done" /\ HasRoom(work, WorkSize)
      BY <1>0, <1>1, <1>2, EmptyHasRoom DEF InAnyRun, ClosedBehind
    <2> QED
      BY <2>1 DEF ReaderWaits, LockFree
  <1>3. CASE "load" \notin open[w]
    <2>1. HasRedo /\ jobs.q = <<>> /\ ~jobs.closed
      BY <1>0, <1>1, <1>3 DEF InAnyRun, OneLoop
    <2>2. fpc # "done" /\ HasRoom(jobs, JobsRoom)
      BY <1>0, <2>1, EmptyHasRoom DEF InAnyRun, ClosedBehind
    <2>3. /\ fpc \in {"top", "probe", "quiet?", "loaded?"}
          /\ CascadePossible \/ ~load_complete
      BY <2>2 DEF FetcherWaits, LockStuck
    <2>4. rpc = "done" /\ readerDone /\ work.q = <<>>
      BY <1>0, <1>3
      DEF InAnyRun, ClosedBehind, Undisturbed, Orderly, LoadOver, ReaderWaits, LockFree
    <2>5. \A v \in Workers : held[v].side # "redo" /\ held[v].line = 0
      <3> SUFFICES ASSUME NEW v \in Workers PROVE held[v].side # "redo" /\ held[v].line = 0
        OBVIOUS
      <3>1. CASE pc[v] = "done"
        BY <1>0, <3>1 DEF Undisturbed, Orderly, Nothing
      <3>2. CASE pc[v] \in {"top", "get", "probe1", "probe2"}
        BY <3>2 DEF IRun, IFlight, ICount, AtWork, RedoInHand
      <3> QED
        BY <3>1, <3>2 DEF WorkerWaits
    <2> QED
      BY <1>0, <2>1, <2>3, <2>4, <2>5, NothingUnderWay
  <1> QED
    BY <1>2, <1>3

\* The threads of a load never all wait for each other, whatever fails or hangs.
THEOREM NeverDeadlocked == Spec => []NoDeadlock
  <1>1. ASSUME IRun PROVE NoDeadlock
    <2> SUFFICES ASSUME \A w \in Workers : WorkerWaits(w) \/ SlowWorker(w),
                        ReaderWaits \/ SlowReader,
                        FetcherWaits \/ SlowFetcher,
                        ConsumerWaits \/ SlowConsumer,
                        MainWaits \/ SlowMain,
                        ~LockStuck, ~SlowMain, ~(SlowCall /\ RUNNING)
                 PROVE  FALSE
      BY DEF NoDeadlock
    <2>0. MainWaits /\ LockFree
      BY DEF LockStuck
    <2>1. ~SlowCall
      BY <2>0 DEF MainWaits, Join, LockStuck
    <2>2. /\ \A w \in Workers : WorkerWaits(w)
          /\ ReaderWaits /\ FetcherWaits /\ ConsumerWaits
      BY <2>1 DEF SlowCall
    <2>3. /\ mpc \in {"monitor", "joinWorkers", "joinAux", "joinConsumer"}
          /\ mpc = "monitor" => RUNNING /\ ~WorkersDone
          /\ mpc = "joinWorkers" => ~WorkersDone
          /\ mpc = "joinAux" => ~AuxDone
          /\ mpc = "joinConsumer" => cpc # "done"
      BY <2>0 DEF MainWaits, Join, LockStuck
    <2>4. InAnyRun /\ OpenUntilJoined /\ ResultsSize \in Nat
      BY <1>1, WorkersAssumption, FS_CardinalityType DEF IRun, IFlight, ResultsSize
    <2>5. results.q = <<>> /\ ~results.closed
      BY <1>1, <2>0, <2>2, <2>3, <2>4
      DEF ConsumerWaits, LockFree, HasItem, InAnyRun, ClosedBehind, OpenUntilJoined, Monitoring
    <2>6. HasRoom(results, ResultsSize)
      BY <2>4, <2>5, EmptyHasRoom
    <2>7. fpc # "fenq" /\ \A w \in Workers : pc[w] # "enq"
      BY <2>2, <2>6 DEF FetcherWaits, WorkerWaits
    <2>8. CASE mpc = "monitor"
      BY <1>1, <2>0, <2>2, <2>3, <2>5, <2>7, <2>8, SomebodyFeeds DEF WorkersDone
    <2>9. CASE mpc = "joinWorkers"
      <3>1. RUNNING
        BY <2>2, <2>3, <2>7, <2>9 DEF WorkersDone, WorkerWaits
      <3> QED
        BY <1>1, <2>3, <2>9, <3>1, PoolGone DEF Monitoring
    <2>10. CASE mpc = "joinAux"
      <3>1. rpc = "done" /\ fpc # "done"
        BY <2>0, <2>2, <2>3, <2>4, <2>10
        DEF ReaderWaits, LockFree, InAnyRun, ClosedBehind, AuxDone, Monitoring
      <3>2. HasRedo /\ jobs.closed
        BY <2>4, <2>10, <3>1 DEF InAnyRun, ClosedBehind, RedoOver, Monitoring
      <3>3. RUNNING
        BY <2>0, <2>2, <2>7, <3>1, <3>2 DEF FetcherWaits, LockStuck
      <3> QED
        BY <1>1, <2>10, <3>1, <3>3, PoolGone DEF RedoOver, Monitoring
    <2>11. CASE mpc = "joinConsumer"
      BY <2>4, <2>5, <2>11 DEF InAnyRun, ClosedBehind, Monitoring
    <2> QED
      BY <2>3, <2>8, <2>9, <2>10, <2>11
  <1>2. IRun /\ [Next]_vars => IRun'
    BY NextRun
  <1> QED
    BY <1>1, <1>2, InitRun, PTL DEF Spec

-----------------------------------------------------------------------------
(* The redo at stake *)

\* The records answered for whose count is still to come down.
Settling ==
    {w \in Workers : held[w].side = "redo" /\ act[w] \in {"ACK", "REJECT", "DIED"}}

\* The records fetched that are neither answered for nor outstanding any more.
Astray == Fetched - Answered - REDO_OUTSTANDING + Cardinality(Settling)

InHand == IF fpc \in {"put", "enq"} THEN 1 ELSE 0

\* A worker has a verdict from the engine's answer to the end of its report, and
\* a fatal one is flagged before it is reported.
Verdict(w) ==
    /\ pc[w] \in {"top", "get", "probe1", "probe2", "call"} => act[w] = "none"
    /\ pc[w] = "fatal" => act[w] \in {"FATAL", "DIED"}
    /\ pc[w] \in {"put", "enq", "settle"} => act[w] # "none"
    /\ pc[w] = "settle" => act[w] # "DIED"
    /\ pc[w] \in {"put", "enq", "settle"} /\ act[w] = "FATAL" => WORKER_FATAL

\* Only the fetcher that is told to stop leaves a record behind, and its last one.
RedoFollowed ==
    /\ \A w \in Workers : Verdict(w)
    /\ Len(jobs.q) <= JobsRoom
    /\ ~WORKER_FATAL =>
          /\ Astray \in {0, 1}
          /\ Astray = 1 => fpc \in {"close", "done"} /\ ~RUNNING

IStake == IRun /\ RedoFollowed

\* What a worker's step may do with the record it has.
LeavesRedo ==
    UNCHANGED <<Fetched, Answered, REDO_OUTSTANDING>> /\ Settling' = Settling
AnswersRedo(w) ==
    /\ UNCHANGED <<Fetched, REDO_OUTSTANDING>> /\ Answered' = Answered + 1
    /\ w \notin Settling /\ Settling' = Settling \union {w}
LetsGoOfRedo(w) ==
    /\ UNCHANGED <<Fetched, Answered>> /\ REDO_OUTSTANDING' = REDO_OUTSTANDING - 1
    /\ w \in Settling /\ Settling' = Settling \ {w}

\* The types these counts need.
LEMMA StakeTypes ==
    ASSUME IType
    PROVE  /\ Fetched \in Int /\ Answered \in Nat /\ REDO_OUTSTANDING \in Int
           /\ jobs \in Channel({RedoJob}) /\ jobs.q \in Seq({RedoJob}) /\ Len(jobs.q) \in Nat
           /\ IsFiniteSet(Settling) /\ Cardinality(Settling) \in Nat
  <1>1. /\ Fetched \in Int /\ Answered \in Nat /\ REDO_OUTSTANDING \in Int
        /\ jobs \in Channel({RedoJob}) /\ jobs.q \in Seq({RedoJob}) /\ Len(jobs.q) \in Nat
    BY ITypeParts, MaxRedoAssumption
    DEF SharedTypeOK, StatsTypeOK, EngineTypeOK, WorkerTypeOK, Channel, Fetched, Answered
  <1>2. Settling \in SUBSET Workers
    BY DEF Settling
  <1> QED
    BY <1>1, <1>2, WorkersAssumption, FS_Subset, FS_CardinalityType

\* A worker's step keeps the verdicts, its own and the others'.
LEMMA WorkerStepVerdict ==
    ASSUME IType, RedoInHand, NEW w \in Workers, WorkerStep(w),
           \A v \in Workers : Verdict(v)
    PROVE  \A v \in Workers : Verdict(v)'
  <1>0. WorkerTypeOK(Lines) /\ HasLoad
    BY ITypeParts, FileLoaderAssumption DEF SharedTypeOK
  <1> USE DEF Verdict, Goto, Become, BackToTop, WorkerTypeOK
  <1>1. CASE LoadStep(w)
    BY <1>0, <1>1
    DEF LoadStep, LoopTop, GetLoad, GetNothing, AddRecord, TakeLoad, TakeFrom, statsVars, flags
  <1>2. CASE RedoStep(w)
    BY <1>0, <1>2
    DEF RedoStep, DrainRedo, DrainMiss, DrainEnd, ProcessRedo, SettleRedo, flags
  <1>3. CASE MixedStep(w)
    BY <1>0, <1>3
    DEF MixedStep, PollHit, PollMiss, TakeLoad, TakeRedo, TakeFrom, statsVars, flags
  <1>4. CASE WorkerFatal(w)
    BY <1>0, <1>4 DEF WorkerFatal, MarkFatal
  <1>5. CASE PutCheck(w) \/ PutEnqueue(w) \/ PutFull(w)
    <2>1. /\ pc[w] \in {"put", "enq"} /\ UNCHANGED WORKER_FATAL
          /\ AfterPut(w) \/ (Goto(w, "enq") /\ UNCHANGED act)
      BY <1>5 DEF PutCheck, PutEnqueue, PutFull, statsVars, flags
    <2> QED
      BY <1>0, <2>1 DEF AfterPut
  <1> QED
    BY <1>1, <1>2, <1>3, <1>4, <1>5 DEF WorkerStep, ReportStep

\* A worker's step that flags no fatal error loses no record.
LEMMA WorkerStepAnswers ==
    ASSUME IType, RedoInHand, NEW w \in Workers, WorkerStep(w), Verdict(w), ~WORKER_FATAL'
    PROVE  LeavesRedo \/ AnswersRedo(w) \/ LetsGoOfRedo(w)
  <1>0. WorkerTypeOK(Lines) /\ HasLoad
    BY ITypeParts, FileLoaderAssumption DEF SharedTypeOK
  <1>1. redoQueue \in Int /\ redoBudget \in Int /\ REDOS_PROCESSED \in Nat /\ REDOS_DROPPED \in Nat
    BY ITypeParts, MaxRedoAssumption DEF SharedTypeOK, StatsTypeOK, EngineTypeOK
  <1> USE DEF Verdict, Goto, Become, BackToTop, WorkerTypeOK, Settling
  <1>2. CASE LoadStep(w)
    <2>1. UNCHANGED <<Fetched, Answered, REDO_OUTSTANDING>>
      BY <1>1, <1>2, MaxRedoAssumption
      DEF LoadStep, LoopTop, GetLoad, GetNothing, AddRecord, EngineAdd, Cascade, Fetched,
          Answered, statsVars, redoCounters, engineVars
    <2>2. Settling' = Settling
      BY <1>0, <1>2
      DEF LoadStep, LoopTop, GetLoad, GetNothing, AddRecord, TakeLoad, TakeFrom
    <2> QED
      BY <2>1, <2>2 DEF LeavesRedo
  <1>3. CASE MixedStep(w)
    <2>1. UNCHANGED <<Fetched, Answered, REDO_OUTSTANDING>>
      BY <1>3 DEF MixedStep, PollHit, PollMiss, Fetched, Answered, statsVars, redoCounters,
                  engineVars
    <2>2. Settling' = Settling
      BY <1>0, <1>3
      DEF MixedStep, PollHit, PollMiss, TakeLoad, TakeRedo, TakeFrom, RedoInHand
    <2> QED
      BY <2>1, <2>2 DEF LeavesRedo
  <1>4. CASE ProcessRedo(w)
    <2>1. UNCHANGED <<Fetched, REDO_OUTSTANDING, held>>
      BY <1>1, <1>4, MaxRedoAssumption DEF ProcessRedo, EngineRedo, Cascade, engineVars, Fetched
    <2>2. CASE act' = [act EXCEPT ![w] = "FATAL"] /\ UNCHANGED Answered
      BY <1>0, <1>4, <2>1, <2>2 DEF ProcessRedo, LeavesRedo
    <2>3. CASE /\ \E kind \in {"ACK", "REJECT", "DIED"} : act' = [act EXCEPT ![w] = kind]
               /\ Answered' = Answered + 1
      BY <1>0, <1>4, <2>1, <2>3 DEF ProcessRedo, AnswersRedo
    <2> QED
      BY <1>1, <1>4, <2>2, <2>3 DEF ProcessRedo, Answered, redoCounters
  <1>5. CASE SettleRedo(w)
    <2>1. /\ UNCHANGED <<Fetched, Answered>> /\ REDO_OUTSTANDING' = REDO_OUTSTANDING - 1
          /\ UNCHANGED WORKER_FATAL
      BY <1>5 DEF SettleRedo, Finished, Fetched, Answered, redoCounters, engineVars, flags
    <2>2. w \in Settling
      BY <1>0, <1>5, <2>1 DEF SettleRedo, RedoInHand
    <2>3. Settling' = Settling \ {w}
      BY <1>0, <1>5 DEF SettleRedo, Nothing
    <2> QED
      BY <2>1, <2>2, <2>3 DEF LetsGoOfRedo
  <1>6. CASE PutCheck(w) \/ PutEnqueue(w) \/ PutFull(w)
    <2>1. UNCHANGED <<Fetched, Answered, REDO_OUTSTANDING>>
      BY <1>6 DEF PutCheck, PutEnqueue, PutFull, Fetched, Answered, statsVars, redoCounters,
                  engineVars
    <2>2. /\ pc[w] \in {"put", "enq"}
          /\ AfterPut(w) \/ UNCHANGED <<held, act>>
      BY <1>6 DEF PutCheck, PutEnqueue, PutFull
    <2>3. Settling' = Settling
      BY <1>0, <2>2 DEF AfterPut, Nothing, RedoJob
    <2> QED
      BY <2>1, <2>3 DEF LeavesRedo
  <1>7. ~WorkerFatal(w) /\ ~(DrainRedo(w) \/ DrainMiss(w) \/ DrainEnd(w))
    BY <1>0 DEF WorkerFatal, MarkFatal, DrainRedo, DrainMiss, DrainEnd
  <1> QED
    BY <1>2, <1>3, <1>4, <1>5, <1>6, <1>7 DEF WorkerStep, RedoStep, ReportStep

\* So it keeps the records followed.
LEMMA WorkerStepStake ==
    ASSUME IStake, NEW w \in Workers, WorkerStep(w), UNCHANGED fpc, RUNNING' => RUNNING
    PROVE  RedoFollowed'
  <1>0. /\ IType /\ RedoInHand /\ WorkerTypeOK(Lines)
        /\ Fetched \in Int /\ Answered \in Nat /\ REDO_OUTSTANDING \in Int
        /\ jobs \in Channel({RedoJob}) /\ jobs.q \in Seq({RedoJob}) /\ Len(jobs.q) \in Nat
        /\ IsFiniteSet(Settling) /\ Cardinality(Settling) \in Nat
    BY StakeTypes, ITypeParts DEF IStake, IRun, ICount, SharedTypeOK
  <1>1. \A v \in Workers : Verdict(v)'
    BY <1>0, WorkerStepVerdict DEF IStake, RedoFollowed
  <1>2. Len(jobs'.q) <= JobsRoom
    <2>1. jobs' = jobs \/ (HasItem(jobs) /\ jobs' = Dequeued(jobs))
      BY DEF WorkerStep, LoadStep, LoopTop, GetLoad, GetNothing, AddRecord, RedoStep,
             DrainRedo, DrainMiss, DrainEnd, ProcessRedo, SettleRedo, MixedStep, PollHit,
             PollMiss, ReportStep, WorkerFatal, PutCheck, PutEnqueue, PutFull, TakeLoad,
             TakeRedo, channels
    <2>2. CASE HasItem(jobs) /\ jobs' = Dequeued(jobs)
      <3>1. jobs'.q = Tail(jobs.q) /\ jobs.q # <<>>
        BY <1>0, <2>2, DequeuedType DEF HasItem
      <3>2. Len(jobs'.q) = Len(jobs.q) - 1
        BY <1>0, <3>1
      <3> QED
        BY <1>0, <3>2, JobsRoomAssumption DEF IStake, RedoFollowed
    <2> QED
      BY <2>1, <2>2 DEF IStake, RedoFollowed
  <1>3. ASSUME ~WORKER_FATAL'
        PROVE  ~WORKER_FATAL /\ Astray' = Astray
    <2>1. ~WORKER_FATAL
      BY <1>3
      DEF WorkerStep, LoadStep, LoopTop, GetLoad, GetNothing, AddRecord, RedoStep,
          DrainRedo, DrainMiss, DrainEnd, ProcessRedo, SettleRedo, MixedStep, PollHit,
          PollMiss, ReportStep, WorkerFatal, MarkFatal, PutCheck, PutEnqueue, PutFull,
          statsVars, flags
    <2> SUFFICES Astray' = Astray
      BY <2>1
    <2>2. LeavesRedo \/ AnswersRedo(w) \/ LetsGoOfRedo(w)
      BY <1>0, <1>3, WorkerStepAnswers DEF IStake, RedoFollowed
    <2>3. CASE LeavesRedo
      BY <2>3 DEF LeavesRedo, Astray
    <2>4. CASE AnswersRedo(w)
      <3>1. Cardinality(Settling') = Cardinality(Settling) + 1
        BY <1>0, <2>4, FS_AddElement DEF AnswersRedo
      <3> QED
        BY <1>0, <2>4, <3>1 DEF AnswersRedo, Astray
    <2>5. CASE LetsGoOfRedo(w)
      <3>1. Cardinality(Settling') = Cardinality(Settling) - 1
        BY <1>0, <2>5, FS_RemoveElement DEF LetsGoOfRedo
      <3> QED
        BY <1>0, <2>5, <3>1 DEF LetsGoOfRedo, Astray
    <2> QED
      BY <2>2, <2>3, <2>4, <2>5
  <1> QED
    BY <1>1, <1>2, <1>3 DEF IStake, RedoFollowed

\* The fetcher brings no more than the channel holds, and leaves one behind only
\* when it is told to stop.
LEMMA FetcherStepStake ==
    ASSUME IStake, NEW complete \in BOOLEAN, FetcherStep(complete)
    PROVE  RedoFollowed'
  <1>0. /\ Fetched \in Int /\ Answered \in Nat /\ REDO_OUTSTANDING \in Int
        /\ jobs \in Channel({RedoJob}) /\ jobs.q \in Seq({RedoJob}) /\ Len(jobs.q) \in Nat
        /\ Cardinality(Settling) \in Nat /\ FetcherTypeOK
        /\ redoQueue \in Int /\ redoBudget \in Int
    BY StakeTypes, ITypeParts, MaxRedoAssumption
    DEF IStake, IRun, ICount, SharedTypeOK, EngineTypeOK, OwnTypeOK
  <1>1. /\ UNCHANGED <<pc, held, act, Answered>> /\ Settling' = Settling
        /\ UNCHANGED flags \/ (WORKER_FATAL' /\ ~RUNNING')
        /\ fpc # "done"
    BY DEF FetcherStep, FetchTop, FetchRecord, FetchEmpty, FetchError, FetchQuiet,
           FetchDrained, FetchGiveUp, FetchPutCheck, FetchEnqueue, FetchFatal, MarkFatal,
           FetchReport, FetchClose, workerVars, statsVars, flags, redoCounters, Answered,
           Settling
  <1>2. \A w \in Workers : Verdict(w)'
    BY <1>1 DEF IStake, RedoFollowed, Verdict, flags
  <1>3. Len(jobs'.q) <= JobsRoom
    <2>1. CASE FetchEnqueue
      <3>1. Len(jobs'.q) = Len(jobs.q) + 1
        BY <1>0, <2>1, EnqueuedType DEF FetchEnqueue
      <3>2. Len(jobs.q) < JobsRoom
        <4>1. Cardinality(RedoPreferring) \in Nat
          BY WorkersAssumption, FS_Subset, FS_CardinalityType
        <4> QED
          BY <1>0, <2>1, <4>1, FileLoaderAssumption DEF FetchEnqueue, HasRoom, Capacity
      <3> QED
        BY <1>0, <3>1, <3>2, JobsRoomAssumption
    <2>2. CASE ~FetchEnqueue
      <3>1. jobs'.q = jobs.q
        BY <1>0, <2>2, ClosedType
        DEF FetcherStep, FetchTop, FetchRecord, FetchEmpty, FetchError, FetchQuiet,
            FetchDrained, FetchGiveUp, FetchPutCheck, FetchFatal, FetchReport, FetchClose,
            channels
      <3> QED
        BY <3>1 DEF IStake, RedoFollowed
    <2> QED
      BY <2>1, <2>2
  <1>4. ASSUME ~WORKER_FATAL'
        PROVE  /\ Astray' \in {0, 1}
               /\ Astray' = 1 => fpc' \in {"close", "done"} /\ ~RUNNING'
    <2>1. UNCHANGED flags /\ ~WORKER_FATAL
      BY <1>1, <1>4 DEF flags
    <2>2. Astray \in {0, 1} /\ (Astray = 1 => fpc \in {"close", "done"} /\ ~RUNNING)
      BY <2>1 DEF IStake, RedoFollowed
    <2>3. CASE FetchRecord
      <3>1. /\ Fetched' = Fetched + 1 /\ REDO_OUTSTANDING' = REDO_OUTSTANDING + 1
            /\ fpc = "probe"
        BY <1>0, <2>3, MaxRedoAssumption DEF FetchRecord, EngineGetRedo, Fetched
      <3>2. Astray' = Astray
        BY <1>0, <1>1, <3>1 DEF Astray
      <3> QED
        BY <2>2, <3>1, <3>2
    <2>4. CASE FetchGiveUp
      <3>1. /\ UNCHANGED Fetched /\ REDO_OUTSTANDING' = REDO_OUTSTANDING - 1
            /\ fpc \in {"put", "enq"} /\ fpc' = "close"
        BY <2>4 DEF FetchGiveUp, Forget, engineVars, Fetched
      <3>2. ~RUNNING
        <4>1. HasRedo
          BY <3>1 DEF IStake, IRun, InAnyRun, RedoOver
        <4>2. RUNNING => ~jobs.closed
          BY <3>1, <4>1 DEF IStake, IRun, Undisturbed, ClosedInOrder
        <4> QED
          BY <2>4, <4>2 DEF FetchGiveUp, PutEnds
      <3>3. Astray' = Astray + 1
        BY <1>0, <1>1, <3>1 DEF Astray
      <3> QED
        BY <2>1, <2>2, <3>1, <3>2, <3>3 DEF flags
    <2>5. CASE \/ FetchTop \/ FetchEmpty \/ FetchError \/ FetchQuiet \/ FetchDrained(complete)
               \/ FetchPutCheck \/ FetchEnqueue \/ FetchFatal \/ FetchReport \/ FetchClose
      <3>1. /\ UNCHANGED <<Fetched, REDO_OUTSTANDING>>
            /\ fpc = "close" => fpc' = "done"
        BY <2>5
        DEF FetchTop, FetchEmpty, FetchError, FetchQuiet, FetchDrained, FetchPutCheck,
            FetchEnqueue, FetchFatal, FetchReport, FetchClose, Fetched, statsVars,
            engineVars
      <3>2. Astray' = Astray
        BY <1>1, <3>1 DEF Astray
      <3> QED
        BY <1>1, <2>1, <2>2, <3>1, <3>2 DEF flags
    <2> QED
      BY <2>3, <2>4, <2>5 DEF FetcherStep
  <1> QED
    BY <1>2, <1>3, <1>4 DEF RedoFollowed

\* Nobody else touches a redo record.
LEMMA NextStake == IStake /\ [Next]_vars => IStake'
  <1> SUFFICES ASSUME IStake, [Next]_vars PROVE RedoFollowed'
    BY NextRun DEF IStake
  <1>0. (RUNNING' => RUNNING) /\ WorkerTypeOK(Lines)
    BY NextRun, ITypeParts DEF IStake, IRun, ICount, SharedTypeOK
  <1>1. ASSUME NEW w \in Workers, Worker(w) PROVE RedoFollowed'
    BY <1>0, <1>1, WorkerStepStake DEF Worker, fetcherVars
  <1>2. CASE Fetcher
    <2>1. load_complete \in BOOLEAN
      BY DEF load_complete
    <2> QED
      BY <1>2, <2>1, FetcherStepStake DEF Fetcher
  <1>3. CASE ReaderThread \/ Consumer \/ MainStep \/ Signal \/ UNCHANGED vars
    <2>1. /\ UNCHANGED <<pc, held, act, fpc, Fetched, Answered, REDO_OUTSTANDING>>
          /\ UNCHANGED WORKER_FATAL \/ WORKER_FATAL'
          /\ jobs' = jobs \/ jobs' = Closed(jobs)
      <3> USE DEF workerVars, fetcherVars, engineVars, statsVars, flags, redoCounters,
                  channels, Fetched, Answered
      <3>1. CASE ReaderThread
        BY <3>1
        DEF ReaderThread, ReaderStep, ReadStop, ReadLine, ReaderReject, ReaderWrite,
            ReaderWriteHangs, ReaderComplete, ReaderPutCheck, ReaderEnqueue,
            ReaderGiveUp, ReaderClose, ReaderFinish, otherThanReader
      <3>2. CASE Consumer
        BY <3>2
        DEF Consumer, ConsumerStep, ConsumerGet, ConsumerClosed, SettleAck, SettleFails,
            MarkFatal, SettleReject, SettleWrite, SettleWriteHangs, SettleComplete,
            SettleFatal, otherThanConsumer
      <3>3. CASE MainStep
        BY <3>3
        DEF MainStep, TickDue, TickAsks, TickEnds, StopMonitoring, CloseWork,
            JoinWorkers, CloseJobs, JoinAux, CloseResults, JoinConsumer, Finish,
            FinishFails, Teardown, MainGoto, othersVars
      <3>4. CASE Signal \/ UNCHANGED vars
        BY <3>4 DEF Signal, vars, othersVars
      <3> QED
        BY <1>3, <3>1, <3>2, <3>3, <3>4
    <2>2. jobs'.q = jobs.q
      BY <1>0, <2>1, ClosedType DEF WorkerTypeOK
    <2>3. Settling' = Settling /\ Astray' = Astray
      BY <2>1 DEF Settling, Astray
    <2> QED
      BY <1>0, <2>1, <2>2, <2>3 DEF IStake, RedoFollowed, Verdict
  <1> QED
    BY <1>1, <1>2, <1>3 DEF Next, Exited

\* In every topology with a load side: what a stop or a crash takes from the redo
\* queue unprocessed is bounded by the size of the channel, the workers in the
\* engine and one record, and a run that ends by itself takes nothing.
THEOREM RedoAtStakeIsBounded == Spec => []RedoAtStake
  <1>1. Init => IStake
    <2> SUFFICES ASSUME Init PROVE RedoFollowed
      BY InitRun DEF IStake
    <2>1. /\ pc = [w \in Workers |-> "top"] /\ act = [w \in Workers |-> "none"]
          /\ jobs.q = <<>>
      BY DEF Init, WorkerInit, NewChannel
    <2>2. Settling = {} /\ Cardinality(Settling) = 0
      BY <2>1, FS_EmptySet DEF Settling
    <2>3. Fetched = 0 /\ Answered = 0 /\ REDO_OUTSTANDING = 0
      BY MaxRedoAssumption DEF Init, EngineInit, StatsInit, Fetched, Answered
    <2> QED
      BY <2>1, <2>2, <2>3, JobsRoomAssumption DEF RedoFollowed, Verdict, Astray
  <1>2. IStake => RedoAtStake
    <2> SUFFICES ASSUME IStake, ~WORKER_FATAL
                 PROVE  /\ Fetched - Answered <= Len(jobs.q) + Cardinality(Unanswered) + 1
                        /\ Len(jobs.q) <= JobsRoom
                        /\ mpc = "exited" /\ ~signalled => Fetched = Answered
      BY DEF RedoAtStake
    <2>1. /\ Fetched \in Int /\ Answered \in Nat /\ Len(jobs.q) \in Nat
          /\ REDO_OUTSTANDING \in Int /\ InHand \in Int /\ IsFiniteSet(Settling)
      BY StakeTypes DEF IStake, IRun, ICount, InHand
    <2>2. /\ Astray = Fetched - Answered - REDO_OUTSTANDING + Cardinality(Settling)
          /\ REDO_OUTSTANDING = Len(jobs.q) + Cardinality(RedoHolders) + InHand
          /\ Astray + InHand \in {0, 1}
          /\ RUNNING => Astray = 0
      BY DEF IStake, IRun, ICount, RedoFollowed, Astray, OutstandingExact, RedoHolders,
             InHand
    <2>3. /\ Cardinality(RedoHolders) = Cardinality(Unanswered) + Cardinality(Settling)
          /\ Cardinality(Unanswered) \in Nat /\ Cardinality(Settling) \in Nat
      <3>1. Unanswered \in SUBSET Workers
        BY DEF Unanswered
      <3>2. IsFiniteSet(Unanswered)
        BY <3>1, WorkersAssumption, FS_Subset
      <3>3. RedoHolders = Unanswered \union Settling /\ Unanswered \intersect Settling = {}
        BY DEF RedoHolders, Unanswered, Settling
      <3> QED
        BY <2>1, <3>2, <3>3, DisjointSize
    <2>4. Fetched - Answered = Len(jobs.q) + Cardinality(Unanswered) + (Astray + InHand)
      <3>1. Astray = Fetched - Answered - REDO_OUTSTANDING + Cardinality(Settling)
        BY <2>2
      <3>2. Astray \in Int
        BY <2>1, <2>3, <3>1
      <3>3. Fetched - Answered = Astray + REDO_OUTSTANDING - Cardinality(Settling)
        BY <2>1, <2>3, <3>1
      <3>4. REDO_OUTSTANDING = Len(jobs.q) + Cardinality(RedoHolders) + InHand
        BY <2>2
      <3>5. Fetched - Answered = Len(jobs.q) + Cardinality(Unanswered) + InHand + Astray
        BY <2>1, <2>3, <3>2, <3>3, <3>4
      <3> QED
        BY <2>1, <2>3, <3>2, <3>5
    <2>5. ASSUME mpc = "exited", ~signalled PROVE Fetched = Answered
      <3>1. RUNNING
        BY <2>5 DEF IStake, IRun, InAnyRun
      <3>2. RedoOver /\ \A w \in Workers : held[w] = Nothing
        BY <2>5, <3>1, PoolGone DEF IStake, Monitoring
      <3>3. Cardinality(Unanswered) = 0
        <4>1. Unanswered = {}
          BY <3>2 DEF Unanswered, Nothing
        <4> QED
          BY <4>1, FS_EmptySet
      <3>4. Len(jobs.q) = 0 /\ Astray + InHand = 0
        BY <2>2, <3>1, <3>2 DEF RedoOver, InHand
      <3> QED
        BY <2>1, <2>4, <3>3, <3>4
    <2>6. Fetched - Answered <= Len(jobs.q) + Cardinality(Unanswered) + 1
      <3>1. Astray + InHand \in {0, 1}
        BY <2>2
      <3> QED
        BY <2>1, <2>3, <2>4, <3>1
    <2> QED
      BY <2>5, <2>6 DEF IStake, RedoFollowed
  <1> QED
    BY <1>1, <1>2, NextStake, PTL DEF Spec

-----------------------------------------------------------------------------
(* The totals *)

\* The lines whose ACK a worker is about to put, is in the results channel, or is
\* with the consumer: loaded, and not counted yet.
AckOf(w) == IF pc[w] \in {"put", "enq"} /\ act[w] = "ACK" THEN {held[w].line} ELSE {}
AckIn(o) == IF o.kind = "ACK" THEN {o.line} ELSE {}
HeldAcks == UNION {AckOf(w) : w \in Workers}
AcksOf(q) == UNION {AckIn(q[i]) : i \in DOMAIN q}
TakenAck == IF cpc = "settle" THEN AckIn(outcome) ELSE {}
Reporting == HeldAcks \union AcksOf(results.q) \union TakenAck

AcksCounted ==
    /\ 0 \notin Reporting
    /\ ADDS_PROCESSED + Cardinality(Reporting) = Cardinality(db)

RejectsCounted ==
    /\ ADDS_REJECTED = written + Cardinality(logged) + Writing
    /\ written = Cardinality(rejectFile) + Cardinality(damaged)

\* What is printed is printed.
EverythingPrints == "print" \notin Faults

ITotals ==
    /\ IExit /\ IRun /\ IWatermark
    /\ cpc = "done" => results.q = <<>>
    /\ DecidedOnce /\ AcksCounted /\ RejectsCounted

\* A set of lines is finite.
LEMMA LinesFinite ==
    ASSUME NEW S \in SUBSET Lines
    PROVE  IsFiniteSet(S) /\ Cardinality(S) \in Nat
  <1>1. IsFiniteSet(Lines)
    BY LinesAssumption, FS_Interval DEF Lines
  <1> QED
    BY <1>1, FS_Subset, FS_CardinalityType

\* An outcome put into the channel is one more in it.
LEMMA AcksAppended ==
    ASSUME NEW S, NEW q \in Seq(S), NEW x \in S
    PROVE  AcksOf(Append(q, x)) = AcksOf(q) \union AckIn(x)
  <1>1. /\ DOMAIN Append(q, x) = 1..(Len(q) + 1)
        /\ DOMAIN q = 1..Len(q) /\ Len(q) \in Nat
        /\ Append(q, x)[Len(q) + 1] = x
        /\ \A i \in DOMAIN q : Append(q, x)[i] = q[i]
    BY AppendElements
  <1> DEFINE p == Append(q, x)
             n == Len(q) + 1
  <1>2. DOMAIN p = DOMAIN q \union {n} /\ p[n] = x /\ \A i \in DOMAIN q : p[i] = q[i]
    BY <1>1
  <1> HIDE DEF p, n
  <1>3. AcksOf(p) = AcksOf(q) \union AckIn(x)
    BY <1>2 DEF AcksOf
  <1> QED
    BY <1>3 DEF p

\* An outcome taken from the channel is one less in it.
LEMMA AcksDequeued ==
    ASSUME NEW S, NEW q \in Seq(S), q # <<>>
    PROVE  AcksOf(q) = AcksOf(Tail(q)) \union AckIn(Head(q))
  <1>1. /\ DOMAIN Tail(q) = 1..(Len(q) - 1)
        /\ DOMAIN q = 1..Len(q)
        /\ Len(q) \in Nat \ {0}
        /\ Head(q) = q[1]
        /\ \A i \in DOMAIN Tail(q) : Tail(q)[i] = q[i + 1]
    BY TailElements
  <1>2. \A i \in DOMAIN Tail(q) : i + 1 \in DOMAIN q /\ Tail(q)[i] = q[i + 1]
    BY <1>1
  <1>3. \A i \in DOMAIN q : q[i] = Head(q) \/ \E j \in DOMAIN Tail(q) : Tail(q)[j] = q[i]
    <2> SUFFICES ASSUME NEW i \in DOMAIN q, i # 1
                 PROVE  \E j \in DOMAIN Tail(q) : Tail(q)[j] = q[i]
      BY <1>1
    <2>1. i - 1 \in DOMAIN Tail(q) /\ Tail(q)[i - 1] = q[i]
      BY <1>1
    <2> QED
      BY <2>1
  <1>4. 1 \in DOMAIN q /\ q[1] = Head(q)
    BY <1>1
  <1> DEFINE p == Tail(q)
             h == Head(q)
  <1>5. /\ \A i \in DOMAIN p : \E j \in DOMAIN q : p[i] = q[j]
        /\ \A i \in DOMAIN q : q[i] = h \/ \E j \in DOMAIN p : p[j] = q[i]
        /\ \E i \in DOMAIN q : q[i] = h
    BY <1>2, <1>3, <1>4
  <1> HIDE DEF p, h
  <1>6. AcksOf(q) = AcksOf(p) \union AckIn(h)
    <2>1. ASSUME NEW l \in AcksOf(q) PROVE l \in AcksOf(p) \union AckIn(h)
      <3>1. PICK i \in DOMAIN q : l \in AckIn(q[i])
        BY DEF AcksOf
      <3> QED
        BY <1>5, <3>1 DEF AcksOf
    <2>2. ASSUME NEW l \in AcksOf(p) PROVE l \in AcksOf(q)
      <3>1. PICK i \in DOMAIN p : l \in AckIn(p[i])
        BY <2>2 DEF AcksOf
      <3> QED
        BY <1>5, <3>1 DEF AcksOf
    <2>3. AckIn(h) \subseteq AcksOf(q)
      BY <1>5 DEF AcksOf
    <2> QED
      BY <2>1, <2>2, <2>3
  <1> QED
    BY <1>6 DEF p, h

\* A worker that loads a line has an ACK to report, and reporting it keeps it on
\* its way while results is open.
LEMMA WorkerStepReporting ==
    ASSUME WorkerTypeOK(Lines), NEW w \in Workers, AtWork(w), WorkerStep(w),
           ~results.closed, UNCHANGED consumerVars
    PROVE  \/ Reporting' = Reporting /\ db' = db
           \/ /\ pc[w] = "call" /\ held[w].line \in Lines
              /\ Reporting' = Reporting \union {held[w].line}
              /\ db' = db \union {held[w].line}
  <1>0. /\ results \in Channel(Outcomes(Lines))
        /\ UNCHANGED <<cpc, outcome>>
    BY DEF WorkerTypeOK, Outcomes, consumerVars
  <1>1. \A v \in Workers \ {w} : AckOf(v)' = AckOf(v)
    BY OthersUntouched DEF AckOf
  <1>2. TakenAck' = TakenAck
    BY <1>0 DEF TakenAck
  <1>3. /\ HeldAcks = AckOf(w) \union UNION {AckOf(v) : v \in Workers \ {w}}
        /\ HeldAcks' = AckOf(w)' \union UNION {AckOf(v) : v \in Workers \ {w}}
    BY <1>1 DEF HeldAcks
  <1> USE DEF WorkerTypeOK, Goto, Become
  <1>4. CASE AddRecord(w)
    <2>1. pc[w] = "call" /\ results' = results /\ AckOf(w) = {} /\ held' = held
      BY <1>4 DEF AddRecord, channels, AckOf
    <2>2. held[w].line \in Lines
      BY <1>4 DEF AddRecord, RedoJob, Nothing
    <2>3. \/ db' = db \union {held[w].line} /\ AckOf(w)' = {held[w].line}
          \/ db' = db /\ AckOf(w)' = {}
      BY <1>4, <2>1 DEF AddRecord, EngineAdd, engineVars, AckOf
    <2> QED
      BY <1>2, <1>3, <2>1, <2>2, <2>3 DEF Reporting
  <1>5. CASE PutEnqueue(w)
    <2>1. pc[w] = "enq" /\ results' = Enqueued(results, Report(w)) /\ db' = db
      BY <1>5 DEF PutEnqueue, engineVars
    <2>2. AckOf(w)' = {}
      BY <1>5 DEF PutEnqueue, AfterPut, BackToTop, AckOf
    <2>3. Report(w) \in Outcomes(Lines)
      BY <1>0, ReportType DEF Outcomes
    <2>4. AckIn(Report(w)) = AckOf(w)
      BY <2>1 DEF AckIn, AckOf, Report, Outcome
    <2>5. results'.q = Append(results.q, Report(w)) /\ results.q \in Seq(Outcomes(Lines))
      <3> DEFINE o == Report(w)
      <3>1. results' = Enqueued(results, o) /\ o \in Outcomes(Lines)
        BY <2>1, <2>3
      <3>2. results.q \in Seq(Outcomes(Lines))
        BY <1>0 DEF Channel
      <3> HIDE DEF o
      <3>3. results'.q = Append(results.q, o)
        BY <1>0, <3>1, EnqueuedType
      <3> QED
        BY <3>2, <3>3 DEF o
    <2>6. AcksOf(results'.q) = AcksOf(results.q) \union AckOf(w)
      BY <2>3, <2>4, <2>5, AcksAppended
    <2> QED
      BY <1>2, <1>3, <2>1, <2>2, <2>6 DEF Reporting
  <1>6. CASE ~AddRecord(w) /\ ~PutEnqueue(w)
    <2>1. results' = results /\ db' = db /\ AckOf(w)' = AckOf(w)
      <3>1. CASE PutCheck(w) \/ PutFull(w)
        BY <3>1 DEF PutCheck, PutStops, PutFull, AckOf, channels, engineVars
      <3>2. CASE LoopTop(w) \/ GetLoad(w) \/ GetNothing(w)
        BY <3>2 DEF LoopTop, GetLoad, GetNothing, TakeLoad, TakeFrom, AckOf, channels,
                    engineVars
      <3>3. CASE RedoStep(w)
        BY <3>3 DEF RedoStep, DrainRedo, DrainMiss, DrainEnd, ProcessRedo, SettleRedo,
                    TakeRedo, TakeFrom, BackToTop, EngineRedo, AckOf, channels, engineVars
      <3>4. CASE MixedStep(w)
        BY <3>4 DEF MixedStep, PollHit, PollMiss, TakeRedo, TakeLoad, TakeFrom, AckOf,
                    channels, engineVars
      <3>5. CASE WorkerFatal(w)
        BY <3>5 DEF WorkerFatal, AtWork, AckOf, channels, engineVars
      <3> QED
        BY <1>6, <3>1, <3>2, <3>3, <3>4, <3>5 DEF WorkerStep, LoadStep, ReportStep
    <2> QED
      BY <1>2, <1>3, <2>1 DEF Reporting
  <1> QED
    BY <1>4, <1>5, <1>6

\* The consumer counts the line it takes off.
LEMMA ConsumerStepReporting ==
    ASSUME WorkerTypeOK(Lines), ConsumerTypeOK, Placed, DecidedOnce, ConsumerStep,
           "print" \notin Faults
    PROVE  \/ UNCHANGED <<Reporting, ADDS_PROCESSED>>
           \/ /\ outcome.line \in Reporting /\ Reporting' = Reporting \ {outcome.line}
              /\ ADDS_PROCESSED' = ADDS_PROCESSED + 1
           \/ outcome.line = 0 /\ outcome.line \in Reporting
  <1>0. results \in Channel(Outcomes(Lines))
    BY DEF WorkerTypeOK, Outcomes
  <1>1. HeldAcks' = HeldAcks
    BY DEF ConsumerStep, ConsumerGet, ConsumerClosed, SettleAck, SettleFails,
           SettleReject, SettleWrite, SettleWriteHangs, SettleComplete, SettleFatal,
           otherThanConsumer, workerVars, HeldAcks, AckOf
  <1>2. CASE ConsumerGet
    <2>1. /\ results.q \in Seq(Outcomes(Lines)) /\ results.q # <<>>
          /\ results'.q = Tail(results.q)
      BY <1>0, <1>2, DequeuedType DEF ConsumerGet, Channel, HasItem
    <2>2. AcksOf(results.q) = AcksOf(results'.q) \union AckIn(Head(results.q))
      BY <2>1, AcksDequeued
    <2>3. TakenAck = {} /\ TakenAck' = AckIn(Head(results.q)) /\ UNCHANGED ADDS_PROCESSED
      BY <1>2 DEF ConsumerGet, TakenAck, AckIn, statsVars, addCounters
    <2> QED
      BY <1>1, <2>2, <2>3 DEF Reporting
  <1>3. CASE SettleAck
    <2>1. /\ TakenAck = {outcome.line} /\ TakenAck' = {} /\ results' = results
          /\ ADDS_PROCESSED' = ADDS_PROCESSED + 1
      BY <1>3 DEF SettleAck, TakenAck, AckIn, channels
    <2>2. CASE outcome.line = 0
      BY <2>1, <2>2 DEF Reporting
    <2>3. CASE outcome.line # 0
      <3>1. outcome.line \notin inFlight
        BY <1>3, <2>3 DEF SettleAck, DecidedOnce
      <3>2. HeldAcks \subseteq inFlight \union {0}
        BY DEF Placed, Tracked, HeldAcks, AckOf
      <3>3. AcksOf(results.q) \subseteq LinesOf(results.q) \union {0}
        BY DEF AcksOf, AckIn, LinesOf
      <3>4. outcome.line \notin HeldAcks \union AcksOf(results.q)
        BY <2>3, <3>1, <3>2, <3>3 DEF Placed, Tracked
      <3> QED
        BY <1>1, <2>1, <3>4 DEF Reporting
    <2> QED
      BY <2>2, <2>3
  <1>4. CASE \/ ConsumerClosed \/ SettleReject \/ SettleWrite \/ SettleWriteHangs
             \/ SettleComplete
             \/ SettleFatal
    <2>1. UNCHANGED <<results, ADDS_PROCESSED>> /\ TakenAck = {} /\ TakenAck' = {}
      BY <1>4
      DEF ConsumerClosed, SettleReject, SettleWrite, SettleWriteHangs, SettleComplete,
          SettleFatal, TakenAck, AckIn, channels, statsVars, addCounters
    <2> QED
      BY <1>1, <2>1 DEF Reporting
  <1> QED
    BY <1>2, <1>3, <1>4 DEF ConsumerStep, SettleFails

\* A line that is counted is about to be written.
LEMMA RejectCounted ==
    ASSUME RejectsCounted, LoadStateTypeOK, CountReject, Writing' = Writing + 1,
           UNCHANGED sinkVars
    PROVE  RejectsCounted'
  <1>1. Cardinality(logged) \in Nat /\ written \in Nat /\ Writing \in Nat
    BY LinesFinite DEF LoadStateTypeOK, Writing
  <1> QED
    BY <1>1 DEF RejectsCounted, CountReject, sinkVars

\* A line is written once, and into one place.
LEMMA RejectWritten ==
    ASSUME RejectsCounted, LoadStateTypeOK, UNCHANGED ADDS_REJECTED,
           NEW line \in Lines, Undecided(line), WriteReject(line), Writing = Writing' + 1
    PROVE  RejectsCounted'
  <1> DEFINE f == Cardinality(rejectFile)
             d == Cardinality(damaged)
             g == Cardinality(logged)
  <1>1. /\ IsFiniteSet(rejectFile) /\ IsFiniteSet(damaged) /\ IsFiniteSet(logged)
        /\ f \in Nat /\ d \in Nat /\ g \in Nat
    BY LinesFinite DEF LoadStateTypeOK
  <1>2. line \notin rejectFile /\ line \notin damaged /\ line \notin logged
    BY DEF Undecided
  <1>3. /\ rejectFile' = rejectFile \union {line} => f' = f + 1
        /\ damaged' = damaged \union {line} => d' = d + 1
        /\ logged' = logged \union {line} => g' = g + 1
    BY <1>1, <1>2, FS_AddElement
  <1>4. /\ UNCHANGED rejectFile => f' = f
        /\ UNCHANGED damaged => d' = d
        /\ UNCHANGED logged => g' = g
    OBVIOUS
  <1>5. /\ ADDS_REJECTED' = ADDS_REJECTED
        /\ ADDS_REJECTED = written + g + Writing /\ written = f + d
        /\ Writing' \in Nat /\ Writing = Writing' + 1
    BY DEF RejectsCounted, Writing
  <1>6. \/ f' + d' = f + d + 1 /\ g' = g /\ written' = written + 1
        \/ f' + d' = f + d /\ g' = g + 1 /\ written' = written
    <2> HIDE DEF f, d, g
    <2> QED
      BY <1>1, <1>3, <1>4 DEF WriteReject, WriteFails
  <1> HIDE DEF f, d, g
  <1>7. ADDS_REJECTED' = written' + g' + Writing' /\ written' = f' + d'
    BY <1>1, <1>5, <1>6
  <1> QED
    BY <1>7 DEF f, d, g, RejectsCounted

\* What is on its way as an ACK is loaded.
LEMMA ReportingLoaded ==
    ASSUME Acknowledged, 0 \notin Reporting
    PROVE  Reporting \subseteq db
  <1>1. HeldAcks \subseteq db \union {0}
    BY DEF Acknowledged, HeldAcks, AckOf
  <1>2. AcksOf(results.q) \subseteq db \union {0}
    BY DEF Acknowledged, AcksOf, AckIn
  <1>3. TakenAck \subseteq db \union {0}
    BY DEF Acknowledged, TakenAck, AckIn
  <1> QED
    BY <1>1, <1>2, <1>3 DEF Reporting

\* Loading a line puts one more on its way.
LEMMA OneMoreLoaded ==
    ASSUME NEW l \in Lines, db \subseteq Lines, l \notin db, Reporting \subseteq db,
           ADDS_PROCESSED \in Nat, AcksCounted, UNCHANGED ADDS_PROCESSED,
           Reporting' = Reporting \union {l}, db' = db \union {l}
    PROVE  AcksCounted'
  <1>1. /\ IsFiniteSet(db) /\ IsFiniteSet(Reporting)
        /\ Cardinality(Reporting) \in Nat /\ Cardinality(db) \in Nat
    BY LinesFinite
  <1>2. /\ Cardinality(Reporting') = Cardinality(Reporting) + 1
        /\ Cardinality(db') = Cardinality(db) + 1
    BY <1>1, FS_AddElement
  <1>3. 0 \notin Reporting'
    BY LinesAssumption DEF AcksCounted, Lines
  <1>4. ADDS_PROCESSED + Cardinality(Reporting') = Cardinality(db')
    BY <1>1, <1>2 DEF AcksCounted
  <1> QED
    BY <1>3, <1>4 DEF AcksCounted

\* Counting a line takes one off its way.
LEMMA OneMoreCounted ==
    ASSUME NEW l \in Reporting, db \subseteq Lines, Reporting \subseteq db,
           ADDS_PROCESSED \in Nat, AcksCounted, ADDS_PROCESSED' = ADDS_PROCESSED + 1,
           Reporting' = Reporting \ {l}, db' = db
    PROVE  AcksCounted'
  <1>1. IsFiniteSet(Reporting) /\ Cardinality(Reporting) \in Nat
    BY LinesFinite
  <1>2. Cardinality(Reporting') = Cardinality(Reporting) - 1
    BY <1>1, FS_RemoveElement
  <1>3. ADDS_PROCESSED' + Cardinality(Reporting') = Cardinality(db')
    BY <1>1, <1>2 DEF AcksCounted
  <1> QED
    BY <1>3 DEF AcksCounted

\* Every step of the process keeps the totals right.
LEMMA NextTotals ==
    ASSUME NothingIsSlow, EverythingPrints, ITotals, [Next]_vars
    PROVE  ITotals'
  <1>0. /\ WorkerTypeOK(Lines) /\ LoadStateTypeOK /\ ConsumerTypeOK /\ OwnTypeOK
        /\ ADDS_PROCESSED \in Nat /\ db \subseteq Lines
        /\ Placed /\ Acknowledged /\ DecidedOnce /\ AcksCounted /\ RejectsCounted
        /\ \A w \in Workers : AtWork(w)
        /\ results.closed => WorkersDone /\ AuxDone
        /\ cpc = "done" => results.closed /\ results.q = <<>>
        /\ 0 \notin Reporting
        /\ "print" \notin Faults
    BY ITypeParts, TracedParts
    DEF ITotals, IExit, IRun, IFlight, IWatermark, SharedTypeOK, OwnTypeOK, StatsTypeOK,
        EngineTypeOK, OpenUntilJoined, AllJoined, InAnyRun, ClosedBehind, AcksCounted,
        EverythingPrints, Monitoring
  <1>1. IExit' /\ IRun' /\ IWatermark' /\ DecidedOnce'
    BY <1>0, NextExit, NextRun, NextType, NextTraced, NextUndecided
    DEF ITotals, IWatermark
  <1>10. cpc' = "done" => results'.q = <<>>
    <2>1. ASSUME NEW w \in Workers, Worker(w), cpc' = "done" PROVE FALSE
      <3>1. WorkerStep(w) /\ cpc = "done"
        BY <2>1 DEF Worker, consumerVars
      <3>2. pc[w] # "done"
        BY <3>1
        DEF WorkerStep, LoadStep, LoopTop, GetLoad, GetNothing, AddRecord, RedoStep,
            DrainRedo, DrainMiss, DrainEnd, ProcessRedo, SettleRedo, MixedStep, PollHit,
            PollMiss, ReportStep, WorkerFatal, PutCheck, PutEnqueue, PutFull
      <3> QED
        BY <1>0, <3>1, <3>2 DEF WorkersDone
    <2>2. ASSUME Fetcher, cpc' = "done" PROVE FALSE
      <3>1. fpc # "done" /\ cpc = "done"
        BY <2>2
        DEF Fetcher, FetcherStep, FetchTop, FetchRecord, FetchEmpty, FetchError,
            FetchQuiet, FetchDrained, FetchGiveUp, FetchPutCheck, FetchEnqueue,
            FetchFatal, FetchReport, FetchClose, consumerVars
      <3> QED
        BY <1>0, <3>1 DEF AuxDone
    <2>3. ASSUME Consumer, cpc' = "done" PROVE results'.q = <<>>
      BY <2>3
      DEF Consumer, ConsumerStep, ConsumerGet, ConsumerClosed, ResultsEnd, HasItem,
          SettleAck, SettleFails, SettleReject, SettleWrite, SettleWriteHangs,
          SettleComplete, SettleFatal, channels
    <2>4. CASE ReaderThread \/ MainStep \/ Signal \/ UNCHANGED vars
      <3>1. cpc' = cpc /\ (results' = results \/ results' = Closed(results))
        BY <2>4
        DEF ReaderThread, ReaderStep, ReadStop, ReadLine, ReaderReject, ReaderWrite,
            ReaderWriteHangs, ReaderComplete, ReaderPutCheck, ReaderEnqueue,
            ReaderGiveUp, ReaderClose, ReaderFinish, MainStep, TickDue, TickAsks,
            TickEnds, StopMonitoring, CloseWork, JoinWorkers, CloseJobs, JoinAux,
            CloseResults, JoinConsumer, Finish, FinishFails, Teardown, MainGoto, Signal,
            vars, othersVars, consumerVars, channels
      <3>2. results'.q = results.q
        BY <1>0, <3>1, ClosedType DEF WorkerTypeOK
      <3> QED
        BY <1>0, <3>1, <3>2
    <2> QED
      BY <2>1, <2>2, <2>3, <2>4 DEF Next, Exited
  <1> SUFFICES AcksCounted' /\ RejectsCounted'
    BY <1>1, <1>10 DEF ITotals
  <1>2. Reporting \subseteq db
    BY <1>0, ReportingLoaded
  <1>3. Reporting' = Reporting /\ ADDS_PROCESSED' = ADDS_PROCESSED /\ db' = db => AcksCounted'
    BY <1>0 DEF AcksCounted
  <1>4. UNCHANGED <<ADDS_REJECTED, sinkVars, Writing>> => RejectsCounted'
    BY <1>0 DEF RejectsCounted, sinkVars
  <1>5. ASSUME NEW w \in Workers, Worker(w) PROVE AcksCounted' /\ RejectsCounted'
    <2>1. /\ WorkerStep(w) /\ UNCHANGED <<consumerVars, sinkVars, Writing>>
      BY <1>5 DEF Worker, loadStateVars, consumerVars, readerVars, Writing
    <2>2. pc[w] # "done" /\ UNCHANGED <<ADDS_PROCESSED, ADDS_REJECTED>>
      BY <2>1
      DEF WorkerStep, LoadStep, LoopTop, GetLoad, GetNothing, AddRecord, RedoStep,
          DrainRedo, DrainMiss, DrainEnd, ProcessRedo, SettleRedo, MixedStep, PollHit,
          PollMiss, ReportStep, WorkerFatal, PutCheck, PutEnqueue, PutFull, statsVars,
          addCounters
    <2>3. ~results.closed
      BY <1>0, <2>2 DEF WorkersDone
    <2>4. \/ Reporting' = Reporting /\ db' = db
          \/ /\ pc[w] = "call" /\ held[w].line \in Lines
             /\ Reporting' = Reporting \union {held[w].line}
             /\ db' = db \union {held[w].line}
      BY <1>0, <2>1, <2>3, WorkerStepReporting
    <2>5. pc[w] = "call" /\ held[w].line \in Lines => held[w].line \notin db
      BY <1>0, LinesAssumption DEF Acknowledged, DecidedOnce, Carried, Undecided, Lines
    <2>6. AcksCounted'
      BY <1>0, <1>2, <1>3, <2>2, <2>4, <2>5, OneMoreLoaded
    <2> QED
      BY <1>4, <2>1, <2>2, <2>6
  <1>6. CASE Fetcher
    <2>1. /\ UNCHANGED <<ADDS_PROCESSED, ADDS_REJECTED, sinkVars, Writing, db>>
          /\ UNCHANGED <<pc, act, held, cpc, outcome>>
          /\ UNCHANGED results \/ results' = Enqueued(results, Outcome(0, "FATAL"))
      BY <1>6
      DEF Fetcher, FetcherStep, FetchTop, FetchRecord, EngineGetRedo, FetchEmpty,
          FetchError, FetchQuiet, FetchDrained, FetchGiveUp, FetchPutCheck, FetchEnqueue,
          FetchFatal, FetchReport, FetchClose, channels, workerVars, readerVars,
          consumerVars, statsVars, addCounters, engineVars, loadStateVars, Writing
    <2>2. AcksOf(results'.q) = AcksOf(results.q)
      <3> DEFINE o == Outcome(0, "FATAL")
      <3>1. /\ results \in Channel(Outcomes(Lines)) /\ o \in Outcomes(Lines)
            /\ AckIn(o) = {}
        BY <1>0 DEF WorkerTypeOK, Outcomes, Outcome, AckIn
      <3>2. results.q \in Seq(Outcomes(Lines))
        BY <3>1 DEF Channel
      <3>3. results' = results \/ results' = Enqueued(results, o)
        BY <2>1
      <3> HIDE DEF o
      <3>4. results' = results \/ results'.q = Append(results.q, o)
        BY <3>1, <3>3, EnqueuedType
      <3>5. AcksOf(Append(results.q, o)) = AcksOf(results.q) \union AckIn(o)
        BY <3>1, <3>2, AcksAppended
      <3> QED
        BY <3>1, <3>4, <3>5
    <2>3. Reporting' = Reporting
      BY <2>1, <2>2 DEF Reporting, HeldAcks, AckOf, TakenAck
    <2> QED
      BY <1>3, <1>4, <2>1, <2>3
  <1>7. CASE ReaderThread
    <2>1. /\ UNCHANGED <<ADDS_PROCESSED, db, pc, act, held, cpc, outcome, results>>
          /\ \/ UNCHANGED <<ADDS_REJECTED, sinkVars>> /\ rpc # "write" /\ rpc' # "write"
             \/ CountReject /\ UNCHANGED sinkVars /\ rpc = "reject" /\ rpc' = "write"
             \/ /\ WriteReject(line_no) /\ UNCHANGED ADDS_REJECTED
                /\ rpc = "write" /\ rpc' # "write"
             \/ UNCHANGED <<ADDS_REJECTED, sinkVars, rpc>>
      BY <1>7
      DEF ReaderThread, ReaderStep, ReadStop, ReadLine, Feed, ReaderReject, ReaderWrite,
          ReaderWriteHangs, ReaderComplete, ReaderPutCheck, ReaderEnqueue, ReaderGiveUp,
          PutFails, ReaderClose, ReaderFinish, otherThanReader, workerVars,
          consumerVars, channels, statsVars, addCounters, engineVars, loadStateVars
    <2>2. Reporting' = Reporting
      BY <2>1 DEF Reporting, HeldAcks, AckOf, TakenAck
    <2>3. rpc = "write" => line_no \in Lines /\ Undecided(line_no)
      BY <1>0 DEF OwnTypeOK, LinesInHand, DecidedOnce
    <2>4. /\ rpc # "write" /\ rpc' = "write" => Writing' = Writing + 1
          /\ rpc = "write" /\ rpc' # "write" => Writing = Writing' + 1
          /\ (rpc # "write" /\ rpc' # "write") \/ rpc' = rpc => Writing' = Writing
      BY <2>1 DEF Writing
    <2>5. RejectsCounted'
      BY <1>0, <1>4, <2>1, <2>3, <2>4, RejectCounted, RejectWritten
    <2> QED
      BY <1>3, <2>1, <2>2, <2>5
  <1>8. CASE Consumer
    <2>1. ConsumerStep /\ db' = db /\ rpc' = rpc
      BY <1>8
      DEF Consumer, ConsumerStep, ConsumerGet, ConsumerClosed, SettleAck, SettleFails,
          SettleReject, SettleWrite, SettleWriteHangs, SettleComplete, SettleFatal,
          otherThanConsumer, engineVars, readerVars
    <2>2. AcksCounted'
      BY <1>0, <1>2, <1>3, <2>1, ConsumerStepReporting, OneMoreCounted
    <2>3. RejectsCounted'
      <3>1. CASE SettleReject
        <4>1. outcome.body
          BY <3>1 DEF SettleReject, ITotals, IRun, IFlight, BodyFound
        <4>2. CountReject /\ UNCHANGED sinkVars /\ Writing' = Writing + 1
          BY <2>1, <3>1, <4>1 DEF SettleReject, Writing, loadStateVars
        <4> QED
          BY <1>0, <4>2, RejectCounted
      <3>2. CASE SettleWrite
        <4>1. outcome.line \in Lines /\ outcome.kind = "REJECT"
          BY <1>0, <3>2 DEF SettleWrite, OwnTypeOK, LinesInHand
        <4>2. Undecided(outcome.line)
          BY <1>0, <3>2, <4>1, LinesAssumption
          DEF SettleWrite, DecidedOnce, Carried, Lines
        <4>3. /\ WriteReject(outcome.line) /\ UNCHANGED ADDS_REJECTED
              /\ Writing = Writing' + 1
          BY <2>1, <3>2 DEF SettleWrite, Writing, statsVars, addCounters
        <4> QED
          BY <1>0, <4>1, <4>2, <4>3, RejectWritten
      <3>3. CASE ~SettleReject /\ ~SettleWrite
        <4>1. UNCHANGED <<ADDS_REJECTED, sinkVars, Writing>>
          BY <2>1, <3>3
          DEF ConsumerStep, ConsumerGet, ConsumerClosed, SettleAck, SettleFails,
              SettleWriteHangs, SettleComplete, SettleFatal, statsVars, addCounters,
              loadStateVars, Writing
        <4> QED
          BY <1>4, <4>1
      <3> QED
        BY <3>1, <3>2, <3>3
    <2> QED
      BY <2>2, <2>3
  <1>9. CASE MainStep \/ Signal \/ UNCHANGED vars
    <2>1. /\ UNCHANGED <<ADDS_PROCESSED, ADDS_REJECTED, sinkVars, Writing, db>>
          /\ UNCHANGED <<pc, act, held, cpc, outcome>>
          /\ results' = results \/ results' = Closed(results)
      BY <1>9
      DEF MainStep, TickDue, TickAsks, TickEnds, StopMonitoring, CloseWork, JoinWorkers,
          CloseJobs, JoinAux, CloseResults, JoinConsumer, Finish, FinishFails, Teardown,
          MainGoto, Signal, vars, othersVars, workerVars, readerVars, consumerVars,
          loadStateVars, statsVars, addCounters, engineVars, channels, Writing
    <2>2. results'.q = results.q
      BY <1>0, <2>1, ClosedType DEF WorkerTypeOK
    <2>3. Reporting' = Reporting
      BY <2>1, <2>2 DEF Reporting, HeldAcks, AckOf, TakenAck
    <2> QED
      BY <1>3, <1>4, <2>1, <2>3
  <1> QED
    BY <1>5, <1>6, <1>7, <1>8, <1>9 DEF Next, Exited

\* However a load ends, what it prints are the lines it loaded and the lines it
\* rejected, if no call outlasts the grace and what is printed is printed.
THEOREM TotalsAreTrue ==
    ASSUME NothingIsSlow, EverythingPrints
    PROVE  Spec => []TotalsTrue
  <1>1. Init => ITotals
    <2> SUFFICES ASSUME Init PROVE ITotals
      OBVIOUS
    <2>1. IRun /\ IWatermark /\ DecidedOnce
      BY InitRun, InitType, InitTraced, InitUndecided DEF IWatermark
    <2>2. Reporting = {}
      BY DEF Init, WorkerInit, NewChannel, ConsumerInit, Reporting, HeldAcks, AckOf,
             AcksOf, TakenAck
    <2>3. AcksCounted /\ RejectsCounted
      BY <2>2, FS_EmptySet
      DEF Init, StatsInit, EngineInit, LoadStateInit, ReaderInit, ConsumerInit,
          AcksCounted, RejectsCounted, Writing
    <2>4. IExit /\ cpc # "done"
      BY <2>1
      DEF Init, MainInit, StatsInit, LoadStateInit, ReaderInit, ConsumerInit, IWatermark,
          IExit, AllJoined, LogCounted, Writing, CodeIsFinal, Monitoring
    <2> QED
      BY <2>1, <2>3, <2>4 DEF ITotals
  <1>2. ITotals => TotalsTrue
    <2> SUFFICES ASSUME ITotals, mpc = "exited" PROVE TotalsTrue
      BY DEF TotalsTrue
    <2>1. /\ WorkersDone /\ cpc = "done" /\ results.q = <<>> /\ Writing = 0
          /\ AcksCounted /\ RejectsCounted
      BY DEF ITotals, IExit, AllJoined, AuxDone, Writing, Monitoring
    <2>2. Reporting = {}
      BY <2>1 DEF WorkersDone, Reporting, HeldAcks, AckOf, AcksOf, TakenAck
    <2>3. ADDS_PROCESSED \in Nat
      BY ITypeParts DEF ITotals, IWatermark, SharedTypeOK, StatsTypeOK
    <2>4. ADDS_PROCESSED = Cardinality(db)
      BY <2>1, <2>2, <2>3, FS_EmptySet DEF AcksCounted
    <2>5. Cardinality(logged) \in Nat /\ written \in Nat
      BY LinesFinite, ITypeParts DEF ITotals, IWatermark, OwnTypeOK, LoadStateTypeOK
    <2> QED
      BY <2>1, <2>4, <2>5 DEF TotalsTrue, RejectsCounted
  <1>3. ITotals /\ [Next]_vars => ITotals'
    BY NextTotals
  <1> QED
    BY <1>1, <1>2, <1>3, PTL DEF Spec

-----------------------------------------------------------------------------
(* What a stop leaves behind *)

\* The line whose outcome the consumer has in hand.
ToComplete == IF cpc \in {"settle", "write", "complete"} THEN {outcome.line} \ {0} ELSE {}

\* The lines the pool has taken from the work channel and can still tell from
\* others: some worker, the results channel or the consumer has them, or their
\* fate is known.
Taken ==
    HeldLines \union LinesOf(results.q) \union ToComplete
      \union {l \in Lines : ForPool(l) /\ ~Undecided(l)}

\* The work channel is a queue: its lines are in the order of the file, behind
\* those that were taken and ahead of the one the reader has.
InOrder ==
    /\ \A i, j \in DOMAIN work.q : i < j => work.q[i].line < work.q[j].line
    /\ \A l \in LinesOf(work.q), m \in FedLine : l < m
    /\ \A l \in Taken, m \in LinesOf(work.q) \union FedLine : l < m

\* The line at which the reader stopped is nobody's: its parse raised, or the
\* channel did not take it.
LeftBehind(l) ==
    /\ rpc \in {"close", "finish", "done"} /\ l = line_no
    /\ Undecided(l) /\ l \notin inFlight \union ToComplete

\* A line that was read is completed, or somebody has yet to complete it, or it
\* was left behind.
InSight(l) ==
    \/ Completed(l) \/ l \in inFlight \union ToComplete
    \/ rpc \in {"reject", "write", "complete"} /\ l = line_no /\ file[l] = "bad"
    \/ LeftBehind(l)

AllInSight == \A l \in Lines : SkipLines < l /\ l <= line_no => InSight(l)

\* A worker of a run without a failure reports none, and ends with empty hands.
Sound(w) ==
    /\ pc[w] \in {"put", "enq"} => act[w] \in {"ACK", "REJECT"}
    /\ pc[w] = "done" => held[w].line = 0

Unfailed == NoFailureSent /\ AllInSight /\ \A w \in Workers : Sound(w)

\* The consumer ends when no outcome of the pool is left.
ResultsOver == cpc = "done" /\ workersClean => LinesOf(results.q) = {}

\* What a stop that repeats nothing rests on.
IStop ==
    /\ IRun /\ LinesTraced /\ DecidedOnce
    /\ InOrder /\ ResultsOver
    /\ ~WORKER_FATAL => Unfailed

\* A step that takes at most the first line of the work channel keeps the order.
LEMMA OrderKept ==
    ASSUME WorkerTypeOK(Lines), InOrder, FedLine' \subseteq FedLine,
           \/ work'.q = work.q /\ Taken' \subseteq Taken
           \/ /\ work.q # <<>> /\ work'.q = Tail(work.q)
              /\ Taken' \subseteq Taken \union {Head(work.q).line}
    PROVE  InOrder'
  <1>1. CASE work'.q = work.q /\ Taken' \subseteq Taken
    <2>1. LinesOf(work.q)' = LinesOf(work.q)
      BY <1>1 DEF LinesOf
    <2> QED
      BY <1>1, <2>1 DEF InOrder
  <1>2. CASE /\ work.q # <<>> /\ work'.q = Tail(work.q)
             /\ Taken' \subseteq Taken \union {Head(work.q).line}
    <2>1. /\ work.q \in Seq(LoadItems(Lines))
          /\ \A l \in Lines : l \in Nat \ {0}
      BY LinesAssumption DEF WorkerTypeOK, Channel, LoadItems, Lines
    <2>2. /\ DOMAIN Tail(work.q) = 1..(Len(work.q) - 1)
          /\ DOMAIN work.q = 1..Len(work.q)
          /\ Len(work.q) \in Nat \ {0}
          /\ Head(work.q) = work.q[1]
          /\ \A i \in DOMAIN Tail(work.q) : Tail(work.q)[i] = work.q[i + 1]
      BY <1>2, <2>1, TailElements
    <2>3. \A i \in DOMAIN work'.q : /\ i + 1 \in DOMAIN work.q /\ 1 < i + 1 /\ i \in Int
                                   /\ work'.q[i] = work.q[i + 1]
      BY <1>2, <2>2
    <2>4. 1 \in DOMAIN work.q /\ \A i \in DOMAIN work.q : work.q[i].line \in Nat \ {0}
      <3>1. \A i \in DOMAIN work.q : work.q[i] \in LoadItems(Lines)
        BY <2>1
      <3> QED
        BY <2>1, <2>2, <3>1 DEF LoadItems
    <2>5. LinesOf(work.q)' \subseteq LinesOf(work.q)
      BY <2>3 DEF LinesOf
    <2>6. Head(work.q).line \in LinesOf(work.q)
      BY <2>2, <2>4 DEF LinesOf
    <2>7. \A m \in LinesOf(work.q)' : Head(work.q).line < m
      <3>1. \A i \in DOMAIN work'.q : work.q[1].line < work'.q[i].line
        BY <2>3, <2>4 DEF InOrder
      <3> QED
        BY <2>2, <3>1 DEF LinesOf
    <2>8. \A i, j \in DOMAIN work'.q : i < j => i + 1 < j + 1
      BY <2>3
    <2>9. \A i, j \in DOMAIN work'.q : i < j => work'.q[i].line < work'.q[j].line
      BY <2>3, <2>8 DEF InOrder
    <2> QED
      BY <1>2, <2>5, <2>6, <2>7, <2>9 DEF InOrder
  <1> QED
    BY <1>1, <1>2

\* What a worker has taken it may load, report or let go of, and it takes no
\* line but the first of the work channel.
LEMMA WorkerStepTaken ==
    ASSUME WorkerTypeOK(Lines), NEW w \in Workers, WorkerStep(w),
           UNCHANGED <<file, rejectFile, damaged, logged, cpc, outcome>>
    PROVE  \/ work'.q = work.q /\ Taken' \subseteq Taken
           \/ /\ work.q # <<>> /\ work'.q = Tail(work.q)
              /\ Taken' \subseteq Taken \union {Head(work.q).line}
  <1>0. /\ ToComplete' = ToComplete
        /\ \A l : ForPool(l)' <=> ForPool(l)
        /\ db' = db => \A l : Undecided(l)' <=> Undecided(l)
    BY DEF ToComplete, ForPool, Undecided
  <1> USE DEF channels
  <1>1. CASE AddRecord(w)
    <2>1. UNCHANGED <<channels, held>> /\ db' \subseteq db \union {held[w].line}
          /\ pc[w] = "call" /\ held[w].side = "load"
      BY <1>1 DEF AddRecord, EngineAdd, engineVars
    <2>2. held[w].line \in HeldLines
      BY <2>1, LinesAssumption DEF HeldLines, WorkerTypeOK, RedoJob, Nothing, Lines
    <2>3. \A l : ~Undecided(l)' => ~Undecided(l) \/ l = held[w].line
      BY <2>1 DEF Undecided
    <2> QED
      BY <1>0, <2>1, <2>2, <2>3 DEF Taken, HeldLines, LinesOf
  <1>2. CASE TakeLoad(w) /\ UNCHANGED <<results, engineVars>>
    <2>1. work \in Channel(LoadItems(Lines)) /\ HasItem(work)
      BY <1>2 DEF WorkerTypeOK, LoadItems, TakeLoad
    <2>2. work.q # <<>> /\ work'.q = Tail(work.q)
      BY <1>2, <2>1, DequeuedType DEF TakeLoad, HasItem
    <2>3. HeldLines' \subseteq HeldLines \union {Head(work.q).line}
      BY <1>2 DEF TakeLoad, TakeFrom, WorkerTypeOK, HeldLines
    <2> QED
      BY <1>0, <1>2, <2>2, <2>3 DEF Taken, LinesOf, engineVars
  <1>3. CASE /\ work' = work /\ db' = db
             /\ \A v \in Workers : held'[v] = held[v] \/ held'[v].line = 0
             /\ \/ UNCHANGED results
                \/ /\ results' = Enqueued(results, Report(w))
                   /\ Report(w).line \in {0, held[w].line}
    <2>1. HeldLines' \subseteq HeldLines
      BY <1>3 DEF HeldLines
    <2>2. LinesOf(results.q)' \subseteq LinesOf(results.q) \union HeldLines
      <3>1. CASE UNCHANGED results
        BY <3>1 DEF LinesOf
      <3>2. CASE /\ results' = Enqueued(results, Report(w))
                 /\ Report(w).line \in {0, held[w].line}
        <4>1. results \in Channel(Outcomes(Lines)) /\ Report(w) \in Outcomes(Lines)
          BY ReportType DEF WorkerTypeOK, Outcomes
        <4>2. /\ results.q \in Seq(Outcomes(Lines))
              /\ results'.q = Append(results.q, Report(w))
          <5>1. results.q \in Seq(Outcomes(Lines))
            BY <4>1 DEF Channel
          <5> QED
            BY <3>2, <4>1, <5>1, EnqueuedType
        <4>3. \A i \in DOMAIN results'.q :
                 (i \in DOMAIN results.q /\ results'.q[i] = results.q[i])
                   \/ results'.q[i] = Report(w)
          BY <4>1, <4>2, AppendElements
        <4>4. Report(w).line \in HeldLines \union {0}
          BY <3>2 DEF HeldLines
        <4> QED
          BY <4>3, <4>4 DEF LinesOf
      <3> QED
        BY <1>3, <3>1, <3>2
    <2> QED
      BY <1>0, <1>3, <2>1, <2>2 DEF Taken
  <1>4. CASE TakeRedo(w) /\ UNCHANGED <<results, engineVars>>
    <2>1. jobs \in Channel({RedoJob}) /\ HasItem(jobs)
      BY <1>4 DEF WorkerTypeOK, TakeRedo
    <2>2. Head(jobs.q) = RedoJob
      BY <2>1, DequeuedType
    <2>3. \A v \in Workers : held'[v] = held[v] \/ held'[v].line = 0
      BY <1>4, <2>2 DEF TakeRedo, TakeFrom, WorkerTypeOK, RedoJob
    <2> QED
      BY <1>3, <1>4, <2>3 DEF TakeRedo, engineVars
  <1>5. CASE SettleRedo(w)
    BY <1>3, <1>5 DEF SettleRedo, BackToTop, Nothing, WorkerTypeOK, engineVars
  <1>6. CASE PutCheck(w) \/ PutFull(w)
    <2>1. AfterPut(w) \/ held' = held
      BY <1>6 DEF PutCheck, PutFull
    <2>2. \A v \in Workers : held'[v] = held[v] \/ held'[v].line = 0
      BY <2>1, AfterPutHeld
    <2> QED
      BY <1>3, <1>6, <2>2 DEF PutCheck, PutFull, engineVars
  <1>7. CASE PutEnqueue(w)
    BY <1>3, <1>7, AfterPutHeld DEF PutEnqueue, engineVars
  <1>8. CASE \/ LoopTop(w) \/ GetNothing(w) \/ DrainMiss(w) \/ DrainEnd(w)
             \/ ProcessRedo(w) \/ PollMiss(w) \/ WorkerFatal(w)
    <2>1. UNCHANGED <<channels, held, db>>
      BY <1>8 DEF LoopTop, GetNothing, DrainMiss, DrainEnd, ProcessRedo, PollMiss,
                  WorkerFatal, EngineRedo, engineVars
    <2> QED
      BY <1>3, <2>1
  <1> QED
    BY <1>1, <1>2, <1>4, <1>5, <1>6, <1>7, <1>8
    DEF WorkerStep, LoadStep, RedoStep, MixedStep, ReportStep, GetLoad, DrainRedo, PollHit

\* Nothing ahead of the reader is anybody's.
LEMMA TakenWasRead ==
    ASSUME WorkerTypeOK(Lines), OwnTypeOK, Placed, Rejected, DecidedOnce
    PROVE  /\ line_no \in Nat
           /\ \A l \in Taken \union LinesOf(work.q) : l \in Nat /\ l <= line_no
  <1>0. /\ line_no \in Nat /\ ReaderTypeOK /\ ConsumerTypeOK /\ \A l \in Lines : l \in Nat
        /\ inFlight \subseteq 1..line_no
    BY LinesAssumption DEF OwnTypeOK, ReaderTypeOK, Lines, Placed, Tracked
  <1>1. \A l \in Lines : ~Undecided(l) => l <= line_no
    BY <1>0 DEF DecidedOnce
  <1>2. \A l \in HeldLines \union LinesOf(results.q) \union LinesOf(work.q) :
          l \in Nat /\ l <= line_no
    <2>1. HeldLines \union LinesOf(results.q) \union LinesOf(work.q) \subseteq inFlight
      BY DEF Placed, Tracked, HeldLines
    <2>2. \A l \in inFlight : l \in Nat /\ l <= line_no
      BY <1>0
    <2> QED
      BY <2>1, <2>2
  <1>3. ASSUME NEW l \in ToComplete PROVE l \in Nat /\ l <= line_no
    <2>1. l = outcome.line /\ l \in Lines /\ cpc \in {"settle", "write", "complete"}
      BY <1>0 DEF ToComplete, ConsumerTypeOK
    <2>2. CASE cpc \in {"settle", "write"}
      BY <1>0, <2>1, <2>2 DEF DecidedOnce, Lines
    <2>3. CASE cpc = "complete"
      <3>1. ~Undecided(l)
        BY <1>0, <2>1, <2>3 DEF Rejected, Undecided, Lines
      <3> QED
        BY <1>0, <1>1, <2>1, <3>1
    <2> QED
      BY <2>1, <2>2, <2>3
  <1> QED
    BY <1>0, <1>1, <1>2, <1>3 DEF Taken

\* The reader reads behind everything that is on its way, and puts its line
\* behind those in the channel.
LEMMA ReaderStepOrder ==
    ASSUME WorkerTypeOK(Lines), OwnTypeOK, Placed, Rejected, DecidedOnce, InOrder,
           ReaderStep, UNCHANGED consumerVars
    PROVE  InOrder'
  <1>0. /\ UNCHANGED <<file, held, db, cpc, outcome, results>>
        /\ LinesInHand /\ work \in Channel(LoadItems(Lines))
        /\ work.q \in Seq(LoadItems(Lines))
    BY DEF ReaderStep, ReadStop, ReadLine, ReaderReject, ReaderWrite, ReaderWriteHangs,
           ReaderComplete, ReaderPutCheck, ReaderEnqueue, ReaderGiveUp, ReaderClose,
           ReaderFinish, otherThanReader, workerVars, engineVars, channels, OwnTypeOK,
           consumerVars, WorkerTypeOK, LoadItems, Channel
  <1>1. Taken' \subseteq Taken
    <2>1. \A l : ForPool(l)' /\ ~Undecided(l)' => ForPool(l) /\ ~Undecided(l)
      <3>1. CASE ReaderWrite
        <4>1. /\ file[line_no] = "bad"
              /\ (rejectFile \union damaged \union logged)' \subseteq
                    rejectFile \union damaged \union logged \union {line_no}
          BY <3>1 DEF ReaderWrite, WriteReject, WriteFails, DecidedOnce
        <4> QED
          BY <1>0, <4>1 DEF ForPool, Undecided
      <3>2. CASE ~ReaderWrite
        <4>1. UNCHANGED <<rejectFile, damaged, logged>>
          BY <3>2
          DEF ReaderStep, ReadStop, ReadLine, ReaderReject, ReaderWriteHangs,
              ReaderComplete, ReaderPutCheck, ReaderEnqueue, ReaderGiveUp, ReaderClose,
              ReaderFinish, loadStateVars, sinkVars
        <4> QED
          BY <1>0, <4>1 DEF ForPool, Undecided
      <3> QED
        BY <3>1, <3>2
    <2> QED
      BY <1>0, <2>1 DEF Taken, HeldLines, LinesOf, ToComplete
  <1>2. CASE ReadLine
    <2>1. /\ FedLine' \subseteq {line_no + 1} /\ work' = work
      BY <1>2 DEF ReadLine, FedLine, channels
    <2>2. LinesOf(work.q)' = LinesOf(work.q)
      BY <2>1 DEF LinesOf
    <2>3. \A l \in Taken \union LinesOf(work.q) : l < line_no + 1
      BY TakenWasRead
    <2> QED
      BY <1>1, <2>1, <2>2, <2>3 DEF InOrder
  <1>3. CASE ReaderEnqueue
    <2> DEFINE x == LoadItem(line_no)
    <2>1. FedLine = {line_no} /\ FedLine' = {} /\ x \in LoadItems(Lines) /\ x.line = line_no
      BY <1>0, <1>3 DEF ReaderEnqueue, FedLine, LinesInHand, LoadItems, LoadItem
    <2>2. work'.q = Append(work.q, x)
      BY <1>0, <1>3, <2>1, EnqueuedType DEF ReaderEnqueue
    <2> HIDE DEF x
    <2>3. /\ DOMAIN work.q = 1..Len(work.q) /\ Len(work.q) \in Nat
          /\ DOMAIN work'.q = 1..(Len(work.q) + 1)
          /\ work'.q[Len(work.q) + 1].line = line_no
          /\ \A i \in DOMAIN work.q : work'.q[i] = work.q[i]
      BY <1>0, <2>1, <2>2, AppendElements
    <2>4. \A i \in DOMAIN work'.q :
             \/ i \in DOMAIN work.q /\ i < Len(work.q) + 1 /\ work'.q[i] = work.q[i]
             \/ i = Len(work.q) + 1 /\ work'.q[i].line = line_no
      BY <2>3
    <2>5. \A i \in DOMAIN work.q : work.q[i].line < line_no
      <3>1. \A i \in DOMAIN work.q : work.q[i].line \in LinesOf(work.q)
        <4>1. \A i \in DOMAIN work.q : work.q[i] \in LoadItems(Lines)
          BY <1>0
        <4> QED
          BY <4>1, LinesAssumption DEF LoadItems, LinesOf, Lines
      <3> QED
        BY <2>1, <3>1 DEF InOrder
    <2>6. \A i, j \in DOMAIN work'.q : i < j => work'.q[i].line < work'.q[j].line
      <3> SUFFICES ASSUME NEW i \in DOMAIN work'.q, NEW j \in DOMAIN work'.q, i < j
                   PROVE  work'.q[i].line < work'.q[j].line
        OBVIOUS
      <3>1. i \in DOMAIN work.q /\ work'.q[i] = work.q[i]
        BY <2>3, <2>4
      <3> QED
        BY <2>4, <2>5, <3>1 DEF InOrder
    <2>7. LinesOf(work.q)' \subseteq LinesOf(work.q) \union {line_no}
      BY <2>4 DEF LinesOf
    <2> QED
      BY <1>1, <2>1, <2>6, <2>7 DEF InOrder
  <1>4. CASE \/ ReadStop \/ ReaderReject \/ ReaderWrite \/ ReaderWriteHangs \/ ReaderComplete
             \/ ReaderPutCheck \/ ReaderGiveUp \/ ReaderClose \/ ReaderFinish
    <2>1. FedLine' \subseteq FedLine /\ (work' = work \/ work' = Closed(work))
      BY <1>4
      DEF ReadStop, ReaderReject, ReaderWrite, ReaderWriteHangs, ReaderComplete,
          ReaderPutCheck, ReaderGiveUp, PutFails, ReaderClose, ReaderFinish, FedLine,
          channels
    <2>2. work'.q = work.q
      BY <1>0, <2>1, ClosedType
    <2> QED
      BY <1>1, <2>1, <2>2, OrderKept
  <1> QED
    BY <1>2, <1>3, <1>4 DEF ReaderStep

\* The consumer takes what was reported.
LEMMA ConsumerStepOrder ==
    ASSUME WorkerTypeOK(Lines), OwnTypeOK, InOrder, ConsumerStep, UNCHANGED readerVars
    PROVE  InOrder'
  <1>0. UNCHANGED <<file, held, db, work, rpc, line_no>> /\ LinesInHand
    BY DEF ConsumerStep, ConsumerGet, ConsumerClosed, SettleAck, SettleFails,
           SettleReject, SettleWrite, SettleWriteHangs, SettleComplete, SettleFatal,
           otherThanConsumer, workerVars, engineVars, readerVars, channels, OwnTypeOK
  <1>1. Taken' \subseteq Taken
    <2>1. CASE ConsumerGet
      <3> DEFINE o == Head(results.q)
      <3>1. /\ results.q \in Seq(Outcomes(Lines)) /\ results.q # <<>>
            /\ results'.q = Tail(results.q)
        <4>1. results \in Channel(Outcomes(Lines))
          BY DEF WorkerTypeOK, Outcomes
        <4> QED
          BY <2>1, <4>1, DequeuedType DEF ConsumerGet, Channel, HasItem
      <3>2. /\ o = results.q[1] /\ 1 \in DOMAIN results.q
            /\ \A i \in DOMAIN results'.q : i + 1 \in DOMAIN results.q
                                              /\ results'.q[i] = results.q[i + 1]
        BY <3>1, TailElements
      <3>3. outcome'.line = o.line /\ UNCHANGED <<rejectFile, damaged, logged>>
        BY <2>1 DEF ConsumerGet, sinkVars
      <3> HIDE DEF o
      <3>4. LinesOf(results.q)' \union ToComplete' \subseteq LinesOf(results.q)
        BY <3>2, <3>3 DEF LinesOf, ToComplete
      <3> QED
        BY <1>0, <3>3, <3>4 DEF Taken, HeldLines, ForPool, Undecided
    <2>2. CASE SettleWrite
      <3>1. /\ outcome.line \in ToComplete /\ ToComplete' = ToComplete /\ results' = results
            /\ (rejectFile \union damaged \union logged)' \subseteq
                  rejectFile \union damaged \union logged \union {outcome.line}
        BY <1>0, <2>2, LinesAssumption
        DEF SettleWrite, WriteReject, WriteFails, ToComplete, LinesInHand, channels,
            Lines
      <3> QED
        BY <1>0, <3>1 DEF Taken, HeldLines, LinesOf, ForPool, Undecided
    <2>3. CASE \/ ConsumerClosed \/ SettleAck \/ SettleFails \/ SettleReject
               \/ SettleWriteHangs \/ SettleComplete \/ SettleFatal
      <3>1. /\ ToComplete' \subseteq ToComplete
            /\ UNCHANGED <<results, rejectFile, damaged, logged>>
        BY <2>3
        DEF ConsumerClosed, SettleAck, SettleFails, SettleReject, SettleWriteHangs,
            SettleComplete, SettleFatal, ToComplete, channels, loadStateVars, sinkVars
      <3> QED
        BY <1>0, <3>1 DEF Taken, HeldLines, LinesOf, ForPool, Undecided
    <2> QED
      BY <2>1, <2>2, <2>3 DEF ConsumerStep
  <1> QED
    BY <1>0, <1>1, OrderKept DEF FedLine

\* The fetcher and the main thread take no line.
LEMMA OtherStepsOrder ==
    ASSUME WorkerTypeOK(Lines), InOrder,
           work'.q = work.q, LinesOf(results.q)' \subseteq LinesOf(results.q),
           UNCHANGED <<file, held, db, rejectFile, damaged, logged, cpc, outcome, rpc, line_no>>
    PROVE  InOrder'
  <1>1. Taken' \subseteq Taken /\ FedLine' = FedLine
    BY DEF Taken, HeldLines, ToComplete, ForPool, Undecided, FedLine
  <1> QED
    BY <1>1, OrderKept

\* A worker that reports no failure sends none, and lets go of what it reported.
LEMMA WorkerStepSound ==
    ASSUME WorkerTypeOK(Lines), NEW w \in Workers, AtWork(w), Sound(w), NoFailureSent,
           WorkerStep(w), ~WORKER_FATAL', UNCHANGED <<fpc, outcome>>
    PROVE  Sound(w)' /\ NoFailureSent'
  <1>0. results \in Channel(Outcomes(Lines))
    BY DEF WorkerTypeOK, Outcomes
  <1>1. Sound(w)'
    <2> USE DEF Sound, AtWork, WorkerTypeOK, Goto, Become, Nothing
    <2>1. CASE LoadStep(w)
      BY <2>1 DEF LoadStep, LoopTop, GetLoad, GetNothing, AddRecord, TakeLoad, TakeFrom
    <2>2. CASE RedoStep(w)
      BY <2>2 DEF RedoStep, DrainRedo, DrainMiss, DrainEnd, ProcessRedo, SettleRedo,
                  TakeRedo, TakeFrom, BackToTop
    <2>3. CASE MixedStep(w)
      BY <2>3 DEF MixedStep, PollHit, PollMiss, TakeLoad, TakeRedo, TakeFrom
    <2>4. CASE ReportStep(w)
      <3>1. CASE WorkerFatal(w)
        BY <3>1 DEF WorkerFatal, MarkFatal
      <3>2. CASE pc[w] \in {"put", "enq"} /\ AfterPut(w)
        BY <3>2 DEF AfterPut, BackToTop
      <3>3. CASE Goto(w, "enq") /\ pc[w] = "put" /\ UNCHANGED <<held, act>>
        BY <3>3
      <3> QED
        BY <2>4, <3>1, <3>2, <3>3 DEF ReportStep, PutCheck, PutEnqueue, PutFull
    <2> QED
      BY <2>1, <2>2, <2>3, <2>4 DEF WorkerStep
  <1>2. NoFailureSent'
    <2>1. CASE UNCHANGED results
      BY <2>1 DEF NoFailureSent
    <2>2. CASE results' = Enqueued(results, Report(w)) /\ pc[w] = "enq"
      <3>1. Report(w) \in Outcomes(Lines) /\ Report(w).kind # "FATAL"
        <4>1. Report(w) \in Outcomes(Lines)
          BY ReportType DEF WorkerTypeOK, Outcomes
        <4>2. act[w] \in {"ACK", "REJECT"}
          BY <2>2 DEF Sound
        <4> QED
          BY <4>1, <4>2 DEF Report, Outcome
      <3>2. results.q \in Seq(Outcomes(Lines))
        BY <1>0 DEF Channel
      <3>3. results'.q = Append(results.q, Report(w))
        BY <1>0, <2>2, <3>1, EnqueuedType
      <3>4. \A i \in DOMAIN results'.q :
               (i \in DOMAIN results.q /\ results'.q[i] = results.q[i])
                 \/ results'.q[i] = Report(w)
        BY <3>1, <3>2, <3>3, AppendElements
      <3> QED
        BY <3>1, <3>4 DEF NoFailureSent
    <2>3. UNCHANGED results \/ (results' = Enqueued(results, Report(w)) /\ pc[w] = "enq")
      BY DEF WorkerStep, LoadStep, LoopTop, GetLoad, GetNothing, AddRecord, RedoStep,
             DrainRedo, DrainMiss, DrainEnd, ProcessRedo, SettleRedo, MixedStep, PollHit,
             PollMiss, ReportStep, WorkerFatal, PutCheck, PutEnqueue, PutFull, channels
    <2> QED
      BY <2>1, <2>2, <2>3
  <1> QED
    BY <1>1, <1>2

\* A line left behind is in no worker's hands, so none can load it.
LEMMA WorkerStepInSight ==
    ASSUME WorkerTypeOK(Lines), Placed, AllInSight, NEW w \in Workers, WorkerStep(w),
           UNCHANGED <<readerVars, consumerVars, loadStateVars>>
    PROVE  AllInSight'
  <1>0. /\ UNCHANGED <<file, rpc, line_no, cpc, outcome, next, outOfOrder, inFlight,
                       rejectFile, damaged, logged>>
        /\ ToComplete' = ToComplete
    BY DEF readerVars, consumerVars, loadStateVars, resumeVars, sinkVars, ToComplete
  <1>1. db' \subseteq db \union {held[w].line}
    BY DEF WorkerStep, LoadStep, LoopTop, GetLoad, GetNothing, AddRecord, EngineAdd,
           RedoStep, DrainRedo, DrainMiss, DrainEnd, ProcessRedo, EngineRedo,
           SettleRedo, MixedStep, PollHit, PollMiss, ReportStep, WorkerFatal, PutCheck,
           PutEnqueue, PutFull, engineVars
  <1>2. \A l \in Lines : LeftBehind(l) => LeftBehind(l)'
    <2>1. \A l \in Lines : l \notin inFlight => l # held[w].line
      BY LinesAssumption DEF Placed, Tracked, Lines
    <2> QED
      BY <1>0, <1>1, <2>1 DEF LeftBehind, Undecided
  <1> QED
    BY <1>0, <1>2 DEF AllInSight, InSight, Completed

\* The reader loses sight of no line: one it could not parse or put it leaves
\* behind, where it stops.
LEMMA ReaderStepInSight ==
    ASSUME WorkerTypeOK(Lines), OwnTypeOK, Placed, Rejected, DecidedOnce,
           SkipLines < next, next \notin outOfOrder, AllInSight, ReaderStep,
           UNCHANGED consumerVars
    PROVE  AllInSight'
  <1>0. /\ LoadStateTypeOK /\ ReaderTypeOK /\ LinesInHand /\ line_no \in Nat
        /\ LastLine \in Nat /\ SkipLines \in Nat
        /\ UNCHANGED <<file, db, cpc, outcome>> /\ ToComplete' = ToComplete
    BY LinesAssumption
    DEF OwnTypeOK, ReaderTypeOK, Lines, consumerVars, ToComplete, ReaderStep, ReadStop,
        ReadLine, ReaderReject, ReaderWrite, ReaderWriteHangs, ReaderComplete,
        ReaderPutCheck, ReaderEnqueue, ReaderGiveUp, ReaderClose, ReaderFinish,
        otherThanReader, engineVars
  <1> USE DEF AllInSight, InSight
  <1>1. CASE ReadLine
    <2>1. /\ rpc = "read" /\ line_no' = line_no + 1 /\ line_no' \in Lines
          /\ UNCHANGED <<rejectFile, damaged, logged>>
      BY <1>0, <1>1 DEF ReadLine, ReaderTypeOK, Lines, sinkVars
    <2>2. CASE line_no' <= SkipLines
      <3>1. \A l \in Lines : SkipLines < l => ~(l <= line_no')
        BY <1>0, <2>1, <2>2 DEF Lines
      <3> QED
        BY <3>1
    <2>3. CASE ~(line_no' <= SkipLines)
      <3>1. Feed(line_no')
        BY <1>1, <2>1, <2>3 DEF ReadLine
      <3>2. \A l \in Lines : l <= line_no' => l <= line_no \/ l = line_no'
        BY <1>0, <2>1 DEF Lines
      <3>3. \A l \in Lines : ~LeftBehind(l)
        BY <2>1 DEF LeftBehind
      <3>4. CASE /\ rpc' = "read" /\ Complete(line_no')
                 /\ UNCHANGED inFlight
        <4>1. \A l \in Lines : Completed(l) \/ l = line_no' => Completed(l)'
          BY <1>0, <2>1, <3>4, CompleteCompletes
        <4> QED
          BY <1>0, <2>1, <3>2, <3>3, <3>4, <4>1
      <3>5. CASE rpc' = "reject" /\ file[line_no'] = "bad" /\ UNCHANGED <<resumeVars, inFlight>>
        BY <1>0, <2>1, <3>2, <3>3, <3>5 DEF Completed, resumeVars
      <3>6. CASE rpc' = "close" /\ UNCHANGED <<resumeVars, inFlight>>
        <4>1. Undecided(line_no') /\ line_no' \notin inFlight
          BY <1>0, <2>1 DEF DecidedOnce, Placed, Tracked
        <4>2. line_no' \notin ToComplete
          <5>1. \A l \in ToComplete : l <= line_no
            BY TakenWasRead DEF Taken
          <5> QED
            BY <1>0, <2>1, <5>1
        <4>3. LeftBehind(line_no)'
          BY <1>0, <2>1, <3>6, <4>1, <4>2 DEF LeftBehind, Undecided
        <4> QED
          BY <1>0, <2>1, <3>2, <3>3, <3>6, <4>3 DEF Completed, resumeVars
      <3>7. CASE /\ rpc' = "put" /\ inFlight' = inFlight \union {line_no'}
                 /\ UNCHANGED resumeVars
        BY <1>0, <2>1, <3>2, <3>3, <3>7 DEF Completed, resumeVars
      <3> QED
        BY <1>0, <3>1, <3>4, <3>5, <3>6, <3>7 DEF Feed
    <2> QED
      BY <2>2, <2>3
  <1>2. CASE ReaderComplete
    <2>1. /\ rpc = "complete" /\ rpc' = "read" /\ UNCHANGED <<line_no, inFlight>>
          /\ Complete(line_no) /\ line_no \in Lines
      BY <1>0, <1>2 DEF ReaderComplete, LinesInHand
    <2>2. \A l \in Lines : Completed(l) \/ l = line_no => Completed(l)'
      BY <1>0, <2>1, CompleteCompletes
    <2> QED
      BY <1>0, <2>1, <2>2 DEF LeftBehind
  <1>3. CASE ReaderGiveUp
    <2>1. /\ rpc \in {"put", "enq"} /\ rpc' = "close" /\ inFlight' = inFlight \ {line_no}
          /\ UNCHANGED <<line_no, next, outOfOrder, rejectFile, damaged, logged>>
      BY <1>3 DEF ReaderGiveUp, PutFails, Withdraw, resumeVars, sinkVars
    <2>2. Undecided(line_no) /\ line_no \in inFlight /\ line_no \in Lines
      BY <1>0, <2>1 DEF DecidedOnce, Placed, Tracked, FedLine, LinesInHand
    <2>3. line_no \notin ToComplete
      <3>1. cpc = "complete" => ~Undecided(outcome.line) \/ outcome.line = 0
        BY DEF Rejected, Undecided
      <3>2. cpc \in {"settle", "write"} => outcome.line \notin inFlight \/ outcome.line = 0
        BY DEF DecidedOnce
      <3> QED
        BY <2>2, <3>1, <3>2 DEF ToComplete
    <2>4. LeftBehind(line_no)'
      BY <1>0, <2>1, <2>2, <2>3 DEF LeftBehind, Undecided
    <2> QED
      BY <1>0, <2>1, <2>4 DEF Completed, LeftBehind
  <1>4. CASE ReaderWrite
    <2>1. /\ rpc = "write" /\ rpc' = "complete"
          /\ UNCHANGED <<line_no, next, outOfOrder, inFlight>>
      BY <1>4 DEF ReaderWrite, resumeVars
    <2> QED
      BY <1>0, <2>1 DEF Completed, LeftBehind
  <1>5. CASE \/ ReadStop \/ ReaderReject \/ ReaderPutCheck \/ ReaderEnqueue
             \/ ReaderClose \/ ReaderFinish
    <2>1. /\ UNCHANGED <<line_no, next, outOfOrder, inFlight, rejectFile, damaged, logged>>
          /\ rpc = "reject" => rpc' = "write"
          /\ rpc \notin {"write", "complete"}
          /\ rpc \in {"close", "finish", "done"} => rpc' \in {"close", "finish", "done"}
      BY <1>5 DEF ReadStop, ReaderReject, ReaderPutCheck, ReaderEnqueue, ReaderClose,
                  ReaderFinish, loadStateVars, resumeVars, sinkVars
    <2> QED
      BY <1>0, <2>1 DEF Completed, LeftBehind, Undecided
  <1>6. CASE ReaderWriteHangs
    <2>1. UNCHANGED <<rpc, line_no, next, outOfOrder, inFlight, rejectFile, damaged, logged>>
      BY <1>6 DEF ReaderWriteHangs, resumeVars, sinkVars
    <2> QED
      BY <1>0, <2>1 DEF Completed, LeftBehind, Undecided
  <1> QED
    BY <1>1, <1>2, <1>3, <1>4, <1>5, <1>6 DEF ReaderStep

\* The consumer takes what is in flight, never the line left behind, and
\* completes it unless there was a failure.
LEMMA ConsumerStepInSight ==
    ASSUME WorkerTypeOK(Lines), OwnTypeOK, Placed, SkipLines < next, next \notin outOfOrder,
           NoFailureSent, AllInSight, ConsumerStep, ~WORKER_FATAL', UNCHANGED readerVars
    PROVE  NoFailureSent' /\ AllInSight'
  <1>0. /\ LoadStateTypeOK /\ ConsumerTypeOK /\ LinesInHand
        /\ UNCHANGED <<file, rpc, line_no, db, fpc>>
        /\ results \in Channel(Outcomes(Lines))
        /\ \A l \in Lines : l # 0
    BY LinesAssumption
    DEF OwnTypeOK, readerVars, WorkerTypeOK, Outcomes, Lines, ConsumerStep, ConsumerGet,
        ConsumerClosed, SettleAck, SettleFails, SettleReject, SettleWrite,
        SettleWriteHangs, SettleComplete, SettleFatal, otherThanConsumer, fetcherVars,
        engineVars
  <1> USE DEF AllInSight, InSight
  <1>1. CASE ConsumerGet
    <2> DEFINE o == Head(results.q)
    <2>1. /\ results.q \in Seq(Outcomes(Lines)) /\ results.q # <<>>
          /\ results'.q = Tail(results.q)
      BY <1>0, <1>1, DequeuedType DEF ConsumerGet, Channel, HasItem
    <2>2. /\ cpc = "get" /\ cpc' = "settle"
          /\ UNCHANGED <<next, outOfOrder, rejectFile, damaged, logged>>
          /\ outcome'.line = o.line /\ outcome'.kind = o.kind
          /\ inFlight' = inFlight \ {o.line}
      BY <1>1 DEF ConsumerGet, PopBody, PickUp, resumeVars, sinkVars
    <2>3. /\ o = results.q[1] /\ 1 \in DOMAIN results.q
          /\ \A i \in DOMAIN results'.q : i + 1 \in DOMAIN results.q
                                            /\ results'.q[i] = results.q[i + 1]
      BY <2>1, TailElements
    <2> HIDE DEF o
    <2>4. ToComplete = {} /\ ToComplete' = {o.line} \ {0} /\ ToComplete' \subseteq inFlight
      BY <2>2, <2>3 DEF ToComplete, Placed, Tracked, LinesOf
    <2>5. \A l \in Lines : LeftBehind(l) => LeftBehind(l)'
      BY <1>0, <2>2, <2>4 DEF LeftBehind, Undecided
    <2>6. AllInSight'
      BY <1>0, <2>2, <2>4, <2>5 DEF Completed
    <2>7. NoFailureSent'
      BY <1>0, <2>2, <2>3 DEF NoFailureSent
    <2> QED
      BY <2>6, <2>7
  <1>2. CASE SettleAck \/ SettleComplete
    <2>1. /\ cpc \in {"settle", "complete"} /\ cpc' = "get" /\ outcome' = NoOutcome
          /\ Complete(outcome.line)
          /\ UNCHANGED <<results, inFlight, rejectFile, damaged, logged>>
      BY <1>2 DEF SettleAck, SettleComplete, channels, sinkVars
    <2>2. outcome.line \in Lines \union {0}
      BY <1>0 DEF ConsumerTypeOK
    <2>3. \A l \in Lines : Completed(l) \/ l = outcome.line => Completed(l)'
      BY <1>0, <2>1, <2>2, CompleteCompletes
    <2>4. ToComplete' = {} /\ \A l \in ToComplete : l = outcome.line
      BY <2>1 DEF ToComplete
    <2>5. \A l \in Lines : LeftBehind(l) => LeftBehind(l)'
      BY <1>0, <2>1, <2>4 DEF LeftBehind, Undecided
    <2>6. AllInSight'
      BY <1>0, <2>1, <2>3, <2>4, <2>5
    <2> QED
      BY <1>0, <2>1, <2>6 DEF NoFailureSent, NoOutcome
  <1>3. CASE SettleWrite
    <2>1. /\ cpc = "write" /\ cpc' = "complete" /\ ToComplete' = ToComplete
          /\ UNCHANGED <<outcome, results, next, outOfOrder, inFlight>>
          /\ (rejectFile \union damaged \union logged)' \subseteq
                rejectFile \union damaged \union logged \union {outcome.line}
      BY <1>3 DEF SettleWrite, WriteReject, WriteFails, ToComplete, channels, resumeVars
    <2>2. outcome.line \in ToComplete
      BY <1>0, <2>1 DEF ToComplete, LinesInHand
    <2>3. \A l \in Lines : LeftBehind(l) => LeftBehind(l)'
      BY <1>0, <2>1, <2>2 DEF LeftBehind, Undecided
    <2> QED
      BY <1>0, <2>1, <2>3 DEF NoFailureSent, Completed
  <1>4. CASE ConsumerClosed \/ SettleReject \/ SettleWriteHangs
    <2>1. /\ ToComplete' = ToComplete
          /\ UNCHANGED <<outcome, results, next, outOfOrder, inFlight, rejectFile, damaged, logged>>
      BY <1>4 DEF ConsumerClosed, SettleReject, SettleWriteHangs, channels, loadStateVars,
                  resumeVars, sinkVars, ToComplete
    <2> QED
      BY <1>0, <2>1 DEF NoFailureSent, Completed, LeftBehind, Undecided
  <1>5. CASE SettleFails \/ SettleFatal
    BY <1>5 DEF SettleFails, MarkFatal, SettleFatal, NoFailureSent
  <1> QED
    BY <1>1, <1>2, <1>3, <1>4, <1>5 DEF ConsumerStep

\* The fetcher signals a failure only when it has flagged it.
LEMMA FetcherStepUnfailed ==
    ASSUME WorkerTypeOK(Lines), Unfailed, NEW complete, FetcherStep(complete), ~WORKER_FATAL',
           UNCHANGED <<readerVars, consumerVars, loadStateVars>>
    PROVE  Unfailed'
  <1>1. UNCHANGED <<pc, held, act, db>>
    BY FetcherPuts
  <1>2. results' = results /\ fpc' \notin {"fput", "fenq"}
    BY DEF Unfailed, NoFailureSent, FetcherStep, FetchTop, FetchRecord, FetchEmpty,
           FetchError, FetchQuiet, FetchDrained, FetchGiveUp, FetchPutCheck, FetchEnqueue,
           FetchFatal, FetchReport, FetchClose, MarkFatal, channels
  <1>3. UNCHANGED <<file, rpc, line_no, cpc, outcome, next, outOfOrder, inFlight, rejectFile,
                    damaged, logged>>
    BY DEF readerVars, consumerVars, loadStateVars, resumeVars, sinkVars
  <1> QED
    BY <1>1, <1>2, <1>3
    DEF Unfailed, NoFailureSent, AllInSight, InSight, LeftBehind, Completed, ToComplete,
        Undecided, Sound

\* A failure that is flagged stays flagged.
LEMMA FatalStays ==
    ASSUME [Next]_vars, WORKER_FATAL \in BOOLEAN, ~WORKER_FATAL'
    PROVE  ~WORKER_FATAL
  <1> USE DEF statsVars, flags, MarkFatal
  <1>1. ASSUME NEW w \in Workers, Worker(w) PROVE ~WORKER_FATAL
    BY <1>1
    DEF Worker, WorkerStep, LoadStep, LoopTop, GetLoad, GetNothing, AddRecord, RedoStep,
        DrainRedo, DrainMiss, DrainEnd, ProcessRedo, SettleRedo, MixedStep, PollHit,
        PollMiss, ReportStep, WorkerFatal, PutCheck, PutEnqueue, PutFull
  <1>2. CASE Fetcher
    BY <1>2
    DEF Fetcher, FetcherStep, FetchTop, FetchRecord, FetchEmpty, FetchError, FetchQuiet,
        FetchDrained, FetchGiveUp, FetchPutCheck, FetchEnqueue, FetchFatal, FetchReport,
        FetchClose
  <1>3. CASE ReaderThread \/ Consumer
    BY <1>3
    DEF ReaderThread, ReaderStep, ReadStop, ReadLine, ReaderReject, ReaderWrite,
        ReaderWriteHangs, ReaderComplete, ReaderPutCheck, ReaderEnqueue, ReaderGiveUp,
        ReaderClose, ReaderFinish, Consumer, ConsumerStep, ConsumerGet, ConsumerClosed,
        SettleAck, SettleFails, SettleReject, SettleWrite, SettleWriteHangs,
        SettleComplete, SettleFatal
  <1>4. CASE MainStep \/ Signal \/ UNCHANGED vars
    BY <1>4
    DEF MainStep, TickDue, TickAsks, TickEnds, StopMonitoring, CloseWork, JoinWorkers,
        CloseJobs, JoinAux, CloseResults, JoinConsumer, Finish, FinishFails, Teardown,
        MainGoto, Signal, vars
  <1> QED
    BY <1>1, <1>2, <1>3, <1>4 DEF Next, Exited

\* The main thread, a signal and a stutter change no line and no queue.
LEMMA MainStepStill ==
    ASSUME WorkerTypeOK(Lines), MainStep \/ Signal \/ UNCHANGED vars
    PROVE  /\ UNCHANGED <<pc, held, act, db, fpc, file, rpc, line_no, cpc, outcome, next,
                          outOfOrder, inFlight, rejectFile, damaged, logged>>
           /\ work'.q = work.q /\ results'.q = results.q
  <1>1. /\ UNCHANGED <<pc, held, act, db, fpc, file, rpc, line_no, cpc, outcome, next,
                       outOfOrder, inFlight, rejectFile, damaged, logged>>
        /\ work' = work \/ work' = Closed(work)
        /\ results' = results \/ results' = Closed(results)
    BY DEF MainStep, TickDue, TickAsks, TickEnds, StopMonitoring, CloseWork,
           JoinWorkers, CloseJobs, JoinAux, CloseResults, JoinConsumer, Finish,
           FinishFails, Teardown, MainGoto, Signal, vars, othersVars, workerVars,
           fetcherVars, readerVars, consumerVars, loadStateVars, resumeVars, sinkVars,
           engineVars, channels
  <1> QED
    BY <1>1, ClosedType DEF WorkerTypeOK

\* Every step of the process takes the lines in order.
LEMMA NextInOrder ==
    ASSUME IWatermark, DecidedOnce, InOrder, [Next]_vars
    PROVE  InOrder'
  <1>0. /\ WorkerTypeOK(Lines) /\ OwnTypeOK /\ Placed /\ Rejected
    BY ITypeParts, TracedParts DEF IWatermark, SharedTypeOK, Booked
  <1>1. ASSUME NEW w \in Workers, Worker(w) PROVE InOrder'
    <2>1. /\ WorkerStep(w) /\ FedLine' = FedLine
          /\ UNCHANGED <<file, rejectFile, damaged, logged, cpc, outcome>>
      BY <1>1 DEF Worker, readerVars, consumerVars, loadStateVars, sinkVars, FedLine
    <2> QED
      BY <1>0, <2>1, WorkerStepTaken, OrderKept
  <1>2. CASE Fetcher
    <2>1. /\ FetcherStep(load_complete)
          /\ UNCHANGED <<file, rejectFile, damaged, logged, cpc, outcome, rpc, line_no>>
      BY <1>2 DEF Fetcher, readerVars, consumerVars, loadStateVars, sinkVars
    <2>2. UNCHANGED <<work, held, db>>
      BY <1>0, <2>1, FetcherPuts
    <2>3. LinesOf(results.q)' \subseteq LinesOf(results.q)
      <3> DEFINE o == Outcome(0, "FATAL")
      <3>1. CASE UNCHANGED results
        BY <3>1 DEF LinesOf
      <3>2. CASE /\ results.q \in Seq(Outcomes(Lines)) /\ o \in Outcomes(Lines)
                 /\ results'.q = Append(results.q, o)
        <4>1. o.line = 0
          BY DEF Outcome
        <4> HIDE DEF o
        <4>2. \A i \in DOMAIN results'.q :
                 (i \in DOMAIN results.q /\ results'.q[i] = results.q[i]) \/ results'.q[i] = o
          BY <3>2, AppendElements
        <4> QED
          BY <4>1, <4>2 DEF LinesOf
      <3> QED
        BY <1>0, <2>1, <3>1, <3>2, FetcherPuts
    <2> QED
      BY <1>0, <2>1, <2>2, <2>3, OtherStepsOrder
  <1>3. CASE ReaderThread
    BY <1>0, <1>3, ReaderStepOrder DEF ReaderThread
  <1>4. CASE Consumer
    BY <1>0, <1>4, ConsumerStepOrder DEF Consumer
  <1>5. CASE MainStep \/ Signal \/ UNCHANGED vars
    <2>1. LinesOf(results.q)' = LinesOf(results.q)
      BY <1>0, <1>5, MainStepStill DEF LinesOf
    <2> QED
      BY <1>0, <1>5, <2>1, MainStepStill, OtherStepsOrder
  <1> QED
    BY <1>1, <1>2, <1>3, <1>4, <1>5 DEF Next, Exited

\* Every step of a run without a failure keeps every line in sight.
LEMMA NextUnfailed ==
    ASSUME IRun, LinesTraced, DecidedOnce, Unfailed, [Next]_vars, ~WORKER_FATAL'
    PROVE  Unfailed'
  <1>0. /\ WorkerTypeOK(Lines) /\ OwnTypeOK /\ Placed /\ Rejected
        /\ SkipLines < next /\ next \notin outOfOrder
        /\ \A w \in Workers : AtWork(w) /\ Sound(w)
        /\ NoFailureSent /\ AllInSight
    BY ITypeParts, TracedParts
    DEF IRun, IFlight, InAnyRun, SharedTypeOK, Booked, Unfailed
  <1>1. ASSUME NEW w \in Workers, Worker(w) PROVE Unfailed'
    <2>1. WorkerStep(w) /\ UNCHANGED <<fpc, readerVars, consumerVars, loadStateVars, outcome>>
      BY <1>1 DEF Worker, fetcherVars, consumerVars
    <2>2. Sound(w)' /\ NoFailureSent'
      BY <1>0, <2>1, WorkerStepSound
    <2>3. \A v \in Workers \ {w} : Sound(v)'
      BY <1>0, <2>1, OthersUntouched DEF Sound
    <2>4. AllInSight'
      BY <1>0, <2>1, WorkerStepInSight
    <2> QED
      BY <2>2, <2>3, <2>4 DEF Unfailed
  <1>2. CASE Fetcher
    BY <1>0, <1>2, FetcherStepUnfailed DEF Fetcher
  <1>3. CASE ReaderThread
    <2>1. ReaderStep /\ UNCHANGED consumerVars
      BY <1>3 DEF ReaderThread
    <2>2. UNCHANGED <<pc, held, act, fpc, results, outcome>>
      BY <2>1
      DEF ReaderStep, ReadStop, ReadLine, ReaderReject, ReaderWrite, ReaderWriteHangs,
          ReaderComplete, ReaderPutCheck, ReaderEnqueue, ReaderGiveUp, ReaderClose,
          ReaderFinish, otherThanReader, workerVars, fetcherVars, channels, consumerVars
    <2>3. AllInSight'
      BY <1>0, <2>1, ReaderStepInSight
    <2> QED
      BY <1>0, <2>2, <2>3 DEF Unfailed, NoFailureSent, Sound
  <1>4. CASE Consumer
    <2>1. ConsumerStep /\ UNCHANGED readerVars
      BY <1>4 DEF Consumer
    <2>2. UNCHANGED <<pc, held, act>>
      BY <2>1
      DEF ConsumerStep, ConsumerGet, ConsumerClosed, SettleAck, SettleFails, SettleReject,
          SettleWrite, SettleWriteHangs, SettleComplete, SettleFatal, otherThanConsumer,
          workerVars
    <2>3. NoFailureSent' /\ AllInSight'
      BY <1>0, <2>1, ConsumerStepInSight
    <2> QED
      BY <1>0, <2>2, <2>3 DEF Unfailed, Sound
  <1>5. CASE MainStep \/ Signal \/ UNCHANGED vars
    BY <1>0, <1>5, MainStepStill
    DEF Unfailed, NoFailureSent, AllInSight, InSight, LeftBehind, Completed, ToComplete,
        Undecided, Sound
  <1> QED
    BY <1>1, <1>2, <1>3, <1>4, <1>5 DEF Next, Exited

\* A consumer that has ended misses no outcome of workers that were joined.
LEMMA NextResultsOver ==
    ASSUME IRun, ResultsOver, [Next]_vars
    PROVE  ResultsOver'
  <1>0. /\ WorkerTypeOK(Lines) /\ JoinTrusted
        /\ results.closed => mpc \in {"joinConsumer", "finish", "teardown", "exited"}
        /\ cpc = "done" => results.closed
    BY ITypeParts DEF IRun, IFlight, InAnyRun, ClosedBehind, OpenUntilJoined, SharedTypeOK,
           Monitoring
  <1>1. ASSUME NEW w \in Workers, Worker(w) PROVE ResultsOver'
    <2>1. pc[w] # "done" /\ UNCHANGED <<cpc, workersClean>>
      BY <1>1
      DEF Worker, consumerVars, mainVars, WorkerStep, LoadStep, LoopTop, GetLoad,
          GetNothing, AddRecord, RedoStep, DrainRedo, DrainMiss, DrainEnd, ProcessRedo,
          SettleRedo, MixedStep, PollHit, PollMiss, ReportStep, WorkerFatal, PutCheck,
          PutEnqueue, PutFull
    <2> QED
      BY <1>0, <2>1 DEF ResultsOver, JoinTrusted, WorkersDone, Monitoring
  <1>2. CASE Fetcher
    <2>1. FetcherStep(load_complete) /\ UNCHANGED <<cpc, workersClean>>
      BY <1>2 DEF Fetcher, consumerVars, mainVars
    <2>2. LinesOf(results.q)' \subseteq LinesOf(results.q)
      <3> DEFINE o == Outcome(0, "FATAL")
      <3>1. CASE UNCHANGED results
        BY <3>1 DEF LinesOf
      <3>2. CASE /\ results.q \in Seq(Outcomes(Lines)) /\ o \in Outcomes(Lines)
                 /\ results'.q = Append(results.q, o)
        <4>1. o.line = 0
          BY DEF Outcome
        <4> HIDE DEF o
        <4>2. \A i \in DOMAIN results'.q :
                 (i \in DOMAIN results.q /\ results'.q[i] = results.q[i]) \/ results'.q[i] = o
          BY <3>2, AppendElements
        <4> QED
          BY <4>1, <4>2 DEF LinesOf
      <3> QED
        BY <1>0, <2>1, <3>1, <3>2, FetcherPuts
    <2> QED
      BY <2>1, <2>2 DEF ResultsOver
  <1>3. CASE ReaderThread
    <2>1. UNCHANGED <<cpc, workersClean, results>>
      BY <1>3
      DEF ReaderThread, ReaderStep, ReadStop, ReadLine, ReaderReject, ReaderWrite,
          ReaderWriteHangs, ReaderComplete, ReaderPutCheck, ReaderEnqueue, ReaderGiveUp,
          ReaderClose, ReaderFinish, consumerVars, mainVars, channels
    <2> QED
      BY <2>1 DEF ResultsOver, LinesOf
  <1>4. CASE Consumer
    <2>1. /\ cpc' = "done" => results'.q = <<>>
          /\ UNCHANGED workersClean
      BY <1>4
      DEF Consumer, ConsumerStep, ConsumerGet, ConsumerClosed, ResultsEnd, HasItem,
          SettleAck, SettleFails, SettleReject, SettleWrite, SettleWriteHangs,
          SettleComplete, SettleFatal, mainVars, channels
    <2> QED
      BY <2>1 DEF ResultsOver, LinesOf
  <1>5. CASE MainStep \/ Signal \/ UNCHANGED vars
    <2>1. LinesOf(results.q)' = LinesOf(results.q) /\ cpc' = cpc
      BY <1>0, <1>5, MainStepStill DEF LinesOf
    <2>2. workersClean' = workersClean \/ mpc = "joinWorkers"
      BY <1>5
      DEF MainStep, MainGoto, TickDue, TickAsks, TickEnds, StopMonitoring, CloseWork,
          JoinWorkers, CloseJobs, JoinAux, CloseResults, JoinConsumer, Finish,
          FinishFails, Teardown, Signal, vars, mainVars
    <2> QED
      BY <1>0, <2>1, <2>2 DEF ResultsOver, Monitoring
  <1> QED
    BY <1>1, <1>2, <1>3, <1>4, <1>5 DEF Next, Exited

\* Before the first step there is no line to lose.
LEMMA InitStop == Init => IStop
  <1> SUFFICES ASSUME Init PROVE IStop
    OBVIOUS
  <1>1. IRun /\ LinesTraced /\ DecidedOnce
    BY InitRun, InitTraced, InitUndecided
  <1>2. work.q = <<>> /\ results.q = <<>> /\ outcome.kind # "FATAL" /\ cpc = "get" /\ rpc = "read"
    BY DEF Init, WorkerInit, NewChannel, ConsumerInit, NoOutcome, ReaderInit
  <1>3. InOrder
    BY <1>2 DEF InOrder, LinesOf, FedLine
  <1>4. \A l \in Lines : ~(l <= line_no)
    BY LinesAssumption DEF Init, ReaderInit, Lines
  <1>5. Unfailed
    BY <1>2, <1>4
    DEF Unfailed, NoFailureSent, AllInSight, Sound, Init, WorkerInit, FetcherInit
  <1> QED
    BY <1>1, <1>2, <1>3, <1>5 DEF IStop, ResultsOver

\* Every step keeps the invariant.
LEMMA NextStop == IStop /\ [Next]_vars => IStop'
  <1> SUFFICES ASSUME IStop, [Next]_vars PROVE IStop'
    OBVIOUS
  <1>1. IWatermark /\ WORKER_FATAL \in BOOLEAN
    BY ITypeParts DEF IStop, IRun, IFlight, IWatermark, SharedTypeOK, StatsTypeOK
  <1>2. IRun' /\ LinesTraced' /\ DecidedOnce'
    BY <1>1, NextRun, NextTraced, NextUndecided DEF IStop
  <1>3. InOrder' /\ ResultsOver'
    BY <1>1, NextInOrder, NextResultsOver DEF IStop
  <1>4. ~WORKER_FATAL' => Unfailed'
    BY <1>1, FatalStays, NextUnfailed DEF IStop
  <1> QED
    BY <1>2, <1>3, <1>4 DEF IStop

\* Of a run that stops without a failure, for a signal or at end of file, no
\* record the pool decided is ahead of the watermark, for every pool, file and
\* set of faults (put, _process_load, _settle, run).
THEOREM NothingRepeated == Spec => []StopRepeatsNothing
  <1>1. IStop => StopRepeatsNothing
    <2> SUFFICES ASSUME IStop, ~WORKER_FATAL, workersClean, cpc = "done",
                        NEW l \in Lines, file[l] = "record", ~Undecided(l), ~(l <= Watermark)
                 PROVE  FALSE
      BY DEF StopRepeatsNothing
    <2>0. /\ LoadStateTypeOK /\ ReaderTypeOK /\ WorkerTypeOK(Lines) /\ JoinTrusted
          /\ SkipLines < next /\ next \notin outOfOrder /\ Covered /\ ResultsOver
          /\ DecidedOnce /\ InOrder /\ Unfailed /\ Rejected
          /\ mpc \in {"joinConsumer", "finish", "teardown", "exited"}
      BY ITypeParts, TracedParts
      DEF IStop, IRun, IFlight, InAnyRun, ClosedBehind, OpenUntilJoined, OwnTypeOK,
          SharedTypeOK, Booked, Monitoring
    <2>1. /\ l \in Nat /\ next \in Nat /\ SkipLines \in Nat /\ next <= l /\ line_no \in Nat
          /\ l <= line_no
      BY <2>0, LinesAssumption
      DEF LoadStateTypeOK, ReaderTypeOK, Lines, Watermark, DecidedOnce
    <2>2. next \in Lines /\ next <= line_no /\ InSight(next)
      <3>1. next \in Lines
        BY <2>0, <2>1, LinesAssumption DEF Lines
      <3>2. next <= line_no
        BY <2>1
      <3> QED
        BY <2>0, <2>1, <3>1, <3>2 DEF Unfailed, AllInSight
    <2>3. ToComplete = {} /\ ~Completed(next)
      BY <2>0, <2>1 DEF ToComplete, Completed
    <2>4. l \in Taken
      BY <2>0, <2>1 DEF Taken, ForPool
    <2>5. next = line_no => next = l
      BY <2>1
    <2>6. next \notin inFlight
      <3>1. HeldLines = {} /\ LinesOf(results.q) = {}
        BY <2>0
        DEF JoinTrusted, WorkersDone, Unfailed, Sound, HeldLines, ResultsOver, Monitoring
      <3>2. next \notin LinesOf(work.q) \union FedLine
        BY <2>0, <2>1, <2>4 DEF InOrder
      <3> QED
        BY <2>0, <3>1, <3>2 DEF Covered, Dispatched
    <2> QED
      BY <2>2, <2>3, <2>5, <2>6 DEF InSight, LeftBehind
  <1> QED
    BY <1>1, InitStop, NextStop, PTL DEF Spec
=============================================================================
