---------------------------- MODULE WorkerProofs ----------------------------
(***************************************************************************)
(* Type correctness of the worker and fetcher steps, for any set of lines, *)
(* and what they do to the count of redo records; FileLoaderProofs and     *)
(* PureRedoerProofs build on it.                                           *)
(***************************************************************************)
EXTENDS RedoFetcher, FiniteSetTheorems, TLAPS

-----------------------------------------------------------------------------
(* Channels, of any item *)

\* A new channel is a channel, whatever its items will be.
LEMMA NewChannelType == ASSUME NEW Item PROVE NewChannel \in Channel(Item)
  <1>1. <<>> \in Seq(Item)
    OBVIOUS
  <1> QED
    BY <1>1 DEF Channel, NewChannel

\* Closing a channel keeps its items.
LEMMA ClosedType ==
    ASSUME NEW Item, NEW ch \in Channel(Item)
    PROVE  Closed(ch) \in Channel(Item) /\ Closed(ch).q = ch.q
  BY DEF Channel, Closed

\* Enqueuing an item appends it and keeps the closed flag.
LEMMA EnqueuedType ==
    ASSUME NEW Item, NEW ch \in Channel(Item), NEW x \in Item
    PROVE  /\ Enqueued(ch, x) \in Channel(Item)
           /\ Enqueued(ch, x).q = Append(ch.q, x)
           /\ Enqueued(ch, x).closed = ch.closed
  <1>1. Append(ch.q, x) \in Seq(Item)
    BY DEF Channel
  <1> QED
    BY <1>1 DEF Channel, Enqueued

\* Dequeuing from a channel that has an item yields one and leaves the rest.
LEMMA DequeuedType ==
    ASSUME NEW Item, NEW ch \in Channel(Item), HasItem(ch)
    PROVE  /\ Head(ch.q) \in Item
           /\ Dequeued(ch) \in Channel(Item)
           /\ Dequeued(ch).q = Tail(ch.q)
           /\ Dequeued(ch).closed = ch.closed
  <1>1. ch.q \in Seq(Item) /\ ch.q # <<>>
    BY DEF Channel, HasItem
  <1>2. Head(ch.q) \in Item /\ Tail(ch.q) \in Seq(Item)
    BY <1>1
  <1> QED
    BY <1>1, <1>2 DEF Channel, Dequeued

-----------------------------------------------------------------------------
(* Types *)

LoadItems(Ls) == [side : {"load"}, line : Ls]
Outcomes(Ls) == [line : Ls \union {0}, kind : {"ACK", "REJECT", "FATAL"}]

SharedTypeOK(Ls) == StatsTypeOK /\ EngineTypeOK(Ls) /\ WorkerTypeOK(Ls)

-----------------------------------------------------------------------------
(* What a worker does to its own variables *)

\* A label a worker goes to is one of its labels.
LEMMA GotoType ==
    ASSUME NEW Ls, NEW w \in Workers, WorkerTypeOK(Ls),
           NEW label \in {"top", "get", "probe1", "probe2", "call", "fatal",
                          "put", "enq", "settle", "done"},
           Goto(w, label)
    PROVE  pc' \in [Workers -> {"top", "get", "probe1", "probe2", "call", "fatal",
                                "put", "enq", "settle", "done"}]
  BY DEF WorkerTypeOK, Goto

\* A worker that goes around its loop keeps the types.
LEMMA BackToTopType ==
    ASSUME NEW Ls, NEW w \in Workers, WorkerTypeOK(Ls), BackToTop(w),
           UNCHANGED <<channels, open>>
    PROVE  WorkerTypeOK(Ls)'
  BY DEF WorkerTypeOK, BackToTop, Become, Goto, channels

\* What a worker reports is an outcome of a line of the file, or line 0.
LEMMA ReportType ==
    ASSUME NEW Ls, NEW w \in Workers, WorkerTypeOK(Ls)
    PROVE  Report(w) \in Outcomes(Ls)
  BY DEF WorkerTypeOK, Report, Outcome, Outcomes, RedoJob, Nothing

\* Returning from results.put keeps the types of the worker's variables.
LEMMA AfterPutType ==
    ASSUME NEW Ls, NEW w \in Workers, WorkerTypeOK(Ls), AfterPut(w)
    PROVE  /\ pc' \in [Workers -> {"top", "get", "probe1", "probe2", "call", "fatal",
                                   "put", "enq", "settle", "done"}]
           /\ held' \in [Workers -> LoadItems(Ls) \union {RedoJob, Nothing}]
           /\ act' \in [Workers -> {"none", "ACK", "REJECT", "FATAL", "DIED"}]
  BY DEF WorkerTypeOK, LoadItems, AfterPut, BackToTop, Become, Goto

\* Taking an item from either channel.
LEMMA TakeType ==
    ASSUME NEW Ls, NEW w \in Workers, WorkerTypeOK(Ls),
           TakeLoad(w) \/ TakeRedo(w), UNCHANGED <<results, act, open>>
    PROVE  WorkerTypeOK(Ls)'
  <1>1. CASE TakeLoad(w)
    <2>1. work \in Channel(LoadItems(Ls)) /\ HasItem(work)
      BY <1>1 DEF WorkerTypeOK, TakeLoad, LoadItems
    <2>2. /\ Head(work.q) \in LoadItems(Ls)
          /\ Dequeued(work) \in Channel(LoadItems(Ls))
      BY <2>1, DequeuedType
    <2> QED
      BY <1>1, <2>2 DEF WorkerTypeOK, TakeLoad, TakeFrom, Goto, LoadItems
  <1>2. CASE TakeRedo(w)
    <2>1. jobs \in Channel({RedoJob}) /\ HasItem(jobs)
      BY <1>2 DEF WorkerTypeOK, TakeRedo
    <2>2. Head(jobs.q) \in {RedoJob} /\ Dequeued(jobs) \in Channel({RedoJob})
      BY <2>1, DequeuedType
    <2> QED
      BY <1>2, <2>2 DEF WorkerTypeOK, TakeRedo, TakeFrom, Goto
  <1> QED
    BY <1>1, <1>2

-----------------------------------------------------------------------------
(* The engine and the counters *)

\* A cascade stays within the redo records the engine may create.
LEMMA CascadeType ==
    ASSUME NEW Ls, EngineTypeOK(Ls), Cascade
    PROVE  /\ redoQueue' \in 0..MaxRedo
           /\ redoBudget' \in 0..MaxRedo
           /\ redoQueue' + redoBudget' <= MaxRedo
  BY MaxRedoAssumption DEF EngineTypeOK, Cascade

\* The shared types hold as long as the variables do not change.
LEMMA SharedUnchanged ==
    ASSUME NEW Ls
    PROVE  /\ StatsTypeOK /\ UNCHANGED statsVars => StatsTypeOK'
           /\ EngineTypeOK(Ls) /\ UNCHANGED engineVars => EngineTypeOK(Ls)'
           /\ WorkerTypeOK(Ls) /\ UNCHANGED <<channels, workerVars>> => WorkerTypeOK(Ls)'
  BY DEF StatsTypeOK, statsVars, flags, addCounters, redoCounters,
         EngineTypeOK, engineVars, WorkerTypeOK, channels, workerVars

-----------------------------------------------------------------------------
(* The steps of a worker *)

\* A step of the load side keeps the shared types.
LEMMA LoadStepType ==
    ASSUME NEW Ls, NEW w \in Workers, SharedTypeOK(Ls), LoadStep(w)
    PROVE  SharedTypeOK(Ls)'
  <1> USE DEF SharedTypeOK
  <1>1. CASE LoopTop(w) \/ GetNothing(w)
    <2>1. /\ UNCHANGED <<channels, held, act, open, statsVars, engineVars>>
          /\ pc' \in [Workers -> {"top", "get", "probe1", "probe2", "call", "fatal",
                                  "put", "enq", "settle", "done"}]
      BY <1>1 DEF LoopTop, GetNothing, Goto, WorkerTypeOK
    <2> QED
      BY <2>1, SharedUnchanged DEF WorkerTypeOK, channels
  <1>2. CASE GetLoad(w)
    BY <1>2, TakeType, SharedUnchanged DEF GetLoad
  <1>3. CASE AddRecord(w)
    <2>1. held[w].line \in Ls
      BY <1>3 DEF AddRecord, WorkerTypeOK, RedoJob, Nothing
    <2>2. EngineTypeOK(Ls)'
      <3>1. CASE EngineAdd(held[w].line)
        BY <2>1, <3>1, CascadeType DEF EngineAdd, EngineTypeOK
      <3>2. CASE UNCHANGED engineVars
        BY <3>2, SharedUnchanged
      <3> QED
        BY <1>3, <3>1, <3>2 DEF AddRecord
    <2>3. WorkerTypeOK(Ls)'
      BY <1>3 DEF AddRecord, Become, Goto, WorkerTypeOK, channels
    <2> QED
      BY <1>3, <2>2, <2>3, SharedUnchanged DEF AddRecord
  <1> QED
    BY <1>1, <1>2, <1>3 DEF LoadStep

\* A step of the redo side keeps the shared types.
LEMMA RedoStepType ==
    ASSUME NEW Ls, NEW w \in Workers, SharedTypeOK(Ls), RedoStep(w)
    PROVE  SharedTypeOK(Ls)'
  <1> USE DEF SharedTypeOK
  <1>1. CASE DrainRedo(w)
    BY <1>1, TakeType, SharedUnchanged DEF DrainRedo
  <1>2. CASE DrainMiss(w) \/ DrainEnd(w)
    <2>1. /\ UNCHANGED <<channels, held, act, open, statsVars, engineVars>>
          /\ Goto(w, "done") \/ Goto(w, "probe2")
      BY <1>2 DEF DrainMiss, DrainEnd
    <2> QED
      BY <2>1, SharedUnchanged DEF Goto, WorkerTypeOK, channels
  <1>3. CASE ProcessRedo(w)
    <2>1. EngineTypeOK(Ls)'
      <3>1. CASE EngineRedo
        BY <3>1, CascadeType DEF EngineRedo, EngineTypeOK
      <3>2. CASE UNCHANGED engineVars
        BY <3>2, SharedUnchanged
      <3> QED
        BY <1>3, <3>1, <3>2 DEF ProcessRedo
    <2>2. WorkerTypeOK(Ls)'
      BY <1>3 DEF ProcessRedo, Become, Goto, WorkerTypeOK, channels
    <2>3. StatsTypeOK'
      BY <1>3 DEF ProcessRedo, StatsTypeOK, flags, addCounters, redoCounters
    <2> QED
      BY <2>1, <2>2, <2>3
  <1>4. CASE SettleRedo(w)
    <2>1. WorkerTypeOK(Ls)'
      <3>1. CASE act[w] = "FATAL"
        BY <1>4, <3>1 DEF SettleRedo, Become, Goto, WorkerTypeOK, channels
      <3>2. CASE act[w] # "FATAL"
        BY <1>4, <3>2, BackToTopType DEF SettleRedo
      <3> QED
        BY <3>1, <3>2
    <2>2. StatsTypeOK'
      BY <1>4 DEF SettleRedo, Finished, StatsTypeOK, flags, addCounters, redoCounters
    <2> QED
      BY <1>4, <2>1, <2>2, SharedUnchanged DEF SettleRedo
  <1> QED
    BY <1>1, <1>2, <1>3, <1>4 DEF RedoStep

\* A poll of the mixed loop keeps the shared types.
LEMMA MixedStepType ==
    ASSUME NEW Ls, NEW w \in Workers, SharedTypeOK(Ls), MixedStep(w)
    PROVE  SharedTypeOK(Ls)'
  <1> USE DEF SharedTypeOK
  <1>1. CASE PollHit(w)
    BY <1>1, TakeType, SharedUnchanged DEF PollHit
  <1>2. CASE PollMiss(w)
    <2>1. open' \in [Workers -> SUBSET {"load", "redo"}]
      BY <1>2 DEF PollMiss, WorkerTypeOK
    <2>2. Goto(w, "probe2") \/ Goto(w, "done") \/ Goto(w, "top")
      BY <1>2 DEF PollMiss
    <2>3. UNCHANGED <<channels, held, act, statsVars, engineVars>>
      BY <1>2 DEF PollMiss
    <2> QED
      BY <2>1, <2>2, <2>3, SharedUnchanged DEF Goto, WorkerTypeOK, channels
  <1> QED
    BY <1>1, <1>2 DEF MixedStep

\* A step towards a reported outcome keeps the shared types.
LEMMA ReportStepType ==
    ASSUME NEW Ls, NEW w \in Workers, SharedTypeOK(Ls), ReportStep(w)
    PROVE  SharedTypeOK(Ls)'
  <1> USE DEF SharedTypeOK
  <1>1. CASE WorkerFatal(w)
    <2>1. Goto(w, "put") \/ Goto(w, "done") \/ Goto(w, "settle")
      BY <1>1 DEF WorkerFatal
    <2>2. WorkerTypeOK(Ls)'
      BY <1>1, <2>1 DEF WorkerFatal, Goto, WorkerTypeOK, channels
    <2>3. StatsTypeOK'
      BY <1>1 DEF WorkerFatal, MarkFatal, StatsTypeOK, addCounters, redoCounters
    <2> QED
      BY <1>1, <2>2, <2>3, SharedUnchanged DEF WorkerFatal
  <1>2. CASE PutCheck(w) \/ PutFull(w)
    <2>1. /\ AfterPut(w) \/ (Goto(w, "enq") /\ UNCHANGED <<held, act>>)
          /\ UNCHANGED <<channels, open, statsVars, engineVars>>
      BY <1>2 DEF PutCheck, PutFull
    <2>2. WorkerTypeOK(Ls)'
      <3>1. CASE AfterPut(w)
        BY <2>1, <3>1, AfterPutType DEF WorkerTypeOK, channels, LoadItems
      <3>2. CASE Goto(w, "enq") /\ UNCHANGED <<held, act>>
        BY <2>1, <3>2 DEF WorkerTypeOK, channels, Goto
      <3> QED
        BY <2>1, <3>1, <3>2
    <2> QED
      BY <2>1, <2>2, SharedUnchanged
  <1>3. CASE PutEnqueue(w)
    <2>1. results' \in Channel(Outcomes(Ls))
      <3>1. results \in Channel(Outcomes(Ls)) /\ Report(w) \in Outcomes(Ls)
        BY ReportType DEF WorkerTypeOK, Outcomes
      <3> QED
        BY <1>3, <3>1, EnqueuedType DEF PutEnqueue
    <2>2. WorkerTypeOK(Ls)'
      BY <1>3, <2>1, AfterPutType DEF PutEnqueue, WorkerTypeOK, Outcomes, LoadItems
    <2> QED
      BY <1>3, <2>2, SharedUnchanged DEF PutEnqueue
  <1> QED
    BY <1>1, <1>2, <1>3 DEF ReportStep

\* A worker step keeps the types of all it may change.
LEMMA WorkerStepType ==
    ASSUME NEW Ls, NEW w \in Workers, SharedTypeOK(Ls), WorkerStep(w)
    PROVE  SharedTypeOK(Ls)'
  BY LoadStepType, RedoStepType, MixedStepType, ReportStepType DEF WorkerStep

\* A worker that has ended stays ended, whoever moves.
LEMMA DoneStaysDone ==
    ASSUME NEW Ls, NEW w \in Workers, NEW v \in Workers, WorkerTypeOK(Ls),
           WorkerStep(w), pc[v] = "done"
    PROVE  pc'[v] = "done"
  <1>1. pc[w] # "done"
    BY DEF WorkerStep, LoadStep, LoopTop, GetLoad, GetNothing, AddRecord, RedoStep,
           DrainRedo, DrainMiss, DrainEnd, ProcessRedo, SettleRedo, MixedStep, PollHit,
           PollMiss, ReportStep, WorkerFatal, PutCheck, PutEnqueue, PutFull
  <1>2. \E label : pc' = [pc EXCEPT ![w] = label]
    <2> USE DEF Goto, Become
    <2>1. CASE LoadStep(w)
      BY <2>1 DEF LoadStep, LoopTop, GetLoad, GetNothing, AddRecord, TakeLoad, TakeFrom
    <2>2. CASE RedoStep(w)
      BY <2>2 DEF RedoStep, DrainRedo, DrainMiss, DrainEnd, ProcessRedo, SettleRedo,
                  TakeRedo, TakeFrom, BackToTop
    <2>3. CASE MixedStep(w)
      BY <2>3 DEF MixedStep, PollHit, PollMiss, TakeLoad, TakeRedo, TakeFrom
    <2>4. CASE ReportStep(w)
      BY <2>4 DEF ReportStep, WorkerFatal, PutCheck, PutEnqueue, PutFull, AfterPut,
                  BackToTop
    <2> QED
      BY <2>1, <2>2, <2>3, <2>4 DEF WorkerStep
  <1> QED
    BY <1>1, <1>2 DEF WorkerTypeOK

-----------------------------------------------------------------------------
(* The steps of the fetcher *)

\* The steps that change nothing but the fetcher's own variables.
LEMMA FetcherOwnType ==
    ASSUME NEW Ls, NEW complete \in BOOLEAN, SharedTypeOK(Ls), FetcherTypeOK,
           \/ FetchTop \/ FetchEmpty \/ FetchError \/ FetchQuiet
           \/ FetchDrained(complete) \/ FetchPutCheck
    PROVE  SharedTypeOK(Ls)' /\ FetcherTypeOK'
  <1>1. UNCHANGED <<channels, workerVars, statsVars, engineVars>>
    BY DEF FetchTop, FetchEmpty, FetchError, FetchQuiet, FetchDrained, FetchPutCheck
  <1>2. FetcherTypeOK'
    BY DEF FetchTop, FetchEmpty, FetchError, FetchQuiet, FetchDrained, FetchPutCheck,
           FetcherTypeOK
  <1> QED
    BY <1>1, <1>2, SharedUnchanged DEF SharedTypeOK

\* A fetcher step keeps the types of all it may change.
LEMMA FetcherStepType ==
    ASSUME NEW Ls, NEW complete \in BOOLEAN, SharedTypeOK(Ls), FetcherTypeOK,
           FetcherStep(complete)
    PROVE  SharedTypeOK(Ls)' /\ FetcherTypeOK'
  <1> USE DEF SharedTypeOK
  <1>1. CASE \/ FetchTop \/ FetchEmpty \/ FetchError \/ FetchQuiet
             \/ FetchDrained(complete) \/ FetchPutCheck
    BY <1>1, FetcherOwnType
  <1>2. CASE FetchRecord
    <2>1. StatsTypeOK'
      BY <1>2 DEF FetchRecord, StatsTypeOK, flags, addCounters, redoCounters
    <2>2. EngineTypeOK(Ls)'
      BY <1>2, MaxRedoAssumption DEF FetchRecord, EngineGetRedo, EngineTypeOK
    <2> QED
      BY <1>2, <2>1, <2>2, SharedUnchanged DEF FetchRecord, FetcherTypeOK
  <1>3. CASE FetchGiveUp
    <2>1. StatsTypeOK'
      BY <1>3 DEF FetchGiveUp, Forget, StatsTypeOK, flags, addCounters, redoCounters
    <2> QED
      BY <1>3, <2>1, SharedUnchanged DEF FetchGiveUp, FetcherTypeOK
  <1>4. CASE FetchEnqueue \/ FetchClose
    <2>1. jobs \in Channel({RedoJob})
      BY DEF WorkerTypeOK
    <2>2. jobs' \in Channel({RedoJob})
      BY <1>4, <2>1, EnqueuedType, ClosedType DEF FetchEnqueue, FetchClose
    <2>3. WorkerTypeOK(Ls)'
      BY <1>4, <2>2 DEF FetchEnqueue, FetchClose, WorkerTypeOK, workerVars
    <2> QED
      BY <1>4, <2>3, SharedUnchanged DEF FetchEnqueue, FetchClose, FetcherTypeOK
  <1>5. CASE FetchFatal
    <2>1. StatsTypeOK'
      BY <1>5 DEF FetchFatal, MarkFatal, StatsTypeOK, addCounters, redoCounters
    <2> QED
      BY <1>5, <2>1, SharedUnchanged DEF FetchFatal, AfterFatal, FetcherTypeOK
  <1>6. CASE FetchReport
    <2>1. results \in Channel(Outcomes(Ls)) /\ Outcome(0, "FATAL") \in Outcomes(Ls)
      BY DEF WorkerTypeOK, Outcomes, Outcome
    <2>2. results' \in Channel(Outcomes(Ls))
      BY <1>6, <2>1, EnqueuedType DEF FetchReport
    <2>3. WorkerTypeOK(Ls)'
      BY <1>6, <2>2 DEF FetchReport, WorkerTypeOK, workerVars, Outcomes
    <2> QED
      BY <1>6, <2>3, SharedUnchanged DEF FetchReport, FetcherTypeOK
  <1> QED
    BY <1>1, <1>2, <1>3, <1>4, <1>5, <1>6 DEF FetcherStep
-----------------------------------------------------------------------------
(* The count of redo records *)

\* Where a worker can be with a redo record in hand.
RedoInHand ==
    \A w \in Workers :
        /\ pc[w] \in {"top", "get", "probe1", "probe2"} => held[w].side # "redo"
        /\ pc[w] = "settle" => held[w].side = "redo"
        /\ pc[w] = "fatal" => held[w].side # "none"

RedoHolders == {w \in Workers : held[w].side = "redo"}

\* Without a load side no worker ever holds a line.
RedoAlone(Ls) == HasLoad \/ Ls = {}

\* A step of a worker leaves the record it may have alone.
KeepsRedo ==
    UNCHANGED <<REDO_OUTSTANDING, jobs>> /\ RedoHolders' = RedoHolders

\* It takes one.
TakesRedo(w) ==
    /\ UNCHANGED REDO_OUTSTANDING
    /\ HasItem(jobs) /\ jobs' = Dequeued(jobs)
    /\ w \notin RedoHolders /\ RedoHolders' = RedoHolders \union {w}

\* It is done with it.
SettlesRedo(w) ==
    /\ REDO_OUTSTANDING' = REDO_OUTSTANDING - 1
    /\ UNCHANGED jobs
    /\ w \in RedoHolders /\ RedoHolders' = RedoHolders \ {w}

\* What taking an item does to the records in hand.
LEMMA TakeCounts ==
    ASSUME NEW Ls, NEW w \in Workers, WorkerTypeOK(Ls), RedoInHand,
           TakeLoad(w) \/ TakeRedo(w), UNCHANGED REDO_OUTSTANDING,
           held[w].side # "redo"
    PROVE  RedoInHand' /\ (KeepsRedo \/ TakesRedo(w))
  <1>1. CASE TakeLoad(w)
    <2>1. work \in Channel(LoadItems(Ls)) /\ HasItem(work)
      BY <1>1 DEF WorkerTypeOK, TakeLoad, LoadItems
    <2>2. Head(work.q) \in LoadItems(Ls)
      BY <2>1, DequeuedType
    <2>3. Head(work.q).side = "load"
      BY <2>2 DEF LoadItems
    <2> QED
      BY <1>1, <2>3
      DEF WorkerTypeOK, TakeLoad, TakeFrom, Goto, RedoInHand, KeepsRedo, RedoHolders
  <1>2. CASE TakeRedo(w)
    <2>1. jobs \in Channel({RedoJob}) /\ HasItem(jobs)
      BY <1>2 DEF WorkerTypeOK, TakeRedo
    <2>2. Head(jobs.q).side = "redo"
      BY <2>1, DequeuedType DEF RedoJob
    <2> QED
      BY <1>2, <2>2
      DEF WorkerTypeOK, TakeRedo, TakeFrom, Goto, RedoInHand, TakesRedo, RedoHolders
  <1> QED
    BY <1>1, <1>2

\* What returning from results.put does to them.
LEMMA AfterPutCounts ==
    ASSUME NEW Ls, NEW w \in Workers, WorkerTypeOK(Ls), RedoInHand, AfterPut(w),
           UNCHANGED <<REDO_OUTSTANDING, jobs>>
    PROVE  RedoInHand' /\ KeepsRedo
  BY DEF WorkerTypeOK, AfterPut, BackToTop, Become, Goto, RedoInHand, KeepsRedo,
         RedoHolders, Nothing, RedoJob

\* Every step of a worker keeps, takes or settles a redo record.
LEMMA WorkerStepCounts ==
    ASSUME NEW Ls, NEW w \in Workers, WorkerTypeOK(Ls), RedoAlone(Ls), RedoInHand,
           WorkerStep(w)
    PROVE  RedoInHand' /\ (KeepsRedo \/ TakesRedo(w) \/ SettlesRedo(w))
  <1>1. CASE LoopTop(w) \/ GetNothing(w) \/ AddRecord(w) \/ DrainMiss(w) \/ DrainEnd(w)
             \/ ProcessRedo(w) \/ PollMiss(w)
    <2>1. KeepsRedo
      BY <1>1 DEF LoopTop, GetNothing, AddRecord, DrainMiss, DrainEnd, ProcessRedo,
                  PollMiss, KeepsRedo, RedoHolders, channels, statsVars
    <2>2. RedoInHand'
      BY <1>1 DEF LoopTop, GetNothing, AddRecord, DrainMiss, DrainEnd, ProcessRedo,
                  PollMiss, RedoInHand, WorkerTypeOK, Goto, Become
    <2> QED
      BY <2>1, <2>2
  <1>2. CASE GetLoad(w) \/ DrainRedo(w) \/ PollHit(w)
    <2>1. /\ TakeLoad(w) \/ TakeRedo(w)
          /\ UNCHANGED REDO_OUTSTANDING
          /\ pc[w] \in {"get", "top", "probe1", "probe2"}
      BY <1>2 DEF GetLoad, DrainRedo, PollHit, statsVars
    <2> QED
      BY <2>1, TakeCounts DEF RedoInHand
  <1>3. CASE SettleRedo(w)
    <2>1. SettlesRedo(w)
      BY <1>3 DEF SettleRedo, SettlesRedo, Finished, RedoInHand, RedoHolders, BackToTop,
                  Become, Goto, WorkerTypeOK, Nothing, channels
    <2>2. RedoInHand'
      BY <1>3 DEF SettleRedo, RedoInHand, BackToTop, Become, Goto, WorkerTypeOK, Nothing
    <2> QED
      BY <2>1, <2>2
  <1>4. CASE WorkerFatal(w)
    <2>1. KeepsRedo
      BY <1>4 DEF WorkerFatal, KeepsRedo, RedoHolders, channels
    <2>2. ~HasLoad => held[w].side # "load"
      BY DEF WorkerTypeOK, RedoAlone, RedoJob, Nothing
    <2>3. RedoInHand'
      BY <1>4, <2>2 DEF WorkerFatal, RedoInHand, Goto, WorkerTypeOK, Nothing, RedoJob
    <2> QED
      BY <2>1, <2>3
  <1>5. CASE PutCheck(w) \/ PutEnqueue(w) \/ PutFull(w)
    <2>1. UNCHANGED <<REDO_OUTSTANDING, jobs>>
      BY <1>5 DEF PutCheck, PutEnqueue, PutFull, channels, statsVars
    <2>2. CASE AfterPut(w)
      BY <2>1, <2>2, AfterPutCounts
    <2>3. CASE Goto(w, "enq") /\ UNCHANGED <<held, act>>
      BY <2>1, <2>3 DEF Goto, RedoInHand, KeepsRedo, RedoHolders, WorkerTypeOK
    <2> QED
      BY <1>5, <2>2, <2>3 DEF PutCheck, PutEnqueue, PutFull
  <1> QED
    BY <1>1, <1>2, <1>3, <1>4, <1>5
    DEF WorkerStep, LoadStep, RedoStep, MixedStep, ReportStep

\* So its steps keep the count exact.
LEMMA WorkerStepExact ==
    ASSUME NEW Ls, NEW w \in Workers, SharedTypeOK(Ls), RedoAlone(Ls), RedoInHand,
           OutstandingExact, WorkerStep(w), UNCHANGED fpc
    PROVE  RedoInHand' /\ OutstandingExact'
  <1> DEFINE hand == IF fpc \in {"put", "enq"} THEN 1 ELSE 0
  <1>0. RedoInHand' /\ (KeepsRedo \/ TakesRedo(w) \/ SettlesRedo(w))
    BY WorkerStepCounts DEF SharedTypeOK
  <1>1. /\ REDO_OUTSTANDING = Len(jobs.q) + Cardinality(RedoHolders) + hand
        /\ hand' = hand /\ hand \in Nat
    BY DEF OutstandingExact, RedoHolders
  <1>2. IsFiniteSet(RedoHolders) /\ Cardinality(RedoHolders) \in Nat
    <2>1. RedoHolders \in SUBSET Workers
      BY DEF RedoHolders
    <2> QED
      BY <2>1, WorkersAssumption, FS_Subset, FS_CardinalityType
  <1>3. jobs \in Channel({RedoJob}) /\ Len(jobs.q) \in Nat
    BY DEF SharedTypeOK, WorkerTypeOK, Channel
  <1>4. REDO_OUTSTANDING' = Len(jobs'.q) + Cardinality(RedoHolders') + hand
    <2>1. CASE KeepsRedo
      BY <1>1, <2>1 DEF KeepsRedo
    <2>2. CASE TakesRedo(w)
      <3>1. jobs'.q = Tail(jobs.q) /\ jobs.q \in Seq({RedoJob}) /\ jobs.q # <<>>
        BY <1>3, <2>2, DequeuedType DEF TakesRedo, HasItem, Channel
      <3>2. Len(jobs'.q) = Len(jobs.q) - 1
        BY <3>1
      <3>3. Cardinality(RedoHolders') = Cardinality(RedoHolders) + 1
        BY <1>2, <2>2, FS_AddElement DEF TakesRedo
      <3> QED
        BY <1>1, <1>2, <1>3, <2>2, <3>2, <3>3 DEF TakesRedo
    <2>3. CASE SettlesRedo(w)
      <3>1. Cardinality(RedoHolders') = Cardinality(RedoHolders) - 1
        BY <1>2, <2>3, FS_RemoveElement DEF SettlesRedo
      <3> QED
        BY <1>1, <1>2, <1>3, <2>3, <3>1 DEF SettlesRedo
    <2> QED
      BY <1>0, <2>1, <2>2, <2>3
  <1> QED
    BY <1>0, <1>1, <1>4 DEF OutstandingExact, RedoHolders

\* And so do the fetcher's.
LEMMA FetcherStepExact ==
    ASSUME NEW Ls, NEW complete \in BOOLEAN, SharedTypeOK(Ls), FetcherTypeOK,
           RedoInHand, OutstandingExact, FetcherStep(complete)
    PROVE  RedoInHand' /\ OutstandingExact'
  <1>1. UNCHANGED <<pc, held>>
    BY DEF FetcherStep, FetchTop, FetchRecord, FetchEmpty, FetchError, FetchQuiet,
           FetchDrained, FetchGiveUp, FetchPutCheck, FetchEnqueue, FetchFatal, FetchReport,
           FetchClose, workerVars
  <1>2. RedoHolders' = RedoHolders /\ RedoInHand'
    BY <1>1 DEF RedoHolders, RedoInHand
  <1>3. /\ jobs \in Channel({RedoJob}) /\ Len(jobs.q) \in Nat
        /\ Cardinality(RedoHolders) \in Nat
    <2>1. RedoHolders \in SUBSET Workers
      BY DEF RedoHolders
    <2> QED
      BY <2>1, WorkersAssumption, FS_Subset, FS_CardinalityType
      DEF SharedTypeOK, WorkerTypeOK, Channel
  <1> DEFINE hand == IF fpc \in {"put", "enq"} THEN 1 ELSE 0
  <1>4. REDO_OUTSTANDING = Len(jobs.q) + Cardinality(RedoHolders) + hand
    BY DEF OutstandingExact, RedoHolders
  <1>5. REDO_OUTSTANDING' = Len(jobs'.q) + Cardinality(RedoHolders) + hand'
    <2>1. CASE \/ FetchTop \/ FetchEmpty \/ FetchError \/ FetchQuiet \/ FetchDrained(complete)
               \/ FetchPutCheck \/ FetchFatal \/ FetchReport
      BY <1>4, <2>1
      DEF FetchTop, FetchEmpty, FetchError, FetchQuiet, FetchDrained, FetchPutCheck,
          FetchFatal, AfterFatal, FetchReport, channels, statsVars
    <2>2. CASE FetchRecord
      BY <1>3, <1>4, <2>2 DEF FetchRecord, channels
    <2>3. CASE FetchGiveUp
      BY <1>3, <1>4, <2>3 DEF FetchGiveUp, Forget, channels
    <2>4. CASE FetchEnqueue
      <3>1. jobs'.q = Append(jobs.q, RedoJob) /\ jobs.q \in Seq({RedoJob})
        BY <1>3, <2>4, EnqueuedType DEF FetchEnqueue, Channel
      <3>2. Len(jobs'.q) = Len(jobs.q) + 1
        BY <3>1
      <3> QED
        BY <1>3, <1>4, <2>4, <3>2 DEF FetchEnqueue, statsVars
    <2>5. CASE FetchClose
      BY <1>3, <1>4, <2>5, ClosedType DEF FetchClose, statsVars
    <2> QED
      BY <2>1, <2>2, <2>3, <2>4, <2>5 DEF FetcherStep
  <1> QED
    BY <1>2, <1>5 DEF OutstandingExact, RedoHolders

\* Other threads do not touch what is counted, except to close the channel.
LEMMA OthersExact ==
    ASSUME RedoInHand, OutstandingExact, UNCHANGED <<pc, held, fpc, REDO_OUTSTANDING>>,
           jobs'.q = jobs.q
    PROVE  RedoInHand' /\ OutstandingExact'
  BY DEF RedoInHand, OutstandingExact

\* At the start nothing is fetched.
LEMMA InitExact ==
    ASSUME StatsInit, WorkerInit, FetcherInit
    PROVE  RedoInHand /\ OutstandingExact
  <1>1. RedoInHand
    BY DEF WorkerInit, RedoInHand, Nothing
  <1>2. {w \in Workers : held[w].side = "redo"} = {}
    BY DEF WorkerInit, Nothing
  <1>3. REDO_OUTSTANDING = 0 /\ Len(jobs.q) = 0 /\ fpc \notin {"put", "enq"}
    BY DEF StatsInit, WorkerInit, FetcherInit, NewChannel
  <1>4. Cardinality({w \in Workers : held[w].side = "redo"}) = 0
    BY <1>2, FS_EmptySet
  <1> QED
    BY <1>1, <1>3, <1>4 DEF OutstandingExact
=============================================================================
