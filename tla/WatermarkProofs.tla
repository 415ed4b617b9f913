-------------------------- MODULE WatermarkProofs ---------------------------
(***************************************************************************)
(* The lines of a file load, for every pool, file and set of faults: the   *)
(* watermark never passes one that is not settled,                         *)
(* in_flight is exactly those on their way, and a fetcher that returns     *)
(* because redo is drained leaves none behind.                             *)
(***************************************************************************)
EXTENDS FileLoaderProofs, FunctionTheorems

-----------------------------------------------------------------------------
(* Lines in a queue *)

\* What Append adds is the only new element.
LEMMA AppendElements ==
    ASSUME NEW S, NEW q \in Seq(S), NEW x \in S
    PROVE  /\ DOMAIN Append(q, x) = 1..(Len(q) + 1)
           /\ DOMAIN q = 1..Len(q)
           /\ Append(q, x)[Len(q) + 1] = x
           /\ \A i \in DOMAIN q : Append(q, x)[i] = q[i]
  OBVIOUS

\* What Tail leaves, one place further to the front.
LEMMA TailElements ==
    ASSUME NEW S, NEW q \in Seq(S), q # <<>>
    PROVE  /\ DOMAIN Tail(q) = 1..(Len(q) - 1)
           /\ DOMAIN q = 1..Len(q)
           /\ Len(q) \in Nat \ {0}
           /\ Head(q) = q[1]
           /\ \A i \in DOMAIN Tail(q) : Tail(q)[i] = q[i + 1]
  OBVIOUS

\* A line that enters a queue it is not in is there once.
LEMMA LinesAppended ==
    ASSUME NEW S, NEW q \in Seq(S), NEW x \in S, Distinct(q), x.line \notin LinesOf(q)
    PROVE  /\ LinesOf(Append(q, x)) = LinesOf(q) \union ({x.line} \ {0})
           /\ Distinct(Append(q, x))
  <1>1. /\ DOMAIN Append(q, x) = 1..(Len(q) + 1)
        /\ DOMAIN q = 1..Len(q) /\ Len(q) \in Nat
        /\ Append(q, x)[Len(q) + 1] = x
        /\ \A i \in DOMAIN q : Append(q, x)[i] = q[i]
    BY AppendElements
  <1>2. \A i \in DOMAIN Append(q, x) : i \in DOMAIN q \/ i = Len(q) + 1
    BY <1>1
  <1>3. DOMAIN q \subseteq DOMAIN Append(q, x) /\ Len(q) + 1 \in DOMAIN Append(q, x)
    BY <1>1
  <1>4. LinesOf(Append(q, x)) = LinesOf(q) \union ({x.line} \ {0})
    BY <1>1, <1>2, <1>3 DEF LinesOf
  <1>5. \A i \in DOMAIN q : q[i].line # 0 => q[i].line # x.line
    BY DEF LinesOf
  <1>6. Distinct(Append(q, x))
    BY <1>1, <1>2, <1>5 DEF Distinct
  <1> QED
    BY <1>4, <1>6

\* A line that leaves a queue it is in once is not in it any more.
LEMMA LinesDequeued ==
    ASSUME NEW S, NEW q \in Seq(S), q # <<>>, Distinct(q)
    PROVE  /\ LinesOf(Tail(q)) = LinesOf(q) \ {Head(q).line}
           /\ Head(q).line \in LinesOf(q) \union {0}
           /\ Distinct(Tail(q))
  <1>1. /\ DOMAIN Tail(q) = 1..(Len(q) - 1)
        /\ DOMAIN q = 1..Len(q)
        /\ Len(q) \in Nat \ {0}
        /\ Head(q) = q[1]
        /\ \A i \in DOMAIN Tail(q) : Tail(q)[i] = q[i + 1]
    BY TailElements
  <1>2. \A i \in DOMAIN Tail(q) : i + 1 \in DOMAIN q /\ i + 1 # 1
    BY <1>1
  <1>3. \A i \in DOMAIN q : i = 1 \/ (i - 1 \in DOMAIN Tail(q) /\ Tail(q)[i - 1] = q[i])
    BY <1>1
  <1>4. 1 \in DOMAIN q
    BY <1>1
  <1>5. LinesOf(Tail(q)) = LinesOf(q) \ {Head(q).line}
    <2>1. ASSUME NEW l \in LinesOf(Tail(q)) PROVE l \in LinesOf(q) /\ l # Head(q).line
      BY <1>1, <1>2, <1>4 DEF LinesOf, Distinct
    <2>2. ASSUME NEW l \in LinesOf(q), l # Head(q).line PROVE l \in LinesOf(Tail(q))
      <3>1. PICK i \in DOMAIN q : q[i].line = l /\ l # 0
        BY DEF LinesOf
      <3>2. i # 1
        BY <1>1, <2>2, <3>1
      <3>3. i - 1 \in DOMAIN Tail(q) /\ Tail(q)[i - 1].line = l
        BY <1>3, <3>1, <3>2
      <3> QED
        BY <3>1, <3>3 DEF LinesOf
    <2> QED
      BY <2>1, <2>2
  <1>6. Distinct(Tail(q))
    <2> SUFFICES ASSUME NEW i \in DOMAIN Tail(q), NEW j \in DOMAIN Tail(q), i # j,
                        Tail(q)[i].line # 0
                 PROVE  Tail(q)[i].line # Tail(q)[j].line
      BY DEF Distinct
    <2>1. i + 1 # j + 1
      BY <1>1
    <2> QED
      BY <1>1, <1>2, <2>1 DEF Distinct
  <1>7. Head(q).line \in LinesOf(q) \union {0}
    BY <1>1, <1>4 DEF LinesOf
  <1> QED
    BY <1>5, <1>6, <1>7

-----------------------------------------------------------------------------
(* Where a line is, after a step of a worker *)

Placed == Separate /\ Tracked

\* A step that moves no line.
LEMMA NothingMoves ==
    ASSUME Placed, work'.q = work.q, results'.q = results.q,
           UNCHANGED <<FedLine, held, line_no, inFlight>>
    PROVE  Placed'
  <1>1. /\ LinesOf(work.q)' = LinesOf(work.q) /\ Distinct(work.q)' = Distinct(work.q)
        /\ LinesOf(results.q)' = LinesOf(results.q)
        /\ Distinct(results.q)' = Distinct(results.q)
    BY DEF LinesOf, Distinct
  <1> QED
    BY <1>1 DEF Placed, Separate, Tracked

\* A worker lets go of what it holds.
LEMMA WorkerLetsGo ==
    ASSUME Placed, NEW w \in Workers,
           \A v \in Workers : held'[v] = held[v] \/ held'[v].line = 0,
           work'.q = work.q, results'.q = results.q,
           UNCHANGED <<rpc, line_no, inFlight>>
    PROVE  Placed'
  <1>1. /\ LinesOf(work.q)' = LinesOf(work.q) /\ Distinct(work.q)' = Distinct(work.q)
        /\ LinesOf(results.q)' = LinesOf(results.q)
        /\ Distinct(results.q)' = Distinct(results.q)
        /\ FedLine' = FedLine
    BY DEF LinesOf, Distinct, FedLine
  <1> QED
    BY <1>1 DEF Placed, Separate, Tracked

\* A worker takes the first line of the work channel.
LEMMA WorkerTakes ==
    ASSUME Placed, NEW S, work.q \in Seq(S), work.q # <<>>, NEW w \in Workers,
           work'.q = Tail(work.q), held'[w] = Head(work.q),
           \A v \in Workers \ {w} : held'[v] = held[v],
           results'.q = results.q, UNCHANGED <<rpc, line_no, inFlight>>
    PROVE  Placed'
  <1>1. /\ LinesOf(work.q)' = LinesOf(work.q) \ {held'[w].line}
        /\ held'[w].line \in LinesOf(work.q) \union {0}
        /\ Distinct(work.q)'
    <2>1. Distinct(work.q)
      BY DEF Placed, Separate
    <2>2. /\ LinesOf(Tail(work.q)) = LinesOf(work.q) \ {Head(work.q).line}
          /\ Head(work.q).line \in LinesOf(work.q) \union {0}
          /\ Distinct(Tail(work.q))
      BY <2>1, LinesDequeued
    <2>3. LinesOf(work.q)' = LinesOf(Tail(work.q)) /\ Distinct(work.q)' = Distinct(Tail(work.q))
      BY DEF LinesOf, Distinct
    <2> QED
      BY <2>2, <2>3
  <1>2. /\ LinesOf(results.q)' = LinesOf(results.q)
        /\ Distinct(results.q)' = Distinct(results.q)
        /\ FedLine' = FedLine
    BY DEF LinesOf, Distinct, FedLine
  <1>3. \A v \in Workers \ {w} : held[v].line # 0 => held[v].line # held'[w].line
    BY <1>1 DEF Placed, Separate
  <1> QED
    BY <1>1, <1>2, <1>3 DEF Placed, Separate, Tracked

\* A worker puts an outcome of the line it holds, which it then lets go of, or
\* a signal without a line.
LEMMA WorkerPuts ==
    ASSUME Placed, NEW S, results.q \in Seq(S), NEW o \in S, NEW w \in Workers,
           results'.q = Append(results.q, o),
           o.line = 0 \/ (o.line = held[w].line /\ held'[w].line = 0),
           \A v \in Workers : held'[v] = held[v] \/ held'[v].line = 0,
           work'.q = work.q, UNCHANGED <<rpc, line_no, inFlight>>
    PROVE  Placed'
  <1>0. o.line # 0 =>
           /\ o.line \notin FedLine \union LinesOf(work.q) \union LinesOf(results.q)
           /\ o.line \in inFlight
           /\ \A v \in Workers \ {w} : held[v].line # o.line
    BY DEF Placed, Separate, Tracked
  <1>1. o.line \notin LinesOf(results.q)
    BY <1>0 DEF LinesOf
  <1>2. /\ LinesOf(results.q)' = LinesOf(results.q) \union ({o.line} \ {0})
        /\ Distinct(results.q)'
    <2>1. Distinct(results.q)
      BY DEF Placed, Separate
    <2>2. /\ LinesOf(Append(results.q, o)) = LinesOf(results.q) \union ({o.line} \ {0})
          /\ Distinct(Append(results.q, o))
      BY <1>1, <2>1, LinesAppended
    <2>3. /\ LinesOf(results.q)' = LinesOf(Append(results.q, o))
          /\ Distinct(results.q)' = Distinct(Append(results.q, o))
      BY DEF LinesOf, Distinct
    <2> QED
      BY <2>2, <2>3
  <1>3. /\ LinesOf(work.q)' = LinesOf(work.q) /\ Distinct(work.q)' = Distinct(work.q)
        /\ FedLine' = FedLine
    BY DEF LinesOf, Distinct, FedLine
  <1>4. \A v \in Workers : held'[v].line # 0 => held'[v] = held[v] /\ held'[v].line # o.line
    BY <1>0
  <1> QED
    BY <1>0, <1>2, <1>3, <1>4 DEF Placed, Separate, Tracked

\* What a worker holds after results.put, and what it reported there.
LEMMA AfterPutHeld ==
    ASSUME WorkerTypeOK(Lines), NEW w \in Workers, AfterPut(w)
    PROVE  /\ \A v \in Workers : held'[v] = held[v] \/ held'[v].line = 0
           /\ \/ Report(w).line = 0
              \/ Report(w).line = held[w].line /\ held'[w].line = 0
  <1>1. CASE act[w] = "DIED"
    <2>1. Report(w).line = 0
      BY <1>1 DEF Report, Outcome
    <2>2. held' = held
      BY <1>1 DEF AfterPut
    <2> QED
      BY <2>1, <2>2
  <1>2. CASE act[w] # "DIED" /\ held[w].side = "redo"
    <2>1. held[w].line = 0
      BY <1>2 DEF WorkerTypeOK, RedoJob, Nothing
    <2>2. Report(w).line = 0
      BY <2>1 DEF Report, Outcome
    <2>3. held' = held
      BY <1>2 DEF AfterPut
    <2> QED
      BY <2>2, <2>3
  <1>3. CASE act[w] # "DIED" /\ held[w].side # "redo"
    <2>1. held' = [held EXCEPT ![w] = Nothing]
      BY <1>3 DEF AfterPut, BackToTop
    <2>2. /\ held'[w].line = 0
          /\ \A v \in Workers \ {w} : held'[v] = held[v]
      BY <2>1 DEF WorkerTypeOK, Nothing
    <2>3. Report(w).line \in {0, held[w].line}
      BY DEF Report, Outcome
    <2> QED
      BY <2>2, <2>3
  <1> QED
    BY <1>1, <1>2, <1>3

\* A worker step keeps every line in one place and in flight.
LEMMA WorkerStepPlaced ==
    ASSUME WorkerTypeOK(Lines), Placed, NEW w \in Workers, WorkerStep(w),
           UNCHANGED <<rpc, line_no, inFlight>>
    PROVE  Placed'
  <1> USE DEF channels
  <1>1. CASE \/ LoopTop(w) \/ GetNothing(w) \/ AddRecord(w) \/ DrainMiss(w)
             \/ DrainEnd(w) \/ ProcessRedo(w) \/ PollMiss(w) \/ WorkerFatal(w)
    <2>1. UNCHANGED <<channels, held>>
      BY <1>1 DEF LoopTop, GetNothing, AddRecord, DrainMiss, DrainEnd, ProcessRedo,
                  PollMiss, WorkerFatal
    <2> QED
      BY <2>1, NothingMoves DEF FedLine
  <1>2. CASE TakeLoad(w) /\ UNCHANGED results
    <2>1. work \in Channel(LoadItems(Lines)) /\ HasItem(work)
      BY <1>2 DEF WorkerTypeOK, LoadItems, TakeLoad
    <2>2. /\ work.q \in Seq(LoadItems(Lines)) /\ work.q # <<>>
          /\ work'.q = Tail(work.q)
      BY <1>2, <2>1, DequeuedType DEF TakeLoad, Channel, HasItem
    <2>3. /\ held'[w] = Head(work.q)
          /\ \A v \in Workers \ {w} : held'[v] = held[v]
      BY <1>2 DEF TakeLoad, TakeFrom, WorkerTypeOK
    <2> QED
      BY <1>2, <2>2, <2>3, WorkerTakes
  <1>3. CASE TakeRedo(w) /\ UNCHANGED results
    <2>1. jobs \in Channel({RedoJob}) /\ HasItem(jobs)
      BY <1>3 DEF WorkerTypeOK, TakeRedo
    <2>2. Head(jobs.q) = RedoJob
      BY <2>1, DequeuedType
    <2>3. \A v \in Workers : held'[v] = held[v] \/ held'[v].line = 0
      BY <1>3, <2>2 DEF TakeRedo, TakeFrom, WorkerTypeOK, RedoJob
    <2> QED
      BY <1>3, <2>3, WorkerLetsGo DEF TakeRedo
  <1>4. CASE SettleRedo(w)
    <2>1. \A v \in Workers : held'[v] = held[v] \/ held'[v].line = 0
      BY <1>4 DEF SettleRedo, BackToTop, Nothing, WorkerTypeOK
    <2> QED
      BY <1>4, <2>1, WorkerLetsGo DEF SettleRedo
  <1>5. CASE PutCheck(w) \/ PutFull(w)
    <2>1. AfterPut(w) \/ held' = held
      BY <1>5 DEF PutCheck, PutFull
    <2>2. \A v \in Workers : held'[v] = held[v] \/ held'[v].line = 0
      BY <2>1, AfterPutHeld
    <2> QED
      BY <1>5, <2>2, WorkerLetsGo DEF PutCheck, PutFull
  <1>6. CASE PutEnqueue(w)
    <2>1. results \in Channel(Outcomes(Lines)) /\ Report(w) \in Outcomes(Lines)
      BY ReportType DEF WorkerTypeOK, Outcomes
    <2>2. /\ results.q \in Seq(Outcomes(Lines))
          /\ results'.q = Append(results.q, Report(w))
      <3>1. results.q \in Seq(Outcomes(Lines))
        BY <2>1 DEF Channel
      <3>2. results' = Enqueued(results, Report(w))
        BY <1>6 DEF PutEnqueue
      <3> QED
        BY <2>1, <3>1, <3>2, EnqueuedType
    <2>3. /\ \A v \in Workers : held'[v] = held[v] \/ held'[v].line = 0
          /\ \/ Report(w).line = 0
             \/ Report(w).line = held[w].line /\ held'[w].line = 0
      BY <1>6, AfterPutHeld DEF PutEnqueue
    <2> QED
      BY <1>6, <2>1, <2>2, <2>3, WorkerPuts DEF PutEnqueue
  <1> QED
    BY <1>1, <1>2, <1>3, <1>4, <1>5, <1>6
    DEF WorkerStep, LoadStep, RedoStep, MixedStep, ReportStep, GetLoad, DrainRedo,
        PollHit

-----------------------------------------------------------------------------
(* What an ACK stands for, after a step of a worker *)

\* A worker step leaves the other workers alone and unloads nothing.
LEMMA OthersUntouched ==
    ASSUME WorkerTypeOK(Lines), NEW w \in Workers, WorkerStep(w)
    PROVE  /\ \A v \in Workers \ {w} :
                 pc'[v] = pc[v] /\ act'[v] = act[v] /\ held'[v] = held[v]
           /\ db \subseteq db'
  <1> USE DEF WorkerTypeOK, Goto, Become, engineVars
  <1>1. CASE LoadStep(w)
    BY <1>1 DEF LoadStep, LoopTop, GetLoad, GetNothing, AddRecord, EngineAdd, TakeLoad,
                TakeFrom
  <1>2. CASE RedoStep(w)
    BY <1>2 DEF RedoStep, DrainRedo, DrainMiss, DrainEnd, ProcessRedo, SettleRedo,
                EngineRedo, TakeRedo, TakeFrom, BackToTop
  <1>3. CASE MixedStep(w)
    BY <1>3 DEF MixedStep, PollHit, PollMiss, TakeLoad, TakeRedo, TakeFrom
  <1>4. CASE ReportStep(w)
    BY <1>4 DEF ReportStep, WorkerFatal, PutCheck, PutEnqueue, PutFull, AfterPut, BackToTop
  <1> QED
    BY <1>1, <1>2, <1>3, <1>4 DEF WorkerStep

WorkerVerdict(w) ==
    /\ pc[w] \in {"top", "get", "probe1", "probe2", "call"} => act[w] = "none"
    /\ act[w] = "ACK" => held[w].line \in db \union {0}

\* The verdict of the worker that moves still stands.
LEMMA OwnVerdict ==
    ASSUME WorkerTypeOK(Lines), NEW w \in Workers, WorkerVerdict(w), WorkerStep(w)
    PROVE  WorkerVerdict(w)'
  <1> USE DEF WorkerTypeOK, Goto, Become, WorkerVerdict
  <1>1. CASE LoadStep(w)
    BY <1>1 DEF LoadStep, LoopTop, GetLoad, GetNothing, AddRecord, EngineAdd, TakeLoad,
                TakeFrom
  <1>2. CASE RedoStep(w)
    <2>1. CASE ProcessRedo(w)
      <3>1. held[w].line = 0
        BY <2>1 DEF ProcessRedo, RedoJob, Nothing
      <3>2. held' = held /\ pc'[w] \in {"settle", "fatal"}
        BY <2>1 DEF ProcessRedo
      <3> QED
        BY <3>1, <3>2
    <2>2. CASE DrainRedo(w) \/ DrainMiss(w) \/ DrainEnd(w)
      BY <2>2 DEF DrainRedo, DrainMiss, DrainEnd, TakeRedo, TakeFrom
    <2>3. CASE SettleRedo(w)
      BY <2>3 DEF SettleRedo, BackToTop
    <2> QED
      BY <1>2, <2>1, <2>2, <2>3 DEF RedoStep
  <1>3. CASE MixedStep(w)
    BY <1>3 DEF MixedStep, PollHit, PollMiss, TakeLoad, TakeRedo, TakeFrom, engineVars
  <1>4. CASE ReportStep(w)
    <2>1. CASE WorkerFatal(w) \/ (Goto(w, "enq") /\ UNCHANGED <<held, act, engineVars>>)
      BY <2>1 DEF WorkerFatal, engineVars
    <2>2. CASE AfterPut(w) /\ UNCHANGED engineVars
      BY <2>2 DEF AfterPut, BackToTop, engineVars
    <2> QED
      BY <1>4, <2>1, <2>2 DEF ReportStep, PutCheck, PutEnqueue, PutFull
  <1> QED
    BY <1>1, <1>2, <1>3, <1>4 DEF WorkerStep

\* A worker step changes the results channel only by a report.
LEMMA ResultsChange ==
    ASSUME NEW w \in Workers, WorkerStep(w)
    PROVE  \/ UNCHANGED results
           \/ results' = Enqueued(results, Report(w))
  BY DEF WorkerStep, LoadStep, LoopTop, GetLoad, GetNothing, AddRecord, RedoStep,
         DrainRedo, DrainMiss, DrainEnd, ProcessRedo, SettleRedo, MixedStep, PollHit,
         PollMiss, ReportStep, WorkerFatal, PutCheck, PutEnqueue, PutFull, channels

\* A worker step leaves every ACK standing for a line that is loaded.
LEMMA WorkerStepAcknowledged ==
    ASSUME WorkerTypeOK(Lines), Acknowledged, NEW w \in Workers, WorkerStep(w),
           UNCHANGED consumerVars
    PROVE  Acknowledged'
  <1>0. db \subseteq db'
    BY OthersUntouched
  <1>1. ASSUME NEW v \in Workers PROVE WorkerVerdict(v)'
    <2>1. WorkerVerdict(v)
      BY DEF Acknowledged, WorkerVerdict
    <2>2. CASE v = w
      BY <2>1, <2>2, OwnVerdict
    <2>3. CASE v # w
      BY <1>0, <2>1, <2>3, OthersUntouched DEF WorkerVerdict
    <2> QED
      BY <2>2, <2>3
  <1>2. ASSUME NEW i \in DOMAIN results'.q, results'.q[i].kind = "ACK"
        PROVE  results'.q[i].line \in db' \union {0}
    <2>1. CASE UNCHANGED results
      BY <1>0, <1>2, <2>1 DEF Acknowledged
    <2>2. CASE results' = Enqueued(results, Report(w))
      <3>1. results \in Channel(Outcomes(Lines)) /\ Report(w) \in Outcomes(Lines)
        BY ReportType DEF WorkerTypeOK, Outcomes
      <3>2. results.q \in Seq(Outcomes(Lines))
        BY <3>1 DEF Channel
      <3>3. results'.q = Append(results.q, Report(w))
        BY <2>2, <3>1, EnqueuedType
      <3>4. \/ i \in DOMAIN results.q /\ results'.q[i] = results.q[i]
            \/ results'.q[i] = Report(w)
        BY <3>1, <3>2, <3>3, AppendElements
      <3>5. CASE i \in DOMAIN results.q /\ results'.q[i] = results.q[i]
        BY <1>0, <1>2, <3>5 DEF Acknowledged
      <3>6. CASE results'.q[i] = Report(w)
        <4>1. act[w] = "ACK" /\ Report(w).line = held[w].line
          BY <1>2, <3>6 DEF Report, Outcome
        <4> QED
          BY <1>0, <3>6, <4>1 DEF Acknowledged
      <3> QED
        BY <3>4, <3>5, <3>6
    <2> QED
      BY <2>1, <2>2, ResultsChange
  <1>3. (cpc = "settle" /\ outcome.kind = "ACK" => outcome.line \in db \union {0})'
    BY <1>0 DEF Acknowledged, consumerVars
  <1> QED
    BY <1>1, <1>2, <1>3 DEF Acknowledged, WorkerVerdict

-----------------------------------------------------------------------------
(* The steps of the fetcher *)

\* Neither an ACK nor a verdict changes.
LEMMA NothingAcknowledged ==
    ASSUME Acknowledged, results'.q = results.q,
           UNCHANGED <<pc, act, held, db, consumerVars>>
    PROVE  Acknowledged'
  BY DEF Acknowledged, consumerVars

\* The fetcher moves no line and puts at most a signal on results.
LEMMA FetcherPuts ==
    ASSUME WorkerTypeOK(Lines), NEW complete, FetcherStep(complete)
    PROVE  /\ UNCHANGED <<work, pc, held, act, db>>
           /\ \/ UNCHANGED results
              \/ /\ results.q \in Seq(Outcomes(Lines))
                 /\ Outcome(0, "FATAL") \in Outcomes(Lines)
                 /\ results'.q = Append(results.q, Outcome(0, "FATAL"))
  <1>1. UNCHANGED <<work, pc, held, act, db>>
    BY DEF FetcherStep, FetchTop, FetchRecord, FetchEmpty, FetchError, FetchQuiet,
           FetchDrained, FetchGiveUp, FetchPutCheck, FetchEnqueue, FetchFatal,
           FetchReport, FetchClose, EngineGetRedo, workerVars, engineVars, channels
  <1>2. UNCHANGED results \/ results' = Enqueued(results, Outcome(0, "FATAL"))
    BY DEF FetcherStep, FetchTop, FetchRecord, FetchEmpty, FetchError, FetchQuiet,
           FetchDrained, FetchGiveUp, FetchPutCheck, FetchEnqueue, FetchFatal,
           FetchReport, FetchClose, channels
  <1>3. results \in Channel(Outcomes(Lines)) /\ Outcome(0, "FATAL") \in Outcomes(Lines)
    BY DEF WorkerTypeOK, Outcomes, Outcome
  <1> QED
    BY <1>1, <1>2, <1>3, EnqueuedType DEF Channel

\* So every line stays where it is.
LEMMA FetcherStepPlaced ==
    ASSUME WorkerTypeOK(Lines), Placed, NEW complete, FetcherStep(complete),
           UNCHANGED <<rpc, line_no, inFlight>>
    PROVE  Placed'
  <1> DEFINE o == Outcome(0, "FATAL")
  <1>1. o.line = 0
    BY DEF Outcome
  <1>2. PICK w : w \in Workers
    BY WorkersAssumption
  <1>3. CASE UNCHANGED results
    BY <1>3, FetcherPuts, NothingMoves DEF FedLine
  <1>4. CASE /\ results.q \in Seq(Outcomes(Lines)) /\ o \in Outcomes(Lines)
             /\ results'.q = Append(results.q, o)
    <2>1. UNCHANGED <<work, held>>
      BY FetcherPuts
    <2> HIDE DEF o
    <2> QED
      BY <1>1, <1>2, <1>4, <2>1, WorkerPuts
  <1> QED
    BY <1>3, <1>4, FetcherPuts

\* And a signal is no ACK.
LEMMA FetcherStepTraced ==
    ASSUME WorkerTypeOK(Lines), Placed, Acknowledged, NEW complete, FetcherStep(complete),
           UNCHANGED <<rpc, line_no, inFlight, consumerVars>>
    PROVE  Placed' /\ Acknowledged' /\ db' = db
  <1> DEFINE o == Outcome(0, "FATAL")
  <1>1. UNCHANGED <<pc, held, act, db>> /\ Placed'
    BY FetcherPuts, FetcherStepPlaced
  <1>2. o.kind # "ACK"
    BY DEF Outcome
  <1>3. CASE UNCHANGED results
    BY <1>1, <1>3, NothingAcknowledged
  <1>4. CASE /\ results.q \in Seq(Outcomes(Lines)) /\ o \in Outcomes(Lines)
             /\ results'.q = Append(results.q, o)
    <2> HIDE DEF o
    <2>1. \A i \in DOMAIN results'.q :
             (i \in DOMAIN results.q /\ results'.q[i] = results.q[i]) \/ results'.q[i] = o
      BY <1>4, AppendElements
    <2> QED
      BY <1>1, <1>2, <2>1 DEF Acknowledged, consumerVars
  <1> QED
    BY <1>1, <1>3, <1>4, FetcherPuts

-----------------------------------------------------------------------------
(* The tracker and the reject file *)

Booked == Rejected /\ DoneSettled /\ WatermarkSafe

\* What is settled stays settled, as long as nothing is taken back.
LEMMA SettledStays ==
    ASSUME NEW l, Settled(l), file' = file, db \subseteq db',
           rejectFile \subseteq rejectFile' /\ damaged \subseteq damaged', logged \subseteq logged'
    PROVE  Settled(l)'
  BY DEF Settled

\* Loading more lines disturbs no book.
LEMMA BooksUntouched ==
    ASSUME Booked, db \subseteq db', UNCHANGED <<file, rpc, line_no, consumerVars>>,
           UNCHANGED <<next, outOfOrder, rejectFile, damaged, logged>>
    PROVE  Booked'
  <1>1. Rejected'
    BY DEF Booked, Rejected, consumerVars
  <1>2. \A l : Settled(l) => Settled(l)'
    BY SettledStays
  <1>3. DoneSettled'
    BY <1>2 DEF Booked, DoneSettled
  <1>4. WatermarkSafe'
    BY <1>2 DEF Booked, WatermarkSafe, Watermark
  <1> QED
    BY <1>1, <1>3, <1>4 DEF Booked

\* The order of two numbers, one less.
LEMMA UpTo ==
    ASSUME NEW l \in Nat, NEW n \in Nat, l <= n - 1
    PROVE  l < n
  OBVIOUS

\* Completing a settled line keeps the watermark safe.
LEMMA CompleteSafe ==
    ASSUME LoadStateTypeOK, DoneSettled, WatermarkSafe,
           NEW line \in Lines \union {0}, Complete(line), line = 0 \/ Settled(line),
           UNCHANGED <<file, db, rejectFile, damaged, logged>>
    PROVE  DoneSettled' /\ WatermarkSafe'
  <1>1. /\ next' \in Nat \ {0} /\ next \in Nat \ {0}
        /\ outOfOrder' \subseteq Lines
        /\ outOfOrder' \subseteq outOfOrder \union {line}
        /\ \A l \in Lines : next <= l /\ l < next' => l \in outOfOrder \union {line}
    BY CompleteAdvances DEF LoadStateTypeOK
  <1>2. 0 \notin Lines /\ Lines \subseteq Nat
    BY LinesAssumption DEF Lines
  <1>3. \A l : Settled(l) => Settled(l)'
    BY SettledStays
  <1>4. \A l \in (outOfOrder \union {line}) \ {0} : Settled(l)'
    BY <1>3 DEF DoneSettled
  <1>5. DoneSettled'
    BY <1>1, <1>2, <1>4 DEF DoneSettled
  <1>6. ASSUME NEW l \in Lines, SkipLines < l, l <= next' - 1
        PROVE  Settled(l)'
    <2>1. l \in Nat /\ l # 0 /\ l < next'
      <3>1. l \in Nat /\ l # 0
        BY <1>2
      <3>2. PICK n \in Nat : n = next'
        BY <1>1
      <3>3. l <= n - 1
        BY <1>6, <3>2
      <3>4. l < n
        BY <3>1, <3>3, UpTo
      <3> QED
        BY <3>1, <3>2, <3>4
    <2>2. CASE l <= next - 1
      BY <1>3, <1>6, <2>2 DEF WatermarkSafe, Watermark
    <2>3. CASE ~ (l <= next - 1)
      <3>1. next <= l
        BY <1>1, <2>1, <2>3
      <3> QED
        BY <1>1, <1>4, <2>1, <3>1
    <2> QED
      BY <2>2, <2>3
  <1>7. WatermarkSafe'
    BY <1>6 DEF WatermarkSafe, Watermark, Lines
  <1> QED
    BY <1>5, <1>7

\* A line given to the reject file is on record, or damaged there.
LEMMA RejectRecords ==
    ASSUME NEW line, WriteReject(line)
    PROVE  /\ line \in rejectFile' \union damaged' \union logged'
           /\ rejectFile \subseteq rejectFile' /\ damaged \subseteq damaged'
           /\ logged \subseteq logged'
  BY DEF WriteReject, WriteFails

-----------------------------------------------------------------------------
(* The steps of the reader *)

\* The reader reads a line, which may be on its way to the pool from now on.
LEMMA LineRead ==
    ASSUME Placed, line_no \in Nat, FedLine = {}, line_no' = line_no + 1,
           FedLine' \subseteq {line_no'}, inFlight' = inFlight \union FedLine',
           UNCHANGED <<work, results, held>>
    PROVE  Placed'
  <1>1. /\ LinesOf(work.q)' = LinesOf(work.q) /\ Distinct(work.q)' = Distinct(work.q)
        /\ LinesOf(results.q)' = LinesOf(results.q)
        /\ Distinct(results.q)' = Distinct(results.q)
    BY DEF LinesOf, Distinct
  <1>2. line_no' \notin inFlight /\ inFlight' \subseteq 1..line_no'
    <2>1. inFlight \subseteq 1..line_no
      BY DEF Placed, Tracked
    <2>2. line_no + 1 \notin 1..line_no /\ 1..line_no \subseteq 1..(line_no + 1)
      OBVIOUS
    <2>3. line_no + 1 \in 1..(line_no + 1)
      OBVIOUS
    <2> QED
      BY <2>1, <2>2, <2>3
  <1>3. Separate'
    BY <1>1, <1>2 DEF Placed, Separate, Tracked
  <1>4. Tracked'
    BY <1>1, <1>2 DEF Placed, Tracked
  <1> QED
    BY <1>3, <1>4 DEF Placed

\* The reader puts the line it has read on the work channel.
LEMMA LineFed ==
    ASSUME Placed, WorkerTypeOK(Lines), line_no \in Lines, FedLine = {line_no},
           FedLine' = {}, work' = Enqueued(work, LoadItem(line_no)),
           UNCHANGED <<results, held, line_no, inFlight>>
    PROVE  Placed'
  <1> DEFINE x == LoadItem(line_no)
  <1>1. work \in Channel(LoadItems(Lines)) /\ x \in LoadItems(Lines) /\ x.line = line_no
    BY DEF WorkerTypeOK, LoadItems, LoadItem
  <1>2. work.q \in Seq(LoadItems(Lines))
    BY <1>1 DEF Channel
  <1>3. work'.q = Append(work.q, x)
    BY <1>1, EnqueuedType
  <1>4. x.line \notin LinesOf(work.q) /\ Distinct(work.q)
    BY <1>1 DEF Placed, Separate
  <1> HIDE DEF x
  <1>5. /\ LinesOf(Append(work.q, x)) = LinesOf(work.q) \union ({line_no} \ {0})
        /\ Distinct(Append(work.q, x))
    BY <1>1, <1>2, <1>4, LinesAppended
  <1>6. /\ LinesOf(work.q)' = LinesOf(work.q) \union ({line_no} \ {0})
        /\ Distinct(work.q)'
        /\ LinesOf(results.q)' = LinesOf(results.q)
        /\ Distinct(results.q)' = Distinct(results.q)
    <2>1. /\ LinesOf(work.q)' = LinesOf(Append(work.q, x))
          /\ Distinct(work.q)' = Distinct(Append(work.q, x))
      BY <1>3 DEF LinesOf, Distinct
    <2>2. /\ LinesOf(results.q)' = LinesOf(results.q)
          /\ Distinct(results.q)' = Distinct(results.q)
      BY DEF LinesOf, Distinct
    <2> QED
      BY <1>5, <2>1, <2>2
  <1> QED
    BY <1>6 DEF Placed, Separate, Tracked

\* The reader withdraws the line it could not put.
LEMMA LineWithdrawn ==
    ASSUME Placed, FedLine = {line_no}, FedLine' = {}, inFlight' = inFlight \ {line_no},
           UNCHANGED <<work, results, held, line_no>>
    PROVE  Placed'
  <1>1. /\ LinesOf(work.q)' = LinesOf(work.q) /\ Distinct(work.q)' = Distinct(work.q)
        /\ LinesOf(results.q)' = LinesOf(results.q)
        /\ Distinct(results.q)' = Distinct(results.q)
    BY DEF LinesOf, Distinct
  <1> QED
    BY <1>1 DEF Placed, Separate, Tracked

\* A reader step keeps every line in one place and in flight.
LEMMA ReaderStepPlaced ==
    ASSUME WorkerTypeOK(Lines), OwnTypeOK, Placed, ReaderStep
    PROVE  Placed'
  <1> USE DEF otherThanReader, workerVars, channels
  <1>1. CASE \/ ReadStop \/ ReaderReject \/ ReaderWrite \/ ReaderWriteHangs \/ ReaderComplete
             \/ ReaderPutCheck \/ ReaderClose \/ ReaderFinish
    <2>1. /\ UNCHANGED <<held, line_no, inFlight, results>>
          /\ work' = work \/ work' = Closed(work)
      BY <1>1 DEF ReadStop, ReaderReject, ReaderWrite, ReaderWriteHangs, ReaderComplete,
                  ReaderPutCheck, ReaderClose, ReaderFinish, loadStateVars
    <2>2. FedLine' = FedLine
      BY <1>1, <2>1 DEF FedLine, ReadStop, ReaderReject, ReaderWrite, ReaderWriteHangs,
                        ReaderComplete, ReaderPutCheck, ReaderClose, ReaderFinish
    <2>3. work'.q = work.q
      BY <2>1, ClosedType DEF WorkerTypeOK
    <2> QED
      BY <2>1, <2>2, <2>3, NothingMoves
  <1>2. CASE ReadLine
    <2>1. /\ line_no \in Nat /\ line_no' = line_no + 1
          /\ FedLine = {} /\ UNCHANGED <<work, results, held>>
      BY <1>2 DEF ReadLine, OwnTypeOK, ReaderTypeOK, FedLine
    <2>2. FedLine' \subseteq {line_no'}
      BY DEF FedLine
    <2>3. inFlight' = inFlight \union FedLine'
      <3>1. CASE line_no + 1 <= SkipLines
        BY <1>2, <3>1 DEF ReadLine, FedLine
      <3>2. CASE ~ (line_no + 1 <= SkipLines)
        <4>1. Feed(line_no')
          BY <1>2, <2>1, <3>2 DEF ReadLine
        <4> QED
          BY <4>1 DEF Feed, FedLine
      <3> QED
        BY <3>1, <3>2
    <2> QED
      BY <2>1, <2>2, <2>3, LineRead
  <1>3. CASE ReaderEnqueue
    <2>1. line_no \in Lines /\ FedLine = {line_no} /\ FedLine' = {}
      BY <1>3 DEF ReaderEnqueue, FedLine, OwnTypeOK, LinesInHand
    <2> QED
      BY <1>3, <2>1, LineFed DEF ReaderEnqueue, loadStateVars
  <1>4. CASE ReaderGiveUp
    <2>1. FedLine = {line_no} /\ FedLine' = {}
      BY <1>4 DEF ReaderGiveUp, PutFails, FedLine
    <2> QED
      BY <1>4, <2>1, LineWithdrawn DEF ReaderGiveUp, Withdraw
  <1> QED
    BY <1>1, <1>2, <1>3, <1>4 DEF ReaderStep

\* A reader step completes settled lines only: blank ones, and those rejected.
LEMMA ReaderStepBooked ==
    ASSUME OwnTypeOK, Booked, ReaderStep,
           UNCHANGED consumerVars
    PROVE  Booked'
  <1> USE DEF otherThanReader, engineVars
  <1>1. CASE \/ ReadStop \/ ReaderReject \/ ReaderPutCheck \/ ReaderEnqueue
             \/ ReaderGiveUp \/ ReaderClose \/ ReaderFinish
    <2>1. /\ UNCHANGED <<file, line_no, db, next, outOfOrder, rejectFile, damaged, logged>>
          /\ rpc' # "complete"
      BY <1>1 DEF ReadStop, ReaderReject, ReaderPutCheck, ReaderEnqueue, ReaderGiveUp,
                  ReaderClose, ReaderFinish, loadStateVars, resumeVars, sinkVars
    <2>2. Rejected'
      BY <2>1 DEF Booked, Rejected, consumerVars
    <2>3. DoneSettled' /\ WatermarkSafe'
      BY <2>1, SettledStays DEF Booked, DoneSettled, WatermarkSafe, Watermark
    <2> QED
      BY <2>2, <2>3 DEF Booked
  <1>2. CASE ReadLine
    <2>1. UNCHANGED <<file, db, rejectFile, damaged, logged>> /\ line_no' \in Lines
      BY <1>2, LinesAssumption
      DEF ReadLine, sinkVars, OwnTypeOK, ReaderTypeOK, Lines
    <2>2. /\ rpc' # "complete"
          /\ \/ UNCHANGED <<next, outOfOrder>>
             \/ Complete(line_no') /\ file[line_no'] = "blank"
      <3>1. CASE line_no + 1 <= SkipLines
        BY <1>2, <3>1 DEF ReadLine, resumeVars
      <3>2. CASE ~ (line_no + 1 <= SkipLines)
        <4>1. Feed(line_no')
          BY <1>2, <3>2 DEF ReadLine
        <4> QED
          BY <4>1 DEF Feed, resumeVars
      <3> QED
        BY <3>1, <3>2
    <2>3. Rejected'
      BY <2>1, <2>2 DEF Booked, Rejected, consumerVars
    <2>4. DoneSettled' /\ WatermarkSafe'
      <3>1. CASE UNCHANGED <<next, outOfOrder>>
        BY <2>1, <3>1, SettledStays DEF Booked, DoneSettled, WatermarkSafe, Watermark
      <3>2. CASE Complete(line_no') /\ file[line_no'] = "blank"
        <4>1. PICK line \in Lines : line = line_no'
          BY <2>1
        <4>2. Complete(line) /\ Settled(line)
          BY <3>2, <4>1 DEF Settled
        <4> QED
          BY <2>1, <4>2, CompleteSafe DEF Booked, OwnTypeOK
      <3> QED
        BY <2>2, <3>1, <3>2
    <2> QED
      BY <2>3, <2>4 DEF Booked
  <1>3. CASE ReaderWrite
    <2>1. /\ UNCHANGED <<file, line_no, db, next, outOfOrder>>
          /\ WriteReject(line_no)
      BY <1>3 DEF ReaderWrite, resumeVars
    <2>2. /\ line_no \in rejectFile' \union damaged' \union logged'
          /\ rejectFile \subseteq rejectFile' /\ damaged \subseteq damaged' /\ logged \subseteq logged'
      BY <2>1, RejectRecords
    <2>3. Rejected'
      BY <2>1, <2>2 DEF Booked, Rejected, consumerVars
    <2>4. DoneSettled' /\ WatermarkSafe'
      BY <2>1, <2>2, SettledStays DEF Booked, DoneSettled, WatermarkSafe, Watermark
    <2> QED
      BY <2>3, <2>4 DEF Booked
  <1>4. CASE ReaderComplete
    <2>1. /\ UNCHANGED <<file, line_no, db, rejectFile, damaged, logged>>
          /\ Complete(line_no) /\ rpc' = "read"
      BY <1>4 DEF ReaderComplete, sinkVars
    <2>2. line_no \in Lines /\ Settled(line_no)
      BY <1>4 DEF ReaderComplete, OwnTypeOK, LinesInHand, Booked, Rejected, Settled
    <2>3. Rejected'
      BY <2>1 DEF Booked, Rejected, consumerVars
    <2>4. DoneSettled' /\ WatermarkSafe'
      BY <2>1, <2>2, CompleteSafe DEF Booked, OwnTypeOK
    <2> QED
      BY <2>3, <2>4 DEF Booked
  <1>5. CASE ReaderWriteHangs
    <2>1. UNCHANGED <<file, rpc, line_no, db, next, outOfOrder, rejectFile, damaged, logged>>
      BY <1>5 DEF ReaderWriteHangs, resumeVars, sinkVars
    <2>2. DoneSettled' /\ WatermarkSafe'
      BY <2>1, SettledStays DEF Booked, DoneSettled, WatermarkSafe, Watermark
    <2> QED
      BY <2>1, <2>2 DEF Booked, Rejected, consumerVars
  <1> QED
    BY <1>1, <1>2, <1>3, <1>4, <1>5 DEF ReaderStep

-----------------------------------------------------------------------------
(* The steps of the consumer *)

\* The consumer takes an outcome and its line out of flight.
LEMMA OutcomeTaken ==
    ASSUME Placed, NEW S, results.q \in Seq(S), results.q # <<>>,
           results'.q = Tail(results.q), inFlight' = inFlight \ {Head(results.q).line},
           UNCHANGED <<work, held, rpc, line_no>>
    PROVE  Placed'
  <1> DEFINE l == Head(results.q).line
  <1>1. /\ LinesOf(results.q)' = LinesOf(results.q) \ {l}
        /\ l \in LinesOf(results.q) \union {0}
        /\ Distinct(results.q)'
    <2>1. Distinct(results.q)
      BY DEF Placed, Separate
    <2>2. /\ LinesOf(Tail(results.q)) = LinesOf(results.q) \ {l}
          /\ l \in LinesOf(results.q) \union {0}
          /\ Distinct(Tail(results.q))
      BY <2>1, LinesDequeued
    <2>3. /\ LinesOf(results.q)' = LinesOf(Tail(results.q))
          /\ Distinct(results.q)' = Distinct(Tail(results.q))
      BY DEF LinesOf, Distinct
    <2> QED
      BY <2>2, <2>3
  <1>2. /\ LinesOf(work.q)' = LinesOf(work.q) /\ Distinct(work.q)' = Distinct(work.q)
        /\ FedLine' = FedLine
    BY DEF LinesOf, Distinct, FedLine
  <1>3. 0 \notin inFlight
    BY DEF Placed, Tracked
  <1> HIDE DEF l
  <1>4. inFlight' = inFlight \ {l}
    BY DEF l
  <1>5. Separate'
    BY <1>1, <1>2 DEF Placed, Separate
  <1>6. Tracked'
    <2>1. l \notin FedLine \union LinesOf(work.q)
      <3>1. CASE l = 0
        BY <1>3, <3>1 DEF Placed, Tracked
      <3>2. CASE l \in LinesOf(results.q)
        BY <3>2 DEF Placed, Separate
      <3> QED
        BY <1>1, <3>1, <3>2
    <2>2. \A w \in Workers : held[w].line # 0 => held[w].line # l
      BY <1>1 DEF Placed, Separate
    <2>3. FedLine \union LinesOf(work.q) \union LinesOf(results.q) \subseteq inFlight
      BY DEF Placed, Tracked
    <2>4. (FedLine \union LinesOf(work.q) \union LinesOf(results.q))' \subseteq inFlight'
      BY <1>1, <1>2, <1>4, <2>1, <2>3
    <2>5. /\ \A w \in Workers : held[w].line # 0 => held'[w].line \in inFlight'
          /\ inFlight' \subseteq 1..line_no'
      BY <1>4, <2>2 DEF Placed, Tracked
    <2> QED
      BY <2>4, <2>5 DEF Tracked
  <1> QED
    BY <1>5, <1>6 DEF Placed

\* A consumer step takes an outcome at its word and completes settled lines only.
LEMMA ConsumerStepTraced ==
    ASSUME WorkerTypeOK(Lines), OwnTypeOK,
           Placed, Acknowledged, Booked, ConsumerStep, UNCHANGED readerVars
    PROVE  Placed' /\ Acknowledged' /\ Booked'
  <1> USE DEF otherThanConsumer, workerVars, engineVars, readerVars, channels
  <1>1. CASE ConsumerGet
    <2> DEFINE o == Head(results.q)
    <2>1. results \in Channel(Outcomes(Lines)) /\ HasItem(results)
      BY <1>1 DEF ConsumerGet, WorkerTypeOK, Outcomes
    <2>2. /\ results.q \in Seq(Outcomes(Lines)) /\ results.q # <<>>
          /\ results' = Dequeued(results)
      BY <1>1, <2>1 DEF ConsumerGet, Channel, HasItem
    <2>3. results'.q = Tail(results.q)
      BY <2>1, <2>2, DequeuedType
    <2>4. /\ outcome' = [line |-> o.line, kind |-> o.kind, body |-> o.line \in inFlight]
          /\ cpc' = "settle"
          /\ inFlight' = inFlight \ {o.line}
          /\ UNCHANGED <<next, outOfOrder, rejectFile, damaged, logged, work, pc, held, act, db>>
      BY <1>1 DEF ConsumerGet, PopBody, PickUp, resumeVars, sinkVars
    <2>5. Placed'
      BY <2>2, <2>3, <2>4, OutcomeTaken
    <2>6. o = results.q[1] /\ 1 \in DOMAIN results.q
      BY <2>2, TailElements
    <2>7. \A i \in DOMAIN results'.q :
             i + 1 \in DOMAIN results.q /\ results'.q[i] = results.q[i + 1]
      BY <2>2, <2>3, TailElements
    <2> HIDE DEF o
    <2>8. Acknowledged'
      BY <2>4, <2>6, <2>7 DEF Acknowledged
    <2>9. o.line = 0 \/ o.line \in inFlight
      BY <2>6 DEF Placed, Tracked, LinesOf
    <2>10. Rejected'
      BY <2>4, <2>9 DEF Booked, Rejected
    <2>11. DoneSettled' /\ WatermarkSafe'
      BY <2>4, SettledStays DEF Booked, DoneSettled, WatermarkSafe, Watermark
    <2> QED
      BY <2>5, <2>8, <2>10, <2>11 DEF Booked
  <1>2. CASE ConsumerClosed \/ SettleFails \/ SettleFatal
    <2>1. /\ UNCHANGED <<next, outOfOrder, rejectFile, damaged, logged, inFlight>>
          /\ UNCHANGED <<work, results, db, pc, held, act>>
          /\ cpc' \in {"get", "done"}
      BY <1>2 DEF ConsumerClosed, SettleFails, SettleFatal, LineFailed, loadStateVars,
                  resumeVars, sinkVars
    <2>2. Placed'
      BY <2>1, NothingMoves DEF FedLine
    <2>3. Acknowledged'
      BY <2>1 DEF Acknowledged
    <2>4. Rejected'
      BY <2>1 DEF Booked, Rejected
    <2>5. DoneSettled' /\ WatermarkSafe'
      BY <2>1, SettledStays DEF Booked, DoneSettled, WatermarkSafe, Watermark
    <2> QED
      BY <2>2, <2>3, <2>4, <2>5 DEF Booked
  <1>3. CASE SettleAck \/ SettleComplete
    <2>1. /\ UNCHANGED <<rejectFile, damaged, logged, inFlight, work, results, db, pc, held, act>>
          /\ Complete(outcome.line) /\ cpc' = "get"
      BY <1>3 DEF SettleAck, SettleComplete, sinkVars
    <2>2. Placed'
      BY <2>1, NothingMoves DEF FedLine
    <2>3. Acknowledged'
      BY <2>1 DEF Acknowledged
    <2>4. Rejected'
      BY <2>1 DEF Booked, Rejected
    <2>5. outcome.line \in Lines \union {0}
      BY DEF OwnTypeOK, ConsumerTypeOK
    <2>6. outcome.line = 0 \/ Settled(outcome.line)
      BY <1>3 DEF SettleAck, SettleComplete, Acknowledged, Booked, Rejected, Settled
    <2>7. DoneSettled' /\ WatermarkSafe'
      BY <2>1, <2>5, <2>6, CompleteSafe DEF Booked, OwnTypeOK
    <2> QED
      BY <2>2, <2>3, <2>4, <2>7 DEF Booked
  <1>4. CASE SettleReject
    <2>1. /\ UNCHANGED <<next, outOfOrder, rejectFile, damaged, logged, inFlight>>
          /\ UNCHANGED <<work, results, db, pc, held, act, outcome>>
          /\ cpc' = IF outcome.body THEN "write" ELSE "complete"
      BY <1>4 DEF SettleReject, loadStateVars, resumeVars, sinkVars
    <2>2. Placed'
      BY <2>1, NothingMoves DEF FedLine
    <2>3. Acknowledged'
      BY <2>1 DEF Acknowledged
    <2>4. Rejected'
      BY <1>4, <2>1 DEF SettleReject, Booked, Rejected
    <2>5. DoneSettled' /\ WatermarkSafe'
      BY <2>1, SettledStays DEF Booked, DoneSettled, WatermarkSafe, Watermark
    <2> QED
      BY <2>2, <2>3, <2>4, <2>5 DEF Booked
  <1>5. CASE SettleWrite
    <2>1. /\ UNCHANGED <<next, outOfOrder, inFlight, work, results, db, pc, held, act, outcome>>
          /\ cpc' = "complete"
      BY <1>5 DEF SettleWrite, resumeVars
    <2>2. /\ outcome.line \in rejectFile' \union damaged' \union logged'
          /\ rejectFile \subseteq rejectFile' /\ damaged \subseteq damaged'
          /\ logged \subseteq logged'
      BY <1>5, RejectRecords DEF SettleWrite
    <2>3. Placed'
      BY <2>1, NothingMoves DEF FedLine
    <2>4. Acknowledged'
      BY <2>1 DEF Acknowledged
    <2>5. Rejected'
      BY <2>1, <2>2 DEF Booked, Rejected
    <2>6. DoneSettled' /\ WatermarkSafe'
      BY <2>1, <2>2, SettledStays DEF Booked, DoneSettled, WatermarkSafe, Watermark
    <2> QED
      BY <2>3, <2>4, <2>5, <2>6 DEF Booked
  <1>6. CASE SettleWriteHangs
    <2>1. /\ UNCHANGED <<next, outOfOrder, inFlight, work, results, db, pc, held, act, cpc, outcome>>
          /\ UNCHANGED <<rejectFile, damaged, logged>>
      BY <1>6 DEF SettleWriteHangs, resumeVars, sinkVars
    <2>2. Placed'
      BY <2>1, NothingMoves DEF FedLine
    <2>3. Acknowledged' /\ Rejected'
      BY <2>1 DEF Booked, Acknowledged, Rejected
    <2>4. DoneSettled' /\ WatermarkSafe'
      BY <2>1, SettledStays DEF Booked, DoneSettled, WatermarkSafe, Watermark
    <2> QED
      BY <2>2, <2>3, <2>4 DEF Booked
  <1> QED
    BY <1>1, <1>2, <1>3, <1>4, <1>5, <1>6 DEF ConsumerStep

-----------------------------------------------------------------------------
(* The whole process *)

IWatermark == IType /\ LinesTraced

\* LinesTraced is the conjunction of the parts the lemmas are about.
LEMMA TracedParts ==
    /\ LinesTraced <=> Placed /\ Acknowledged /\ Booked
    /\ Placed' /\ Acknowledged' /\ Booked' => LinesTraced'
  BY DEF LinesTraced, Placed, Booked

\* Nothing has happened to any line yet.
LEMMA InitTraced == Init => LinesTraced
  <1> SUFFICES ASSUME Init PROVE LinesTraced
    OBVIOUS
  <1>1. /\ work = NewChannel /\ results = NewChannel
        /\ pc = [w \in Workers |-> "top"]
        /\ held = [w \in Workers |-> Nothing]
        /\ act = [w \in Workers |-> "none"]
        /\ rpc = "read" /\ line_no = 0 /\ cpc = "get"
        /\ inFlight = {} /\ outOfOrder = {} /\ next = SkipLines + 1
    BY DEF Init, WorkerInit, ReaderInit, ConsumerInit, LoadStateInit
  <1>2. /\ work.q = <<>> /\ results.q = <<>>
        /\ \A w \in Workers : held[w].line = 0
    BY <1>1 DEF NewChannel, Nothing
  <1>3. /\ LinesOf(work.q) = {} /\ LinesOf(results.q) = {} /\ FedLine = {}
        /\ Distinct(work.q) /\ Distinct(results.q)
    BY <1>1, <1>2 DEF LinesOf, Distinct, FedLine
  <1>4. Separate /\ Tracked
    BY <1>1, <1>2, <1>3 DEF Separate, Tracked
  <1>5. Acknowledged
    BY <1>1, <1>2 DEF Acknowledged
  <1>6. Rejected /\ DoneSettled
    BY <1>1 DEF Rejected, DoneSettled
  <1>7. WatermarkSafe
    BY <1>1, LinesAssumption DEF WatermarkSafe, Watermark, Lines
  <1> QED
    BY <1>4, <1>5, <1>6, <1>7 DEF LinesTraced

\* Every step of the process keeps every line traced.
LEMMA NextTraced ==
    ASSUME IWatermark, [Next]_vars
    PROVE  LinesTraced'
  <1>0. /\ WorkerTypeOK(Lines) /\ OwnTypeOK
        /\ Placed /\ Acknowledged /\ Booked
    BY ITypeParts, TracedParts DEF IWatermark, SharedTypeOK
  <1>1. ASSUME NEW w \in Workers, Worker(w) PROVE LinesTraced'
    <2>1. /\ WorkerStep(w)
          /\ UNCHANGED <<file, rpc, line_no, inFlight, next, outOfOrder, rejectFile, damaged, logged>>
          /\ UNCHANGED consumerVars
      BY <1>1 DEF Worker, readerVars, loadStateVars, resumeVars, sinkVars
    <2>2. Placed' /\ Acknowledged' /\ db \subseteq db'
      BY <1>0, <2>1, WorkerStepPlaced, WorkerStepAcknowledged, OthersUntouched
    <2>3. Booked'
      BY <1>0, <2>1, <2>2, BooksUntouched
    <2> QED
      BY <2>2, <2>3, TracedParts
  <1>2. CASE Fetcher
    <2>1. /\ FetcherStep(load_complete)
          /\ UNCHANGED <<file, rpc, line_no, inFlight, next, outOfOrder, rejectFile, damaged, logged>>
          /\ UNCHANGED consumerVars
      BY <1>2 DEF Fetcher, readerVars, loadStateVars, resumeVars, sinkVars
    <2>2. Placed' /\ Acknowledged' /\ db' = db
      BY <1>0, <2>1, FetcherStepTraced
    <2>3. Booked'
      BY <1>0, <2>1, <2>2, BooksUntouched
    <2> QED
      BY <2>2, <2>3, TracedParts
  <1>3. CASE ReaderThread
    <2>1. ReaderStep /\ UNCHANGED consumerVars
      BY <1>3 DEF ReaderThread
    <2>2. Placed'
      BY <1>0, <2>1, ReaderStepPlaced
    <2>3. UNCHANGED <<results, pc, act, held, db>>
      BY <2>1
      DEF ReaderStep, ReadStop, ReadLine, ReaderReject, ReaderWrite, ReaderWriteHangs,
          ReaderComplete, ReaderPutCheck, ReaderEnqueue, ReaderGiveUp, ReaderClose,
          ReaderFinish, otherThanReader, workerVars, engineVars, channels
    <2>4. Acknowledged'
      BY <1>0, <2>1, <2>3, NothingAcknowledged
    <2>5. Booked'
      BY <1>0, <2>1, ReaderStepBooked
    <2> QED
      BY <2>2, <2>4, <2>5, TracedParts
  <1>4. CASE Consumer
    BY <1>0, <1>4, ConsumerStepTraced, TracedParts DEF Consumer
  <1>5. CASE MainStep \/ Signal \/ UNCHANGED vars
    <2>1. /\ work' = work \/ work' = Closed(work)
          /\ results' = results \/ results' = Closed(results)
          /\ UNCHANGED <<pc, held, act, db, file, rpc, line_no, consumerVars>>
          /\ UNCHANGED <<inFlight, next, outOfOrder, rejectFile, damaged, logged>>
      BY <1>5
      DEF MainStep, TickDue, TickAsks, TickEnds, StopMonitoring, CloseWork, JoinWorkers,
          CloseJobs, JoinAux, CloseResults, JoinConsumer, Finish, FinishFails, Teardown,
          MainGoto, Signal, vars, othersVars, workerVars, readerVars, loadStateVars,
          resumeVars, sinkVars, engineVars, channels
    <2>2. work'.q = work.q /\ results'.q = results.q
      BY <1>0, <2>1, ClosedType DEF WorkerTypeOK
    <2>3. Placed'
      BY <1>0, <2>1, <2>2, NothingMoves DEF FedLine
    <2>4. Acknowledged' /\ Booked'
      BY <1>0, <2>1, <2>2, NothingAcknowledged, BooksUntouched
    <2> QED
      BY <2>3, <2>4, TracedParts
  <1> QED
    BY <1>1, <1>2, <1>3, <1>4, <1>5 DEF Next, Exited

\* A line is in one place at a time and in flight while it is, and its outcome
\* says what became of it, in every behaviour (LoadState, Worker, ResultConsumer).
THEOREM LinesAreTraced == Spec => []LinesTraced
  <1>1. Init => IWatermark
    BY InitType, InitTraced DEF IWatermark
  <1>2. IWatermark /\ [Next]_vars => IWatermark'
    BY NextType, NextTraced DEF IWatermark
  <1>3. IWatermark => LinesTraced
    BY DEF IWatermark
  <1> QED
    BY <1>1, <1>2, <1>3, PTL DEF Spec

\* So the watermark is safe in every behaviour: whatever the pool, the file,
\* the order of outcomes, the failures, the shutdown and the threads it leaves
\* behind, every line up to it is blank, loaded, or rejected with its body on
\* record or damaged by a short write.
THEOREM WatermarkIsSafe == Spec => []WatermarkSafe
  <1>1. LinesTraced => WatermarkSafe
    BY DEF LinesTraced
  <1> QED
    BY <1>1, LinesAreTraced, PTL

-----------------------------------------------------------------------------
(* What is in flight *)

\* Every line in flight is somewhere.
Covered == inFlight \subseteq Dispatched

\* A worker between two items holds no line, and one that reports a rejected
\* line holds it.
AtWork(w) ==
    /\ pc[w] \in {"top", "get", "probe1", "probe2", "settle"} => held[w].line = 0
    /\ pc[w] = "fatal" => act[w] \in {"FATAL", "DIED"}
    /\ pc[w] \in {"put", "enq"} => act[w] # "none"
    /\ pc[w] \in {"put", "enq"} /\ act[w] = "REJECT" => held[w].line # 0

\* A rejected line is one of the file, and its body is found.
BodyFound ==
    /\ \A i \in DOMAIN results.q : results.q[i].kind = "REJECT" => results.q[i].line # 0
    /\ outcome.kind = "REJECT" => outcome.body

\* The results channel stays open until the workers were joined.
OpenUntilJoined ==
    /\ results.closed => mpc \in {"joinConsumer", "finish", "teardown", "exited"}
    /\ Monitoring \/ mpc \in {"closeWork", "joinWorkers"} => workersClean

\* The worker that moves is at work as before.
LEMMA AtWorkStays ==
    ASSUME WorkerTypeOK(Lines), NEW w \in Workers, AtWork(w), WorkerStep(w)
    PROVE  AtWork(w)'
  <1> USE DEF WorkerTypeOK, Goto, Become, AtWork, RedoJob, Nothing
  <1>1. CASE LoadStep(w)
    BY <1>1 DEF LoadStep, LoopTop, GetLoad, GetNothing, AddRecord, TakeLoad, TakeFrom, Lines
  <1>2. CASE RedoStep(w)
    BY <1>2, FileLoaderAssumption
    DEF RedoStep, DrainRedo, DrainMiss, DrainEnd, ProcessRedo, SettleRedo, TakeRedo,
        TakeFrom, BackToTop
  <1>3. CASE MixedStep(w)
    BY <1>3 DEF MixedStep, PollHit, PollMiss, TakeLoad, TakeRedo, TakeFrom
  <1>4. CASE ReportStep(w)
    <2>1. CASE WorkerFatal(w)
      BY <1>4, <2>1, FileLoaderAssumption DEF WorkerFatal
    <2>2. CASE AfterPut(w)
      BY <1>4, <2>2 DEF AfterPut, BackToTop
    <2>3. CASE Goto(w, "enq") /\ pc[w] = "put" /\ UNCHANGED <<held, act>>
      BY <2>3
    <2> QED
      BY <1>4, <2>1, <2>2, <2>3 DEF ReportStep, PutCheck, PutEnqueue, PutFull
  <1> QED
    BY <1>1, <1>2, <1>3, <1>4 DEF WorkerStep

\* A worker step loses sight of no line in flight while results is open.
LEMMA WorkerStepCovered ==
    ASSUME WorkerTypeOK(Lines), Placed, Covered, NEW w \in Workers, AtWork(w),
           WorkerStep(w), ~results.closed, UNCHANGED <<rpc, line_no, inFlight>>
    PROVE  Covered'
  <1>0. FedLine' = FedLine /\ 0 \notin inFlight
    BY DEF FedLine, Placed, Tracked
  <1>1. \A v \in Workers \ {w} : held'[v] = held[v]
    BY OthersUntouched
  <1>2. ASSUME LinesOf(work.q) \subseteq LinesOf(work'.q) \union HeldLines',
               LinesOf(results.q) \subseteq LinesOf(results'.q),
               held[w].line \in {0, held'[w].line} \union LinesOf(results'.q)
        PROVE  Covered'
    BY <1>0, <1>1, <1>2 DEF Covered, Dispatched, HeldLines
  <1> USE DEF channels
  <1>3. CASE \/ LoopTop(w) \/ GetNothing(w) \/ AddRecord(w) \/ DrainMiss(w)
             \/ DrainEnd(w) \/ ProcessRedo(w) \/ PollMiss(w) \/ WorkerFatal(w)
    <2>1. UNCHANGED <<channels, held>>
      BY <1>3 DEF LoopTop, GetNothing, AddRecord, DrainMiss, DrainEnd, ProcessRedo,
                  PollMiss, WorkerFatal
    <2> QED
      BY <1>2, <2>1
  <1>4. CASE /\ TakeLoad(w) /\ UNCHANGED results
             /\ pc[w] \in {"top", "get", "probe1", "probe2"}
    <2>1. work \in Channel(LoadItems(Lines)) /\ HasItem(work)
      BY <1>4 DEF WorkerTypeOK, LoadItems, TakeLoad
    <2>2. /\ work.q \in Seq(LoadItems(Lines)) /\ work.q # <<>>
          /\ work'.q = Tail(work.q)
      BY <1>4, <2>1, DequeuedType DEF TakeLoad, Channel, HasItem
    <2>3. held'[w] = Head(work.q) /\ held[w].line = 0
      BY <1>4 DEF TakeLoad, TakeFrom, WorkerTypeOK, AtWork
    <2>4. Distinct(work.q)
      BY DEF Placed, Separate
    <2>5. LinesOf(work'.q) = LinesOf(work.q) \ {held'[w].line}
      BY <2>2, <2>3, <2>4, LinesDequeued
    <2>6. 0 \notin LinesOf(work.q)
      BY DEF LinesOf
    <2>7. LinesOf(work.q) \subseteq LinesOf(work'.q) \union HeldLines'
      BY <2>5, <2>6 DEF HeldLines
    <2> QED
      BY <1>2, <1>4, <2>3, <2>7
  <1>5. CASE /\ \/ TakeRedo(w) /\ pc[w] \in {"top", "get", "probe1", "probe2"}
                \/ SettleRedo(w)
             /\ UNCHANGED <<work, results>>
    <2>1. held[w].line = 0
      BY <1>5 DEF SettleRedo, AtWork
    <2> QED
      BY <1>2, <1>5, <2>1
  <1>6. CASE PutCheck(w) \/ PutFull(w)
    <2>1. UNCHANGED <<channels, held>>
      BY <1>6 DEF PutCheck, PutFull, PutStops
    <2> QED
      BY <1>2, <2>1
  <1>7. CASE PutEnqueue(w)
    <2> DEFINE o == Report(w)
    <2>1. results \in Channel(Outcomes(Lines)) /\ o \in Outcomes(Lines)
      BY ReportType DEF WorkerTypeOK, Outcomes
    <2>2. results.q \in Seq(Outcomes(Lines)) /\ results'.q = Append(results.q, o)
      <3>1. results' = Enqueued(results, o)
        BY <1>7 DEF PutEnqueue
      <3> QED
        BY <2>1, <3>1, EnqueuedType DEF Channel
    <2>3. held' = held \/ o.line = held[w].line
      <3>1. pc[w] = "enq" /\ AfterPut(w)
        BY <1>7 DEF PutEnqueue
      <3> QED
        BY <3>1 DEF AfterPut, AtWork, Report, Outcome, WorkerTypeOK
    <2> HIDE DEF o
    <2>4. \A i \in DOMAIN results.q : i \in DOMAIN results'.q /\ results'.q[i] = results.q[i]
      BY <2>1, <2>2, AppendElements
    <2>5. Len(results.q) + 1 \in DOMAIN results'.q /\ results'.q[Len(results.q) + 1] = o
      BY <2>1, <2>2, AppendElements
    <2>6. LinesOf(results.q) \subseteq LinesOf(results'.q)
      BY <2>4 DEF LinesOf
    <2>7. o.line \in LinesOf(results'.q) \union {0}
      BY <2>5 DEF LinesOf
    <2>8. UNCHANGED work
      BY <1>7 DEF PutEnqueue
    <2> QED
      BY <1>2, <2>3, <2>6, <2>7, <2>8
  <1> QED
    BY <1>3, <1>4, <1>5, <1>6, <1>7
    DEF WorkerStep, LoadStep, RedoStep, MixedStep, ReportStep, GetLoad, DrainRedo,
        PollHit, SettleRedo, TakeRedo

\* What is put on results is a rejected line only with its line.
LEMMA PutBodyFound ==
    ASSUME BodyFound, NEW o \in Outcomes(Lines), o.kind = "REJECT" => o.line # 0,
           results.q \in Seq(Outcomes(Lines)), results'.q = Append(results.q, o),
           UNCHANGED outcome
    PROVE  BodyFound'
  <1>1. \A i \in DOMAIN results'.q :
           (i \in DOMAIN results.q /\ results'.q[i] = results.q[i]) \/ results'.q[i] = o
    BY AppendElements
  <1> QED
    BY <1>1 DEF BodyFound

\* A reader step loses sight of no line in flight.
LEMMA ReaderStepCovered ==
    ASSUME WorkerTypeOK(Lines), OwnTypeOK, Placed, Covered, ReaderStep
    PROVE  Covered'
  <1> USE DEF otherThanReader, workerVars, channels
  <1>1. UNCHANGED <<held, results>>
    BY DEF ReaderStep, ReadStop, ReadLine, ReaderReject, ReaderWrite, ReaderWriteHangs,
           ReaderComplete, ReaderPutCheck, ReaderEnqueue, ReaderGiveUp, ReaderClose,
           ReaderFinish
  <1>2. HeldLines' = HeldLines /\ LinesOf(results.q)' = LinesOf(results.q)
    BY <1>1 DEF HeldLines, LinesOf
  <1>3. ASSUME LinesOf(work.q) \subseteq LinesOf(work.q)',
               FedLine \intersect inFlight' \subseteq FedLine' \union LinesOf(work.q)',
               inFlight' \subseteq inFlight \union FedLine'
        PROVE  Covered'
    BY <1>2, <1>3 DEF Covered, Dispatched
  <1>4. CASE \/ ReadStop \/ ReaderReject \/ ReaderWrite \/ ReaderWriteHangs \/ ReaderComplete
             \/ ReaderPutCheck \/ ReaderClose \/ ReaderFinish
    <2>1. UNCHANGED inFlight /\ (work' = work \/ work' = Closed(work))
      BY <1>4 DEF ReadStop, ReaderReject, ReaderWrite, ReaderWriteHangs, ReaderComplete,
                  ReaderPutCheck, ReaderClose, ReaderFinish, loadStateVars
    <2>2. FedLine' = FedLine
      BY <1>4 DEF FedLine, ReadStop, ReaderReject, ReaderWrite, ReaderWriteHangs,
                  ReaderComplete, ReaderPutCheck, ReaderClose, ReaderFinish
    <2>3. work'.q = work.q
      BY <2>1, ClosedType DEF WorkerTypeOK
    <2> QED
      BY <1>3, <2>1, <2>2, <2>3 DEF LinesOf
  <1>5. CASE ReadLine
    <2>1. FedLine = {} /\ UNCHANGED work
      BY <1>5 DEF ReadLine, FedLine
    <2>2. inFlight' \subseteq inFlight \union FedLine'
      <3>1. CASE line_no + 1 <= SkipLines
        BY <1>5, <3>1 DEF ReadLine
      <3>2. CASE ~ (line_no + 1 <= SkipLines)
        <4>1. Feed(line_no + 1) /\ line_no' = line_no + 1
          BY <1>5, <3>2 DEF ReadLine
        <4> QED
          BY <4>1 DEF Feed, FedLine
      <3> QED
        BY <3>1, <3>2
    <2> QED
      BY <1>3, <2>1, <2>2 DEF LinesOf
  <1>6. CASE ReaderEnqueue
    <2> DEFINE x == LoadItem(line_no)
    <2>1. /\ line_no \in Lines /\ FedLine = {line_no}
          /\ work' = Enqueued(work, x) /\ UNCHANGED inFlight
      BY <1>6 DEF ReaderEnqueue, FedLine, OwnTypeOK, LinesInHand, loadStateVars
    <2>2. work \in Channel(LoadItems(Lines)) /\ x \in LoadItems(Lines)
      BY <2>1 DEF WorkerTypeOK, LoadItems, LoadItem
    <2>3. work.q \in Seq(LoadItems(Lines)) /\ work'.q = Append(work.q, x)
      BY <2>1, <2>2, EnqueuedType DEF Channel
    <2>4. x.line = line_no /\ line_no # 0
      BY <2>1 DEF LoadItem, Lines
    <2>5. x.line \notin LinesOf(work.q) /\ Distinct(work.q)
      BY <2>1, <2>4 DEF Placed, Separate
    <2> HIDE DEF x
    <2>6. LinesOf(work'.q) = LinesOf(work.q) \union {line_no}
      BY <2>2, <2>3, <2>4, <2>5, LinesAppended
    <2> QED
      BY <1>3, <2>1, <2>6 DEF LinesOf
  <1>7. CASE ReaderGiveUp
    <2>1. FedLine = {line_no} /\ inFlight' = inFlight \ {line_no} /\ UNCHANGED work
      BY <1>7 DEF ReaderGiveUp, PutFails, Withdraw, FedLine
    <2> QED
      BY <1>3, <2>1 DEF LinesOf
  <1> QED
    BY <1>4, <1>5, <1>6, <1>7 DEF ReaderStep

\* A consumer step keeps lines placed, loses sight of none in flight, and finds
\* the body of a rejected one.
LEMMA ConsumerStepCovered ==
    ASSUME WorkerTypeOK(Lines), Placed, BodyFound, ConsumerStep, UNCHANGED readerVars
    PROVE  Placed' /\ (Covered => Covered') /\ BodyFound'
  <1> USE DEF otherThanConsumer, workerVars, readerVars, channels
  <1>1. CASE ConsumerGet
    <2> DEFINE o == Head(results.q)
    <2>1. results \in Channel(Outcomes(Lines)) /\ HasItem(results)
      BY <1>1 DEF ConsumerGet, WorkerTypeOK, Outcomes
    <2>2. /\ results.q \in Seq(Outcomes(Lines)) /\ results.q # <<>>
          /\ results' = Dequeued(results)
      BY <1>1, <2>1 DEF ConsumerGet, Channel, HasItem
    <2>3. results'.q = Tail(results.q)
      BY <2>1, <2>2, DequeuedType
    <2>4. /\ outcome' = [line |-> o.line, kind |-> o.kind, body |-> o.line \in inFlight]
          /\ inFlight' = inFlight \ {o.line}
          /\ UNCHANGED <<work, held, rpc, line_no>>
      BY <1>1 DEF ConsumerGet, PopBody
    <2>5. Placed'
      BY <2>2, <2>3, <2>4, OutcomeTaken
    <2>6. o = results.q[1] /\ 1 \in DOMAIN results.q
      BY <2>2, TailElements
    <2>7. \A i \in DOMAIN results'.q :
             i + 1 \in DOMAIN results.q /\ results'.q[i] = results.q[i + 1]
      BY <2>2, <2>3, TailElements
    <2>8. LinesOf(results'.q) = LinesOf(results.q) \ {o.line}
      <3>1. Distinct(results.q)
        BY DEF Placed, Separate
      <3> QED
        BY <2>2, <2>3, <3>1, LinesDequeued
    <2> HIDE DEF o
    <2>9. Covered => Covered'
      <3>1. FedLine' = FedLine /\ HeldLines' = HeldLines
            /\ LinesOf(work.q)' = LinesOf(work.q)
            /\ LinesOf(results.q)' = LinesOf(results'.q)
        BY <2>4 DEF FedLine, HeldLines, LinesOf
      <3> QED
        BY <2>4, <2>8, <3>1 DEF Covered, Dispatched
    <2>10. o.kind = "REJECT" => o.line \in inFlight
      BY <2>6 DEF BodyFound, Placed, Tracked, LinesOf
    <2>11. BodyFound'
      BY <2>4, <2>7, <2>10 DEF BodyFound
    <2> QED
      BY <2>5, <2>9, <2>11
  <1>2. CASE ~ConsumerGet
    <2>1. /\ UNCHANGED <<inFlight, work, results, held, rpc, line_no>>
          /\ outcome' \in {outcome, NoOutcome}
      BY <1>2
      DEF ConsumerStep, ConsumerClosed, SettleAck, SettleFails, SettleReject,
          SettleWrite, SettleWriteHangs, SettleComplete, SettleFatal, loadStateVars
    <2>2. Placed'
      BY <2>1, NothingMoves DEF FedLine
    <2>3. Covered => Covered'
      BY <2>1 DEF Covered, Dispatched, FedLine, HeldLines, LinesOf
    <2>4. BodyFound'
      BY <2>1 DEF BodyFound, NoOutcome
    <2> QED
      BY <2>2, <2>3, <2>4
  <1> QED
    BY <1>1, <1>2

\* Nor does the fetcher, which puts signals only.
LEMMA FetcherStepCovered ==
    ASSUME WorkerTypeOK(Lines), BodyFound, NEW complete, FetcherStep(complete),
           UNCHANGED <<rpc, line_no, inFlight, consumerVars>>
    PROVE  (Covered => Covered') /\ BodyFound'
  <1> DEFINE o == Outcome(0, "FATAL")
  <1>1. UNCHANGED <<work, held, outcome>> /\ o.kind # "REJECT"
    BY FetcherPuts DEF consumerVars, Outcome
  <1>2. CASE UNCHANGED results
    BY <1>1, <1>2 DEF Covered, Dispatched, FedLine, HeldLines, LinesOf, BodyFound
  <1>3. CASE /\ results.q \in Seq(Outcomes(Lines)) /\ o \in Outcomes(Lines)
             /\ results'.q = Append(results.q, o)
    <2> HIDE DEF o
    <2>1. \A i \in DOMAIN results.q : i \in DOMAIN results'.q /\ results'.q[i] = results.q[i]
      BY <1>3, AppendElements
    <2>2. LinesOf(results.q) \subseteq LinesOf(results'.q)
      BY <2>1 DEF LinesOf
    <2> QED
      BY <1>1, <1>3, <2>2, PutBodyFound
      DEF Covered, Dispatched, FedLine, HeldLines, LinesOf
  <1> QED
    BY <1>2, <1>3, FetcherPuts

IFlight ==
    /\ IType /\ JoinTrusted /\ Placed /\ OpenUntilJoined /\ BodyFound
    /\ \A w \in Workers : AtWork(w)
    /\ workersClean => Covered

\* Nothing is in flight yet.
LEMMA InitFlight == Init => IFlight
  <1> SUFFICES ASSUME Init PROVE IFlight
    OBVIOUS
  <1>1. IType /\ JoinTrusted /\ Placed
    BY InitType, InitJoinTrusted, InitTraced DEF LinesTraced, Placed
  <1>2. OpenUntilJoined
    BY DEF Init, MainInit, WorkerInit, NewChannel, OpenUntilJoined, Monitoring
  <1>3. results.q = <<>> /\ outcome = NoOutcome
    BY DEF Init, WorkerInit, NewChannel, ConsumerInit
  <1>4. BodyFound
    BY <1>3 DEF BodyFound, NoOutcome
  <1>5. \A w \in Workers : AtWork(w)
    BY DEF Init, WorkerInit, AtWork, Nothing
  <1>6. Covered
    BY DEF Init, LoadStateInit, Covered
  <1> QED
    BY <1>1, <1>2, <1>4, <1>5, <1>6 DEF IFlight

\* Every step of the process keeps track of what is in flight.
LEMMA NextFlight == IFlight /\ [Next]_vars => IFlight'
  <1> SUFFICES ASSUME IFlight, [Next]_vars
               PROVE  /\ Placed' /\ OpenUntilJoined' /\ BodyFound'
                      /\ \A w \in Workers : AtWork(w)'
                      /\ workersClean' => Covered'
    BY NextType, NextJoinTrusted DEF IFlight
  <1>0. /\ WorkerTypeOK(Lines) /\ OwnTypeOK /\ JoinTrusted
        /\ Placed /\ OpenUntilJoined /\ BodyFound
        /\ \A w \in Workers : AtWork(w)
        /\ workersClean => Covered
    BY ITypeParts DEF IFlight, SharedTypeOK
  <1> USE DEF AtWork
  <1>1. ASSUME NEW w \in Workers, Worker(w)
        PROVE  /\ Placed' /\ OpenUntilJoined' /\ BodyFound'
               /\ \A v \in Workers : AtWork(v)'
               /\ workersClean' => Covered'
    <2>1. /\ WorkerStep(w)
          /\ UNCHANGED <<rpc, line_no, inFlight, mpc, workersClean, outcome>>
      BY <1>1 DEF Worker, readerVars, loadStateVars, mainVars, consumerVars
    <2>2. /\ pc[w] # "done"
          /\ UNCHANGED results
             \/ (pc[w] = "enq" /\ results' = Enqueued(results, Report(w)))
      BY <2>1
      DEF WorkerStep, LoadStep, LoopTop, GetLoad, GetNothing, AddRecord, RedoStep,
          DrainRedo, DrainMiss, DrainEnd, ProcessRedo, SettleRedo, MixedStep, PollHit,
          PollMiss, ReportStep, WorkerFatal, PutCheck, PutEnqueue, PutFull, channels
    <2>3. Placed'
      BY <1>0, <2>1, WorkerStepPlaced
    <2>4. BodyFound' /\ results'.closed = results.closed
      <3>1. CASE UNCHANGED results
        BY <1>0, <2>1, <3>1 DEF BodyFound
      <3>2. CASE pc[w] = "enq" /\ results' = Enqueued(results, Report(w))
        <4>1. results \in Channel(Outcomes(Lines)) /\ Report(w) \in Outcomes(Lines)
          BY <1>0, ReportType DEF WorkerTypeOK, Outcomes
        <4>2. Report(w).kind = "REJECT" => Report(w).line # 0
          BY <1>0, <3>2 DEF Report, Outcome
        <4>3. /\ results.q \in Seq(Outcomes(Lines))
              /\ results'.q = Append(results.q, Report(w))
              /\ results'.closed = results.closed
          <5> DEFINE o == Report(w)
          <5>1. results' = Enqueued(results, o) /\ results \in Channel(Outcomes(Lines))
            BY <3>2, <4>1
          <5>2. results.q \in Seq(Outcomes(Lines)) /\ o \in Outcomes(Lines)
            BY <4>1 DEF Channel
          <5> HIDE DEF o
          <5>3. results'.q = Append(results.q, o) /\ results'.closed = results.closed
            BY <5>1, <5>2, EnqueuedType
          <5> QED
            BY <5>2, <5>3 DEF o
        <4> QED
          BY <1>0, <2>1, <4>1, <4>2, <4>3, PutBodyFound
      <3> QED
        BY <2>2, <3>1, <3>2
    <2>5. OpenUntilJoined'
      BY <1>0, <2>1, <2>4 DEF OpenUntilJoined, Monitoring
    <2>6. \A v \in Workers : AtWork(v)'
      BY <1>0, <2>1, AtWorkStays, OthersUntouched
    <2>7. workersClean' => Covered'
      <3> SUFFICES ASSUME workersClean PROVE Covered'
        BY <2>1
      <3>1. ~results.closed
        BY <1>0, <2>2 DEF OpenUntilJoined, Monitoring, JoinTrusted, WorkersDone
      <3> QED
        BY <1>0, <2>1, <3>1, WorkerStepCovered
    <2> QED
      BY <2>3, <2>4, <2>5, <2>6, <2>7
  <1>2. CASE Fetcher
    <2>1. /\ FetcherStep(load_complete)
          /\ UNCHANGED <<rpc, line_no, inFlight, consumerVars, mpc, workersClean>>
      BY <1>2 DEF Fetcher, readerVars, loadStateVars, mainVars
    <2>2. /\ UNCHANGED <<pc, held, act>> /\ results'.closed = results.closed
      <3>1. UNCHANGED <<pc, held, act>>
        BY <1>0, <2>1, FetcherPuts
      <3>2. UNCHANGED results \/ results' = Enqueued(results, Outcome(0, "FATAL"))
        BY <2>1
        DEF FetcherStep, FetchTop, FetchRecord, FetchEmpty, FetchError, FetchQuiet,
            FetchDrained, FetchGiveUp, FetchPutCheck, FetchEnqueue, FetchFatal,
            FetchReport, FetchClose, channels
      <3>3. results \in Channel(Outcomes(Lines)) /\ Outcome(0, "FATAL") \in Outcomes(Lines)
        BY <1>0 DEF WorkerTypeOK, Outcomes, Outcome
      <3> QED
        BY <3>1, <3>2, <3>3, EnqueuedType
    <2>3. Placed' /\ BodyFound' /\ (Covered => Covered')
      BY <1>0, <2>1, FetcherStepPlaced, FetcherStepCovered
    <2> QED
      BY <1>0, <2>1, <2>2, <2>3 DEF OpenUntilJoined, Monitoring
  <1>3. CASE ReaderThread
    <2>1. ReaderStep /\ UNCHANGED <<consumerVars, mpc, workersClean>>
      BY <1>3 DEF ReaderThread, mainVars
    <2>2. UNCHANGED <<results, pc, act, held>>
      BY <2>1
      DEF ReaderStep, ReadStop, ReadLine, ReaderReject, ReaderWrite, ReaderWriteHangs,
          ReaderComplete, ReaderPutCheck, ReaderEnqueue, ReaderGiveUp, ReaderClose,
          ReaderFinish, otherThanReader, workerVars, channels
    <2>3. Placed' /\ (Covered => Covered')
      BY <1>0, <2>1, ReaderStepPlaced, ReaderStepCovered
    <2> QED
      BY <1>0, <2>1, <2>2, <2>3 DEF OpenUntilJoined, Monitoring, BodyFound, consumerVars
  <1>4. CASE Consumer
    <2>1. ConsumerStep /\ UNCHANGED <<readerVars, mpc, workersClean>>
      BY <1>4 DEF Consumer, mainVars
    <2>2. /\ UNCHANGED <<pc, act, held>>
          /\ UNCHANGED results \/ (HasItem(results) /\ results' = Dequeued(results))
      BY <2>1
      DEF ConsumerStep, ConsumerGet, ConsumerClosed, SettleAck, SettleFails,
          SettleReject, SettleWrite, SettleWriteHangs, SettleComplete, SettleFatal,
          otherThanConsumer, workerVars, channels
    <2>3. results'.closed = results.closed
      BY <1>0, <2>2, DequeuedType DEF WorkerTypeOK
    <2>4. Placed' /\ BodyFound' /\ (Covered => Covered')
      BY <1>0, <2>1, ConsumerStepCovered
    <2> QED
      BY <1>0, <2>1, <2>2, <2>3, <2>4 DEF OpenUntilJoined, Monitoring
  <1>5. CASE MainStep \/ Signal \/ UNCHANGED vars
    <2>1. /\ work' = work \/ work' = Closed(work)
          /\ UNCHANGED <<pc, held, act, rpc, line_no, inFlight, outcome>>
      BY <1>5
      DEF MainStep, TickDue, TickAsks, TickEnds, StopMonitoring, CloseWork, JoinWorkers,
          CloseJobs, JoinAux, CloseResults, JoinConsumer, Finish, FinishFails, Teardown,
          MainGoto, Signal, vars, othersVars, workerVars, readerVars, loadStateVars,
          consumerVars, channels
    <2>2. /\ \/ UNCHANGED results
             \/ results' = Closed(results) /\ mpc' = "joinConsumer"
          /\ workersClean' => workersClean \/ mpc = "joinWorkers"
      BY <1>5
      DEF MainStep, TickDue, TickAsks, TickEnds, StopMonitoring, CloseWork, JoinWorkers,
          CloseJobs, JoinAux, CloseResults, JoinConsumer, Finish, FinishFails, Teardown,
          MainGoto, Signal, vars, mainVars, channels
    <2>3. work'.q = work.q /\ results'.q = results.q
      BY <1>0, <2>1, <2>2, ClosedType DEF WorkerTypeOK
    <2>4. Placed'
      BY <1>0, <2>1, <2>3, NothingMoves DEF FedLine
    <2>5. Covered => Covered'
      BY <2>1, <2>3 DEF Covered, Dispatched, FedLine, HeldLines, LinesOf
    <2>6. BodyFound' /\ \A w \in Workers : AtWork(w)'
      BY <1>0, <2>1, <2>3 DEF BodyFound
    <2>7. OpenUntilJoined'
      BY <1>0, <1>5, <2>2
      DEF MainStep, TickDue, TickAsks, TickEnds, StopMonitoring, CloseWork, JoinWorkers,
          CloseJobs, JoinAux, CloseResults, JoinConsumer, Finish, FinishFails, Teardown,
          MainGoto, Signal, vars, mainVars, channels, OpenUntilJoined, Monitoring
    <2>8. workersClean' => Covered'
      BY <1>0, <2>2, <2>5 DEF OpenUntilJoined, Monitoring
    <2> QED
      BY <2>4, <2>6, <2>7, <2>8
  <1> QED
    BY <1>1, <1>2, <1>3, <1>4, <1>5 DEF Next, Exited

\* Two sets that a function matches one to one are of one size.
LEMMA SameSize ==
    ASSUME NEW S, NEW T, IsFiniteSet(S), NEW f \in [S -> T],
           \A a, b \in S : f[a] = f[b] => a = b,
           \A t \in T : \E a \in S : f[a] = t
    PROVE  IsFiniteSet(T) /\ Cardinality(T) = Cardinality(S)
  <1>1. f \in Bijection(S, T)
    BY Fun_IsBij
  <1>2. ExistsBijection(S, T)
    BY <1>1, Fun_ExistsBij
  <1> QED
    BY <1>2, FS_Bijection

\* As many lines are in a queue as there are items with one.
LEMMA QueueSize ==
    ASSUME NEW S, NEW q \in Seq(S), Distinct(q)
    PROVE  /\ IsFiniteSet(LinesOf(q))
           /\ Cardinality(LinesOf(q)) = Cardinality({i \in DOMAIN q : q[i].line # 0})
           /\ (\A i \in DOMAIN q : q[i].line # 0) => Cardinality(LinesOf(q)) = Len(q)
  <1> DEFINE I == {i \in DOMAIN q : q[i].line # 0}
             f == [i \in I |-> q[i].line]
  <1>1. DOMAIN q = 1..Len(q) /\ Len(q) \in Nat
    OBVIOUS
  <1>2. IsFiniteSet(DOMAIN q) /\ Cardinality(DOMAIN q) = Len(q)
    BY <1>1, FS_Interval
  <1>3. IsFiniteSet(I)
    BY <1>2, FS_Subset
  <1>4. f \in [I -> LinesOf(q)]
    BY DEF LinesOf
  <1>5. \A a, b \in I : f[a] = f[b] => a = b
    BY DEF Distinct
  <1>6. \A t \in LinesOf(q) : \E a \in I : f[a] = t
    BY DEF LinesOf
  <1>7. IsFiniteSet(LinesOf(q)) /\ Cardinality(LinesOf(q)) = Cardinality(I)
    <2> HIDE DEF f, I
    <2> QED
      BY <1>3, <1>4, <1>5, <1>6, SameSize
  <1>8. (\A i \in DOMAIN q : q[i].line # 0) => I = DOMAIN q
    OBVIOUS
  <1> QED
    BY <1>2, <1>7, <1>8

\* As many lines are with the workers as workers have one.
LEMMA HeldSize ==
    ASSUME WorkerTypeOK(Lines), Separate
    PROVE  /\ IsFiniteSet(HeldLines)
           /\ Cardinality(HeldLines) = Cardinality({w \in Workers : held[w].side = "load"})
  <1> DEFINE W == {w \in Workers : held[w].side = "load"}
             f == [w \in W |-> held[w].line]
  <1>1. IsFiniteSet(W)
    BY WorkersAssumption, FS_Subset
  <1>2. \A w \in Workers : held[w].side = "load" <=> held[w].line # 0
    BY DEF WorkerTypeOK, RedoJob, Nothing, Lines
  <1>3. f \in [W -> HeldLines]
    BY <1>2 DEF HeldLines
  <1>4. \A a, b \in W : f[a] = f[b] => a = b
    BY <1>2 DEF Separate
  <1>5. \A t \in HeldLines : \E a \in W : f[a] = t
    BY <1>2 DEF HeldLines
  <1> HIDE DEF f, W
  <1>6. IsFiniteSet(HeldLines) /\ Cardinality(HeldLines) = Cardinality(W)
    BY <1>1, <1>3, <1>4, <1>5, SameSize
  <1> QED
    BY <1>6 DEF W

\* Two finite sets with nothing in common add up.
LEMMA DisjointSize ==
    ASSUME NEW S, NEW T, IsFiniteSet(S), IsFiniteSet(T), S \intersect T = {}
    PROVE  /\ IsFiniteSet(S \union T)
           /\ Cardinality(S \union T) = Cardinality(S) + Cardinality(T)
           /\ Cardinality(S) \in Nat /\ Cardinality(T) \in Nat
  <1>1. Cardinality(S) \in Nat /\ Cardinality(T) \in Nat
    BY FS_CardinalityType
  <1> QED
    BY <1>1, FS_Union, FS_EmptySet

\* What is in flight is what is on its way, and in one place only, as long as
\* the workers are waited for: a join cut short is the only thing that leaves a
\* line in flight that nobody has.
THEOREM InFlightIsExact == Spec => []InFlightExact
  <1>1. IFlight => InFlightExact
    <2> SUFFICES ASSUME IFlight, workersClean PROVE InFlightExact
      BY DEF InFlightExact
    <2>0. /\ WorkerTypeOK(Lines) /\ Separate /\ Tracked /\ Covered /\ BodyFound
      BY ITypeParts DEF IFlight, Placed, SharedTypeOK
    <2>1. inFlight = Dispatched
      BY <2>0 DEF Tracked, Covered, Dispatched, HeldLines
    <2> DEFINE waiting == LinesOf(work.q)
               reported == LinesOf(results.q)
    <2>2. /\ work.q \in Seq(LoadItems(Lines)) /\ results.q \in Seq(Outcomes(Lines))
          /\ \A j \in DOMAIN work.q : work.q[j].line # 0
      <3>1. work.q \in Seq(LoadItems(Lines)) /\ results.q \in Seq(Outcomes(Lines))
        BY <2>0 DEF WorkerTypeOK, Channel, LoadItems, Outcomes
      <3>2. \A j \in DOMAIN work.q : work.q[j] \in LoadItems(Lines)
        BY <3>1
      <3> QED
        BY <3>1, <3>2 DEF LoadItems, Lines
    <2>3. /\ IsFiniteSet(waiting) /\ Cardinality(waiting) = Len(work.q)
          /\ IsFiniteSet(reported)
          /\ Cardinality(reported) =
                Cardinality({j \in DOMAIN results.q : results.q[j].line # 0})
      BY <2>0, <2>2, QueueSize DEF Separate
    <2>4. /\ IsFiniteSet(HeldLines)
          /\ Cardinality(HeldLines) = Cardinality({w \in Workers : held[w].side = "load"})
      BY <2>0, HeldSize
    <2>5. IsFiniteSet(FedLine)
      BY FS_EmptySet, FS_Singleton DEF FedLine
    <2>6. /\ FedLine \intersect waiting = {}
          /\ (FedLine \union waiting) \intersect HeldLines = {}
          /\ (FedLine \union waiting \union HeldLines) \intersect reported = {}
      BY <2>0 DEF Separate, HeldLines
    <2>7. Dispatched = ((FedLine \union waiting) \union HeldLines) \union reported
      BY DEF Dispatched
    <2> HIDE DEF waiting, reported
    <2>8. /\ IsFiniteSet(FedLine \union waiting)
          /\ Cardinality(FedLine \union waiting) = Cardinality(FedLine) + Cardinality(waiting)
      BY <2>3, <2>5, <2>6, DisjointSize
    <2>9. /\ IsFiniteSet((FedLine \union waiting) \union HeldLines)
          /\ Cardinality((FedLine \union waiting) \union HeldLines)
                = Cardinality(FedLine \union waiting) + Cardinality(HeldLines)
      BY <2>4, <2>6, <2>8, DisjointSize
    <2>10. Cardinality(Dispatched)
              = Cardinality((FedLine \union waiting) \union HeldLines) + Cardinality(reported)
      BY <2>3, <2>6, <2>7, <2>9, DisjointSize
    <2>11. Cardinality(Dispatched)
              = Cardinality(FedLine) + Len(work.q)
                  + Cardinality({w \in Workers : held[w].side = "load"})
                  + Cardinality({j \in DOMAIN results.q : results.q[j].line # 0})
      BY <2>3, <2>4, <2>8, <2>9, <2>10
    <2> QED
      BY <2>0, <2>1, <2>11 DEF InFlightExact, BodyFound
  <1> QED
    BY <1>1, InitFlight, NextFlight, PTL DEF Spec

-----------------------------------------------------------------------------
(* When redo is drained *)

\* What the fetcher has seen when it is about to return, and keeps once it has:
\* no redo record is out, the reader has ended and no line is in flight.
NothingLeft ==
    /\ fpc = "loaded?" \/ drained => REDO_OUTSTANDING <= 0
    /\ drained => fpc \in {"close", "done"} /\ readerDone /\ inFlight = {}
    /\ readerDone => rpc = "done"

IDrained == ICount /\ Placed /\ NothingLeft

\* A worker takes redo records off the count only.
LEMMA WorkerStepNothingLeft ==
    ASSUME NothingLeft, REDO_OUTSTANDING \in Int, NEW w \in Workers, WorkerStep(w),
           UNCHANGED <<fetcherVars, rpc, readerDone, inFlight>>
    PROVE  NothingLeft'
  <1>1. REDO_OUTSTANDING' = REDO_OUTSTANDING \/ REDO_OUTSTANDING' = REDO_OUTSTANDING - 1
    BY DEF WorkerStep, LoadStep, LoopTop, GetLoad, GetNothing, AddRecord, RedoStep,
           DrainRedo, DrainMiss, DrainEnd, ProcessRedo, SettleRedo, Finished, MixedStep,
           PollHit, PollMiss, ReportStep, WorkerFatal, PutCheck, PutEnqueue, PutFull,
           statsVars
  <1> QED
    BY <1>1 DEF NothingLeft, fetcherVars

\* The fetcher comes to say so only from there.
LEMMA FetcherStepNothingLeft ==
    ASSUME NothingLeft, REDO_OUTSTANDING \in Int, FetcherStep(load_complete),
           UNCHANGED <<rpc, readerDone, inFlight>>
    PROVE  NothingLeft'
  <1>1. CASE FetchTop \/ FetchEmpty \/ FetchError \/ FetchPutCheck \/ FetchEnqueue
    <2>1. UNCHANGED drained /\ fpc \notin {"close", "done"} /\ fpc' # "loaded?"
      BY <1>1 DEF FetchTop, FetchEmpty, FetchError, FetchPutCheck, FetchEnqueue
    <2> QED
      BY <2>1 DEF NothingLeft
  <1>2. CASE FetchRecord \/ FetchGiveUp \/ FetchFatal
    <2>1. UNCHANGED drained /\ fpc \notin {"close", "done"} /\ fpc' # "loaded?"
      BY <1>2 DEF FetchRecord, FetchGiveUp, FetchFatal, AfterFatal
    <2> QED
      BY <2>1 DEF NothingLeft
  <1>3. CASE FetchQuiet
    BY <1>3 DEF FetchQuiet, CascadePossible, NothingLeft, statsVars
  <1>4. CASE FetchDrained(load_complete)
    BY <1>4 DEF FetchDrained, load_complete, NothingLeft, statsVars
  <1>5. CASE FetchReport \/ FetchClose
    BY <1>5 DEF FetchReport, FetchClose, NothingLeft, statsVars
  <1> QED
    BY <1>1, <1>2, <1>3, <1>4, <1>5 DEF FetcherStep

\* Every step of the process leaves nothing where there was nothing.
LEMMA NextDrained == IDrained /\ [Next]_vars => IDrained'
  <1> SUFFICES ASSUME IDrained, [Next]_vars PROVE Placed' /\ NothingLeft'
    BY NextCount DEF IDrained
  <1>0. /\ WorkerTypeOK(Lines) /\ OwnTypeOK /\ Placed /\ NothingLeft
        /\ REDO_OUTSTANDING \in Int
    BY ITypeParts DEF IDrained, ICount, SharedTypeOK, StatsTypeOK
  <1>1. ASSUME NEW w \in Workers, Worker(w) PROVE Placed' /\ NothingLeft'
    <2>1. /\ WorkerStep(w)
          /\ UNCHANGED <<rpc, line_no, inFlight, readerDone, fetcherVars>>
      BY <1>1 DEF Worker, readerVars, loadStateVars
    <2> QED
      BY <1>0, <2>1, WorkerStepPlaced, WorkerStepNothingLeft
  <1>2. CASE Fetcher
    <2>1. /\ FetcherStep(load_complete)
          /\ UNCHANGED <<rpc, line_no, inFlight, readerDone>>
      BY <1>2 DEF Fetcher, readerVars, loadStateVars
    <2> QED
      BY <1>0, <2>1, FetcherStepPlaced, FetcherStepNothingLeft
  <1>3. CASE ReaderThread
    <2>1. ReaderStep
      BY <1>3 DEF ReaderThread
    <2>2. Placed'
      BY <1>0, <2>1, ReaderStepPlaced
    <2>3. /\ rpc # "done" /\ UNCHANGED <<fetcherVars, REDO_OUTSTANDING>>
          /\ readerDone' = readerDone \/ rpc' = "done"
      BY <2>1
      DEF ReaderStep, ReadStop, ReadLine, ReaderReject, ReaderWrite, ReaderWriteHangs,
          ReaderComplete, ReaderPutCheck, ReaderEnqueue, ReaderGiveUp, PutFails,
          ReaderClose, ReaderFinish, otherThanReader, statsVars, loadStateVars
    <2> QED
      BY <1>0, <2>2, <2>3 DEF NothingLeft, fetcherVars
  <1>4. CASE Consumer
    <2>1. /\ ConsumerStep
          /\ UNCHANGED <<fetcherVars, rpc, line_no, readerDone, REDO_OUTSTANDING, work, held>>
      BY <1>4
      DEF Consumer, ConsumerStep, ConsumerGet, ConsumerClosed, SettleAck, SettleFails,
          SettleReject, SettleWrite, SettleWriteHangs, SettleComplete, SettleFatal,
          otherThanConsumer, workerVars, readerVars, statsVars, loadStateVars, channels
    <2>2. CASE ConsumerGet
      <3>1. results \in Channel(Outcomes(Lines)) /\ HasItem(results)
        BY <1>0, <2>2 DEF ConsumerGet, WorkerTypeOK, Outcomes
      <3>2. /\ results.q \in Seq(Outcomes(Lines)) /\ results.q # <<>>
            /\ results'.q = Tail(results.q)
        BY <2>2, <3>1, DequeuedType DEF ConsumerGet, Channel, HasItem
      <3>3. inFlight' = inFlight \ {Head(results.q).line}
        BY <2>2 DEF ConsumerGet, PopBody
      <3>4. Placed'
        BY <1>0, <2>1, <3>2, <3>3, OutcomeTaken
      <3> QED
        BY <1>0, <2>1, <3>3, <3>4 DEF NothingLeft, fetcherVars
    <2>3. CASE ~ConsumerGet
      <3>1. UNCHANGED <<inFlight, results>>
        BY <2>1, <2>3
        DEF ConsumerStep, ConsumerClosed, SettleAck, SettleFails, SettleReject,
            SettleWrite, SettleWriteHangs, SettleComplete, SettleFatal, loadStateVars,
            channels
      <3> QED
        BY <1>0, <2>1, <3>1, NothingMoves DEF FedLine, NothingLeft, fetcherVars
    <2> QED
      BY <2>2, <2>3
  <1>5. CASE MainStep \/ Signal \/ UNCHANGED vars
    <2>1. /\ work' = work \/ work' = Closed(work)
          /\ results' = results \/ results' = Closed(results)
          /\ UNCHANGED <<held, fetcherVars, rpc, line_no, inFlight, readerDone>>
          /\ UNCHANGED REDO_OUTSTANDING
      BY <1>5
      DEF MainStep, TickDue, TickAsks, TickEnds, StopMonitoring, CloseWork, JoinWorkers,
          CloseJobs, JoinAux, CloseResults, JoinConsumer, Finish, FinishFails, Teardown,
          MainGoto, Signal, vars, othersVars, workerVars, readerVars, loadStateVars,
          channels, statsVars
    <2>2. work'.q = work.q /\ results'.q = results.q
      BY <1>0, <2>1, ClosedType DEF WorkerTypeOK
    <2> QED
      BY <1>0, <2>1, <2>2, NothingMoves DEF FedLine, NothingLeft, fetcherVars
  <1> QED
    BY <1>1, <1>2, <1>3, <1>4, <1>5 DEF Next, Exited

\* The fetcher returns because redo is drained only when the pool has nothing
\* left and will be given nothing: its two reads, of the count of redo records
\* and of load_complete, may be far apart and still say so.
THEOREM DrainedPoolIsQuiet == Spec => []DrainedIsQuiet
  <1>1. Init => IDrained
    <2> SUFFICES ASSUME Init PROVE IDrained
      OBVIOUS
    <2>1. ICount
      BY InitType, InitExact DEF Init, ICount
    <2>2. Placed
      BY InitTraced DEF LinesTraced, Placed
    <2>3. NothingLeft
      BY DEF Init, FetcherInit, LoadStateInit, NothingLeft
    <2> QED
      BY <2>1, <2>2, <2>3 DEF IDrained
  <1>2. IDrained => DrainedIsQuiet
    <2> SUFFICES ASSUME IDrained, drained
                 PROVE  /\ load_complete /\ REDO_OUTSTANDING = 0
                        /\ jobs.q = <<>> /\ work.q = <<>>
                        /\ \A w \in Workers : held[w] = Nothing
      BY DEF DrainedIsQuiet
    <2>0. /\ WorkerTypeOK(Lines) /\ Tracked /\ OutstandingExact
          /\ readerDone /\ inFlight = {} /\ REDO_OUTSTANDING <= 0
          /\ fpc \in {"close", "done"}
      BY ITypeParts DEF IDrained, ICount, Placed, NothingLeft, SharedTypeOK
    <2> DEFINE R == {w \in Workers : held[w].side = "redo"}
    <2>1. IsFiniteSet(R) /\ Cardinality(R) \in Nat
      BY WorkersAssumption, FS_Subset, FS_CardinalityType
    <2>2. Len(jobs.q) \in Nat /\ jobs.q \in Seq({RedoJob})
      BY <2>0 DEF WorkerTypeOK, Channel
    <2>3. REDO_OUTSTANDING = Len(jobs.q) + Cardinality(R)
      BY <2>0, <2>1, <2>2 DEF OutstandingExact
    <2>4. REDO_OUTSTANDING = 0 /\ Len(jobs.q) = 0 /\ Cardinality(R) = 0
      BY <2>0, <2>1, <2>2, <2>3
    <2>5. R = {} /\ jobs.q = <<>>
      BY <2>1, <2>2, <2>4, FS_EmptySet
    <2>6. work.q = <<>>
      <3>1. work.q \in Seq(LoadItems(Lines))
        BY <2>0 DEF WorkerTypeOK, Channel, LoadItems
      <3>2. \A j \in DOMAIN work.q : work.q[j].line # 0
        <4>1. \A j \in DOMAIN work.q : work.q[j] \in LoadItems(Lines)
          BY <3>1
        <4> QED
          BY <4>1 DEF LoadItems, Lines
      <3>3. LinesOf(work.q) = {}
        BY <2>0 DEF Tracked
      <3>4. DOMAIN work.q = {}
        BY <3>2, <3>3 DEF LinesOf
      <3>5. work.q # <<>> => 1 \in DOMAIN work.q
        BY <3>1, TailElements
      <3> QED
        BY <3>4, <3>5
    <2>7. \A w \in Workers : held[w] = Nothing
      <3>1. \A w \in Workers : held[w].line = 0
        BY <2>0 DEF Tracked
      <3> QED
        BY <2>0, <2>5, <3>1 DEF WorkerTypeOK, RedoJob, Nothing, Lines
    <2> HIDE DEF R
    <2> QED
      BY <2>0, <2>4, <2>5, <2>6, <2>7 DEF load_complete
  <1> QED
    BY <1>1, <1>2, NextDrained, PTL DEF Spec
=============================================================================
