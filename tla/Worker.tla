------------------------------- MODULE Worker -------------------------------
(***************************************************************************)
(* The worker threads of worker.py.  A worker with only a load side runs   *)
(* _pure_load_loop, with only a redo side _pure_redo_loop, with both       *)
(* _mixed_loop, in which it polls its preferred side first.                *)
(*                                                                         *)
(* Program counters: "top" of the loop; "get" inside the timed get of      *)
(* _pure_load_loop; "probe1" and "probe2", the non-blocking polls of the   *)
(* other loops; "call" inside the engine; "fatal" about to mark_fatal;     *)
(* "put" and "enq", the two steps of results.put; "settle", the end of     *)
(* _process_redo; "done".  A timed-out get while nothing has changed is a  *)
(* stuttering step, and so is each sleep.                                  *)
(***************************************************************************)
EXTENDS Channels, FiniteSets, Stats, Engine

CONSTANTS
    Workers,
    RedoPreferring,       \* the workers of class REDO_PREFERRING
    HasLoad, HasRedo      \* whether ctx.load, ctx.redo are present

ASSUME WorkersAssumption ==
    /\ IsFiniteSet(Workers)
    /\ Workers # {}
    /\ RedoPreferring \subseteq Workers
    /\ HasLoad \in BOOLEAN
    /\ HasRedo \in BOOLEAN

VARIABLES
    work, jobs, results,  \* the three channels
    pc,                   \* where each worker is
    held,                 \* the item each worker took
    act,                  \* what became of it
    open                  \* the sides _mixed_loop has not seen CLOSED

channels == <<work, jobs, results>>
workerVars == <<pc, held, act, open>>

\* A line of the file by its number.  Faulty: numbered from zero.
LoadItemFromZero(line) == [side |-> "load", line |-> line - 1]
LoadItem(line) == [side |-> "load", line |-> line]
RedoJob == [side |-> "redo", line |-> 0]
Nothing == [side |-> "none", line |-> 0]
Outcome(line, kind) == [line |-> line, kind |-> kind]

\* load.results has room for two outcomes per worker.
ResultsSize == 2 * Cardinality(Workers)

WorkerInit ==
    /\ work = NewChannel
    /\ jobs = NewChannel
    /\ results = NewChannel
    /\ pc = [w \in Workers |-> "top"]
    /\ held = [w \in Workers |-> Nothing]
    /\ act = [w \in Workers |-> "none"]
    /\ open = [w \in Workers |-> {"load", "redo"}]

WorkerTypeOK(Lines) ==
    /\ work \in Channel([side : {"load"}, line : Lines])
    /\ jobs \in Channel({RedoJob})
    /\ results \in Channel([line : Lines \union {0},
                            kind : {"ACK", "REJECT", "FATAL"}])
    /\ pc \in [Workers -> {"top", "get", "probe1", "probe2", "call", "fatal",
                           "put", "enq", "settle", "done"}]
    /\ held \in [Workers -> [side : {"load"}, line : Lines]
                              \union {RedoJob, Nothing}]
    /\ act \in [Workers -> {"none", "ACK", "REJECT", "FATAL", "DIED"}]
    /\ open \in [Workers -> SUBSET {"load", "redo"}]

Goto(w, label) == pc' = [pc EXCEPT ![w] = label]

Become(w, label, kind) ==
    /\ Goto(w, label)
    /\ act' = [act EXCEPT ![w] = kind]

\* The worker has nothing in hand and goes around its loop.
BackToTop(w) ==
    /\ Become(w, "top", "none")
    /\ held' = [held EXCEPT ![w] = Nothing]

TakeFrom(w, ch) ==
    /\ held' = [held EXCEPT ![w] = Head(ch.q)]
    /\ Goto(w, "call")

TakeLoad(w) ==
    /\ HasItem(work)
    /\ TakeFrom(w, work)
    /\ work' = Dequeued(work)
    /\ UNCHANGED jobs

TakeRedo(w) ==
    /\ HasItem(jobs)
    /\ TakeFrom(w, jobs)
    /\ jobs' = Dequeued(jobs)
    /\ UNCHANGED work

-----------------------------------------------------------------------------
(* _pure_load_loop *)

\* `while RUNNING`, shared with _mixed_loop.
LoopTop(w) ==
    /\ HasLoad
    /\ pc[w] = "top"
    /\ Goto(w, IF ~RUNNING THEN "done" ELSE IF HasRedo THEN "probe1" ELSE "get")
    /\ UNCHANGED <<channels, held, act, open, statsVars, engineVars>>

GetLoad(w) ==
    /\ pc[w] = "get"
    /\ TakeLoad(w)
    /\ UNCHANGED <<results, act, open, statsVars, engineVars>>

\* CLOSED, or a timeout after which the loop sees RUNNING cleared.
GetNothing(w) ==
    /\ pc[w] = "get"
    /\ ~HasItem(work)
    /\ work.closed \/ ~RUNNING
    /\ Goto(w, "done")
    /\ UNCHANGED <<channels, held, act, open, statsVars, engineVars>>

-----------------------------------------------------------------------------
(* _pure_redo_loop: queued records are drained after RUNNING is cleared *)

\* A probe that comes back without an item.  Faulty: shutdown is taken for that.
ProbeMissesAtShutdown == ~HasItem(jobs) \/ ~RUNNING
ProbeMisses == ~HasItem(jobs)

DrainRedo(w) ==
    /\ ~HasLoad
    /\ pc[w] \in {"top", "probe2"}
    /\ TakeRedo(w)
    /\ UNCHANGED <<results, act, open, statsVars, engineVars>>

\* Whether finding the channel EMPTY makes the worker probe a last time.  Faulty:
\* an idle worker never waits for more.
LastProbeImpatient == TRUE
LastProbe == ~RUNNING

\* The first probe found the channel CLOSED or EMPTY.
DrainMiss(w) ==
    /\ ~HasLoad
    /\ pc[w] = "top"
    /\ ProbeMisses
    /\ \/ jobs.closed /\ Goto(w, "done")
       \/ ~jobs.closed /\ LastProbe /\ Goto(w, "probe2")
    /\ UNCHANGED <<channels, held, act, open, statsVars, engineVars>>

DrainEnd(w) ==
    /\ ~HasLoad
    /\ pc[w] = "probe2"
    /\ ProbeMisses
    /\ Goto(w, "done")
    /\ UNCHANGED <<channels, held, act, open, statsVars, engineVars>>

-----------------------------------------------------------------------------
(* _mixed_loop *)

\* The side polled at a probe: the preferred one first.
Side(w) == IF (pc[w] = "probe1") = (w \in RedoPreferring) THEN "redo" ELSE "load"

PollHit(w) ==
    /\ HasLoad
    /\ pc[w] \in {"probe1", "probe2"}
    /\ Side(w) \in open[w]
    /\ IF Side(w) = "redo" THEN TakeRedo(w) ELSE TakeLoad(w)
    /\ UNCHANGED <<results, act, open, statsVars, engineVars>>

\* The poll found nothing: a side seen CLOSED is not polled again, and the
\* worker exits once both are.
PollMiss(w) ==
    LET ch == IF Side(w) = "redo" THEN jobs ELSE work
        left == IF ch.closed THEN open[w] \ {Side(w)} ELSE open[w]
    IN  /\ HasLoad
        /\ pc[w] \in {"probe1", "probe2"}
        /\ ~(Side(w) \in open[w] /\ HasItem(ch))
        /\ open' = [open EXCEPT ![w] = left]
        /\ Goto(w, CASE pc[w] = "probe1" -> "probe2"
                     [] pc[w] = "probe2" /\ left = {} -> "done"
                     [] OTHER -> "top")
        /\ UNCHANGED <<channels, held, act, statsVars, engineVars>>

-----------------------------------------------------------------------------
(* _process_load: add_record, with its retry after a config reload inside,  *)
(* then one outcome on the results channel                                  *)

AddRecord(w) ==
    /\ pc[w] = "call"
    /\ held[w].side = "load"
    /\ \/ /\ EngineAdd(held[w].line)
          /\ Become(w, "put", "ACK")
       \/ \* bad input, a retry timeout, or a body that is not UTF-8
          /\ "addReject" \in Faults
          /\ Become(w, "put", "REJECT")
          /\ UNCHANGED engineVars
       \/ /\ "addFatal" \in Faults
          /\ Become(w, "fatal", "FATAL")
          /\ UNCHANGED engineVars
    /\ UNCHANGED <<channels, held, open, statsVars>>

-----------------------------------------------------------------------------
(* _process_redo *)

\* A result that cannot be printed escapes the handlers of _process_redo: the
\* worker dies in worker_loop's, REDO_OUTSTANDING keeping the record.
ProcessRedo(w) ==
    /\ pc[w] = "call"
    /\ held[w].side = "redo"
    /\ \/ /\ EngineRedo
          /\ REDOS_PROCESSED' = REDOS_PROCESSED + 1
          /\ \/ Become(w, "settle", "ACK")
             \/ "print" \in Faults /\ Become(w, "fatal", "DIED")
          /\ UNCHANGED REDOS_DROPPED
       \/ /\ "redoDrop" \in Faults
          /\ REDOS_DROPPED' = REDOS_DROPPED + 1
          /\ Become(w, "settle", "REJECT")
          /\ UNCHANGED <<REDOS_PROCESSED, engineVars>>
       \/ /\ "redoFatal" \in Faults
          /\ Become(w, "fatal", "FATAL")
          /\ UNCHANGED <<redoCounters, engineVars>>
    /\ UNCHANGED <<channels, held, open, flags, addCounters, REDO_OUTSTANDING>>

\* Whatever became of the record, it is no longer outstanding.  Faulty: only a
\* processed record is taken off.
FinishedProcessed(w) == IF act[w] = "ACK" THEN 1 ELSE 0
Finished(w) == 1

\* The end of _process_redo; after a fatal error the worker exits.
SettleRedo(w) ==
    /\ pc[w] = "settle"
    /\ REDO_OUTSTANDING' = REDO_OUTSTANDING - Finished(w)
    /\ IF act[w] = "FATAL"
       THEN /\ Become(w, "done", "none")
            /\ held' = [held EXCEPT ![w] = Nothing]
       ELSE BackToTop(w)
    /\ UNCHANGED <<channels, open, flags, addCounters, redoCounters, engineVars>>

-----------------------------------------------------------------------------
(* Reporting *)

\* What _process_load or _send_fatal puts: a signal carries line 0.
Report(w) ==
    CASE act[w] \in {"ACK", "REJECT"} -> Outcome(held[w].line, act[w])
      [] act[w] = "FATAL" -> Outcome(held[w].line, "FATAL")
      [] OTHER -> Outcome(0, "FATAL")

\* Where the worker goes when results.put has returned.
AfterPut(w) ==
    CASE act[w] = "DIED" -> Goto(w, "done") /\ UNCHANGED <<held, act>>
      [] act[w] # "DIED" /\ held[w].side = "redo" ->
            Goto(w, "settle") /\ UNCHANGED <<held, act>>
      [] act[w] = "FATAL" /\ held[w].side = "load" ->
            /\ Become(w, "done", "none")
            /\ held' = [held EXCEPT ![w] = Nothing]
      [] OTHER -> BackToTop(w)

WorkerFatal(w) ==
    /\ pc[w] = "fatal"
    /\ MarkFatal
    /\ Goto(w, CASE HasLoad -> "put"
                 [] ~HasLoad /\ act[w] = "DIED" -> "done"
                 [] OTHER -> "settle")
    /\ UNCHANGED <<channels, held, act, open, addCounters, redoCounters,
                   REDO_OUTSTANDING, engineVars>>

\* results.put keeps going until the channel is closed, in a shutdown too.
\* Faulty: shutdown ends it.
PutStopsAtShutdown == results.closed \/ ~RUNNING
PutStops == results.closed

\* put: the check before the enqueue, at which the outcome may be lost.
PutCheck(w) ==
    /\ pc[w] = "put"
    /\ IF PutStops
       THEN AfterPut(w)
       ELSE Goto(w, "enq") /\ UNCHANGED <<held, act>>
    /\ UNCHANGED <<channels, open, statsVars, engineVars>>

\* put: the bounded enqueue, tried again until there is room.
PutEnqueue(w) ==
    /\ pc[w] = "enq"
    /\ HasRoom(results, ResultsSize)
    /\ results' = Enqueued(results, Report(w))
    /\ AfterPut(w)
    /\ UNCHANGED <<work, jobs, open, statsVars, engineVars>>

\* put: Full, and the channel was closed meanwhile.
PutFull(w) ==
    /\ pc[w] = "enq"
    /\ ~HasRoom(results, ResultsSize)
    /\ results.closed
    /\ AfterPut(w)
    /\ UNCHANGED <<channels, open, statsVars, engineVars>>

InEngine(w) == pc[w] = "call"

LoadStep(w) == LoopTop(w) \/ GetLoad(w) \/ GetNothing(w) \/ AddRecord(w)

RedoStep(w) == \/ DrainRedo(w) \/ DrainMiss(w) \/ DrainEnd(w)
               \/ ProcessRedo(w) \/ SettleRedo(w)

MixedStep(w) == PollHit(w) \/ PollMiss(w)

ReportStep(w) == \/ WorkerFatal(w) \/ PutCheck(w)
                 \/ PutEnqueue(w) \/ PutFull(w)

WorkerStep(w) == LoadStep(w) \/ RedoStep(w) \/ MixedStep(w) \/ ReportStep(w)
=============================================================================
