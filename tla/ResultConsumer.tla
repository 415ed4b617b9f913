--------------------------- MODULE ResultConsumer ---------------------------
(***************************************************************************)
(* The result consumer thread of file_loader.py, result_consumer with      *)
(* _settle.  "get": in results.get; "settle": the line has left in_flight; *)
(* "write": a rejected line is counted, its write is next; "complete": it  *)
(* is written, its completion is next; "done".                             *)
(***************************************************************************)
EXTENDS LoadState, RedoFetcher

VARIABLES
    cpc,
    outcome    \* the outcome in hand, and whether its body was in flight

consumerVars == <<cpc, outcome>>

NoOutcome == [line |-> 0, kind |-> "none", body |-> FALSE]

ConsumerInit == cpc = "get" /\ outcome = NoOutcome

ConsumerTypeOK ==
    /\ cpc \in {"get", "settle", "write", "complete", "done"}
    /\ outcome \in [line : Lines \union {0},
                    kind : {"ACK", "REJECT", "FATAL", "none"},
                    body : BOOLEAN]

otherThanConsumer == <<workerVars, fetcherVars, engineVars>>

\* _settle first takes the body out of in_flight.  Faulty: not that of a line
\* that failed fatally.
PopBodySettled(o) ==
    inFlight' = IF o.kind = "FATAL" THEN inFlight ELSE inFlight \ {o.line}
PopBody(o) == inFlight' = inFlight \ {o.line}

\* The watermark waits until the outcome is settled.  Faulty: it does not.
PickUpCompletes(o) == Complete(o.line)
PickUp(o) == UNCHANGED resumeVars

ConsumerGet ==
    /\ cpc = "get"
    /\ HasItem(results)
    /\ LockFree
    /\ LET o == Head(results.q)
       IN  /\ outcome' = [line |-> o.line, kind |-> o.kind, body |-> o.line \in inFlight]
           /\ PopBody(o)
           /\ PickUp(o)
    /\ results' = Dequeued(results)
    /\ cpc' = "settle"
    /\ UNCHANGED <<otherThanConsumer, work, jobs, statsVars, readerDone, sinkVars,
                   lock>>

\* CLOSED is the end of what was queued.  Faulty: of what was received.
ResultsEndEarly == results.closed
ResultsEnd == results.closed /\ ~HasItem(results)

ConsumerClosed ==
    /\ cpc = "get"
    /\ ResultsEnd
    /\ cpc' = "done"
    /\ UNCHANGED <<outcome, otherThanConsumer, channels, statsVars, loadStateVars>>

SettleAck ==
    /\ cpc = "settle"
    /\ outcome.kind = "ACK"
    /\ LockFree
    /\ ADDS_PROCESSED' = ADDS_PROCESSED + 1
    /\ Complete(outcome.line)
    /\ cpc' = "get"
    /\ outcome' = NoOutcome
    /\ UNCHANGED <<otherThanConsumer, channels, flags, ADDS_REJECTED, redoCounters,
                   REDO_OUTSTANDING, inFlight, readerDone, sinkVars, lock>>

\* The WithInfo response, or the throughput line after the count, cannot be
\* printed: the run is flagged fatal and the line is not completed.
SettleFails ==
    /\ cpc = "settle"
    /\ outcome.kind = "ACK"
    /\ "print" \in Faults
    /\ ADDS_PROCESSED' \in {ADDS_PROCESSED, ADDS_PROCESSED + 1}
    /\ MarkFatal
    /\ cpc' = "get"
    /\ outcome' = NoOutcome
    /\ UNCHANGED <<otherThanConsumer, channels, ADDS_REJECTED, redoCounters,
                   REDO_OUTSTANDING, loadStateVars>>

\* Without its body the line is counted and not written.
SettleReject ==
    /\ cpc = "settle"
    /\ outcome.kind = "REJECT"
    /\ CountReject
    /\ cpc' = IF outcome.body THEN "write" ELSE "complete"
    /\ UNCHANGED <<outcome, otherThanConsumer, channels, flags, ADDS_PROCESSED,
                   redoCounters, REDO_OUTSTANDING, loadStateVars>>

SettleWrite ==
    /\ cpc = "write"
    /\ LockIsMine("consumer")
    /\ WriteReject(outcome.line)
    /\ Release
    /\ cpc' = "complete"
    /\ UNCHANGED <<outcome, otherThanConsumer, channels, statsVars, resumeVars,
                   inFlight, readerDone>>

\* The write takes long.
SettleWriteHangs ==
    /\ cpc = "write"
    /\ KeepLock("consumer")
    /\ UNCHANGED <<cpc, outcome, otherThanConsumer, channels, statsVars, resumeVars,
                   inFlight, readerDone, sinkVars>>

SettleComplete ==
    /\ cpc = "complete"
    /\ LockFree
    /\ Complete(outcome.line)
    /\ cpc' = "get"
    /\ outcome' = NoOutcome
    /\ UNCHANGED <<otherThanConsumer, channels, statsVars, inFlight, readerDone,
                   sinkVars, lock>>

\* A line that failed fatally does not complete.
LineFailed(line) == UNCHANGED resumeVars

\* The worker has already flagged the run.
SettleFatal ==
    /\ cpc = "settle"
    /\ outcome.kind = "FATAL"
    /\ LineFailed(outcome.line)
    /\ cpc' = "get"
    /\ outcome' = NoOutcome
    /\ UNCHANGED <<otherThanConsumer, channels, statsVars, inFlight, readerDone,
                   sinkVars, lock>>

ConsumerStep ==
    \/ ConsumerGet \/ ConsumerClosed
    \/ SettleAck \/ SettleFails \/ SettleReject \/ SettleWrite \/ SettleWriteHangs
    \/ SettleComplete \/ SettleFatal
=============================================================================
