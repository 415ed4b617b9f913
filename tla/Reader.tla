------------------------------- MODULE Reader -------------------------------
(***************************************************************************)
(* The reader thread of file_loader.py, read_and_feed with _feed_line.     *)
(* The input file is a function from line numbers to what the line holds:  *)
(* "blank"; "bad", for which parse_record raises ParseError; "poison", for *)
(* which it raises another exception; "record", which goes to the pool.    *)
(* Program counters: "read" the next line; "reject", "write" it and        *)
(* "complete"; "put" and "enq" of work.put; "close", "finish"; "done".     *)
(***************************************************************************)
EXTENDS LoadState, RedoFetcher

CONSTANTS
    LineKinds,    \* the kinds of line the input may have
    Files         \* the inputs, or some of them

ASSUME LineKindsAssumption ==
    LineKinds \subseteq {"blank", "bad", "poison", "record"}

ASSUME FilesAssumption ==
    Files \subseteq [Lines -> LineKinds]

VARIABLES
    file,
    rpc,
    line_no,
    readError      \* LoadState.read_error is set

readerVars == <<file, rpc, line_no, readError>>

\* The work channel holds one line per worker.
WorkSize == Cardinality(Workers)

ReaderInit ==
    /\ file \in Files
    /\ rpc = "read"
    /\ line_no = 0
    /\ readError = FALSE

ReaderTypeOK ==
    /\ file \in [Lines -> LineKinds]
    /\ rpc \in {"read", "reject", "write", "complete", "put", "enq", "close",
                "finish", "done"}
    /\ line_no \in 0..LastLine
    /\ readError \in BOOLEAN

otherThanReader == <<workerVars, fetcherVars, engineVars>>

\* End of file, shutdown seen before a line is used, or an OSError.
ReadStop ==
    /\ rpc = "read"
    /\ \/ (line_no = LastLine \/ ~RUNNING) /\ UNCHANGED readError
       \/ "read" \in Faults /\ readError' = TRUE
    /\ rpc' = "close"
    /\ UNCHANGED <<file, line_no, otherThanReader, channels, statsVars, loadStateVars>>

\* What becomes of a line past the skipped ones.  Parsing a poison line raises
\* an exception that is not a ParseError, which ends the reader.
Feed(line) ==
    CASE file[line] = "blank" ->
            rpc' = "read" /\ Complete(line) /\ UNCHANGED <<inFlight, readError>>
      [] file[line] = "bad" ->
            rpc' = "reject" /\ UNCHANGED <<resumeVars, inFlight, readError>>
      [] file[line] = "poison" ->
            rpc' = "close" /\ readError' = TRUE /\ UNCHANGED <<resumeVars, inFlight>>
      [] OTHER ->
            /\ rpc' = "put"
            /\ inFlight' = inFlight \union {line}
            /\ UNCHANGED <<resumeVars, readError>>

\* What a line past the skipped ones may need the lock for: to complete a blank
\* line or to put a record in flight.
NeedsLock(line) == line > SkipLines /\ file[line] \in {"blank", "record"}

ReadLine ==
    /\ rpc = "read"
    /\ RUNNING
    /\ line_no < LastLine
    /\ NeedsLock(line_no + 1) => LockFree
    /\ line_no' = line_no + 1
    /\ IF line_no + 1 <= SkipLines
       THEN UNCHANGED <<rpc, resumeVars, inFlight, readError>>
       ELSE Feed(line_no + 1)
    /\ UNCHANGED <<file, otherThanReader, channels, statsVars, readerDone, sinkVars,
                   lock>>

\* An unparseable line is rejected, then complete.
ReaderReject ==
    /\ rpc = "reject"
    /\ CountReject
    /\ rpc' = "write"
    /\ UNCHANGED <<file, line_no, readError, otherThanReader, channels, flags,
                   ADDS_PROCESSED, redoCounters, REDO_OUTSTANDING, loadStateVars>>

ReaderWrite ==
    /\ rpc = "write"
    /\ LockIsMine("reader")
    /\ WriteReject(line_no)
    /\ Release
    /\ rpc' = "complete"
    /\ UNCHANGED <<file, line_no, readError, otherThanReader, channels, statsVars,
                   resumeVars, inFlight, readerDone>>

\* The write takes long.
ReaderWriteHangs ==
    /\ rpc = "write"
    /\ KeepLock("reader")
    /\ UNCHANGED <<file, rpc, line_no, readError, otherThanReader, channels, statsVars, resumeVars,
                   inFlight, readerDone, sinkVars>>

ReaderComplete ==
    /\ rpc = "complete"
    /\ LockFree
    /\ Complete(line_no)
    /\ rpc' = "read"
    /\ UNCHANGED <<file, line_no, readError, otherThanReader, channels, statsVars,
                   inFlight, readerDone, sinkVars, lock>>

ReaderPutCheck ==
    /\ rpc = "put"
    /\ RUNNING
    /\ ~work.closed
    /\ rpc' = "enq"
    /\ UNCHANGED <<file, line_no, readError, otherThanReader, channels, statsVars,
                   loadStateVars>>

ReaderEnqueue ==
    /\ rpc = "enq"
    /\ HasRoom(work, WorkSize)
    /\ work' = Enqueued(work, LoadItem(line_no))
    /\ rpc' = "read"
    /\ UNCHANGED <<file, line_no, readError, otherThanReader, jobs, results,
                   statsVars, loadStateVars>>

\* A line that was not dispatched is not in flight.  Faulty: it stays there.
WithdrawNothing == UNCHANGED inFlight
Withdraw == inFlight' = inFlight \ {line_no}

\* work.put returns False before the enqueue, or between two tries of it.
\* Faulty: the enqueue is tried until there is room.
PutFailsAtFirst == rpc = "put"
PutFails ==
    \/ rpc = "put"
    \/ rpc = "enq" /\ ~HasRoom(work, WorkSize)

\* work.put returned False: the pool is gone.
ReaderGiveUp ==
    /\ ~RUNNING \/ work.closed
    /\ PutFails
    /\ LockFree
    /\ Withdraw
    /\ rpc' = "close"
    /\ UNCHANGED <<file, line_no, readError, otherThanReader, channels, statsVars,
                   resumeVars, readerDone, sinkVars, lock>>

\* finally: work.close(), then reader_done.set()
ReaderClose ==
    /\ rpc = "close"
    /\ work' = Closed(work)
    /\ rpc' = "finish"
    /\ UNCHANGED <<file, line_no, readError, otherThanReader, jobs, results,
                   statsVars, loadStateVars>>

ReaderFinish ==
    /\ rpc = "finish"
    /\ readerDone' = TRUE
    /\ rpc' = "done"
    /\ UNCHANGED <<file, line_no, readError, otherThanReader, channels, statsVars,
                   resumeVars, inFlight, sinkVars, lock>>

ReaderStep ==
    \/ ReadStop \/ ReadLine
    \/ ReaderReject \/ ReaderWrite \/ ReaderWriteHangs \/ ReaderComplete
    \/ ReaderPutCheck \/ ReaderEnqueue \/ ReaderGiveUp
    \/ ReaderClose \/ ReaderFinish
=============================================================================
