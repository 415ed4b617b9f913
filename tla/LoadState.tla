----------------------------- MODULE LoadState ------------------------------
(***************************************************************************)
(* The bookkeeping the reader, the result consumer and the redo fetcher of *)
(* a file load share: ResumeTracker, RejectSink and LoadState of           *)
(* file_loader.py.  What is done holding LoadState.lock, with what the     *)
(* thread does just before, is one step, taken while the lock is free; but *)
(* a write that takes long keeps the lock from one step to the next.       *)
(* A line's body is the line itself.                                       *)
(***************************************************************************)
EXTENDS Stats, FiniteSets

CONSTANTS
    LastLine,     \* physical lines of the input file
    SkipLines     \* --skip-lines

ASSUME LinesAssumption ==
    /\ LastLine \in Nat
    /\ SkipLines \in Nat

Lines == 1..LastLine

VARIABLES
    next,         \* ResumeTracker._next
    outOfOrder,   \* ResumeTracker._out_of_order
    inFlight,     \* lines dispatched and not reported back
    readerDone,
    rejectFile,   \* lines found whole in the reject file
    damaged,      \* lines written to it and not found whole there
    logged,       \* rejected lines whose body went to the log instead
    written,      \* RejectSink.written
    lock          \* LoadState.lock: "free", or whose long write keeps it

resumeVars == <<next, outOfOrder>>
sinkVars == <<rejectFile, damaged, logged, written>>
loadStateVars == <<resumeVars, inFlight, readerDone, sinkVars, lock>>

LoadStateInit ==
    /\ next = SkipLines + 1
    /\ outOfOrder = {}
    /\ inFlight = {}
    /\ readerDone = FALSE
    /\ rejectFile = {}
    /\ damaged = {}
    /\ logged = {}
    /\ written = 0
    /\ lock = "free"

LoadStateTypeOK ==
    /\ next \in Nat \ {0}
    /\ outOfOrder \subseteq Lines
    /\ inFlight \subseteq Lines
    /\ readerDone \in BOOLEAN
    /\ rejectFile \subseteq Lines
    /\ damaged \subseteq Lines
    /\ logged \subseteq Lines
    /\ written \in Nat
    /\ lock \in {"free", "reader", "consumer"}

LockFree == lock = "free"

\* Whoever has the lock in a long write; nobody else gets it before it ends.
KeepLock(me) == "slowIO" \in Faults /\ LockFree /\ lock' = me
LockIsMine(me) == lock \in {"free", me}
Release == lock' = "free"

\* Lines up to the watermark are what --skip-lines may skip next time.
Watermark == next - 1

\* The first line at or after `from` that is not in done, a set of lines.
FirstMissing(from, done) ==
    CHOOSE n \in from..(LastLine + 1) :
        n \notin done /\ (from..(n - 1)) \subseteq done

\* Faulty: the watermark is the highest line completed.
CompleteHighest(line) ==
    /\ next' = IF line < next THEN next ELSE line + 1
    /\ UNCHANGED outOfOrder

\* ResumeTracker.complete
Complete(line) ==
    IF line < next
    THEN UNCHANGED resumeVars
    ELSE LET done == outOfOrder \union {line}
         IN  /\ next' = FirstMissing(next, done)
             /\ outOfOrder' = {l \in done : l >= next'}

\* RejectSink.write_line raised OSError: reject logs the body.  Faulty: the line
\* is counted as written all the same.
WriteFailsCounted(line) ==
    /\ logged' = logged \union {line}
    /\ written' = written + 1
    /\ UNCHANGED <<rejectFile, damaged>>
WriteFails(line) ==
    logged' = logged \union {line} /\ UNCHANGED <<rejectFile, damaged, written>>

\* LoadState.reject counts the line,
CountReject == ADDS_REJECTED' = ADDS_REJECTED + 1

\* and then, holding the lock, writes it.  A short write is counted as a line
\* written, and so is the line written behind it, on the tail it left.
WriteReject(line) ==
    \/ /\ rejectFile' = rejectFile \union {line}
       /\ written' = written + 1
       /\ UNCHANGED <<damaged, logged>>
    \/ "write" \in Faults /\ WriteFails(line)
    \/ /\ "shortWrite" \in Faults
       /\ damaged' = damaged \union {line}
       /\ written' = written + 1
       /\ UNCHANGED <<rejectFile, logged>>

\* Faulty: lines still in flight are ignored.
load_completeAtEof == readerDone

load_complete == readerDone /\ inFlight = {}
=============================================================================
