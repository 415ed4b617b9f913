------------------------------- MODULE Stats --------------------------------
(***************************************************************************)
(* The process-wide flags and counters of stats.py that decide control     *)
(* flow, the exit code or the totals printed at the end.                   *)
(***************************************************************************)
EXTENDS Integers

CONSTANT
    Faults   \* what may fail around the driver in the behaviours considered

ASSUME FaultsAssumption ==
    Faults \subseteq
        {"addReject", "addFatal",    \* add_record: bad input or timeout, else
         "redoDrop", "redoFatal",    \* process_redo_record likewise
         "fetch",                    \* get_redo_record raises
         "print",                    \* stdout is gone (--info writes to it)
         "read",                     \* reading the input file raises OSError
         "write", "shortWrite",      \* the reject file: OSError, partial write
         "slowEngine", "slowIO"}     \* a call outlasts the shutdown grace

VARIABLES
    RUNNING,            \* cleared by a signal or a fatal error
    WORKER_FATAL,       \* a worker, the fetcher or the consumer failed
    ADDS_PROCESSED, ADDS_REJECTED,
    REDOS_PROCESSED, REDOS_DROPPED,
    REDO_OUTSTANDING    \* redo records fetched and not yet finished

flags == <<RUNNING, WORKER_FATAL>>
addCounters == <<ADDS_PROCESSED, ADDS_REJECTED>>
redoCounters == <<REDOS_PROCESSED, REDOS_DROPPED>>
statsVars == <<flags, addCounters, redoCounters, REDO_OUTSTANDING>>

\* reset_all
StatsInit ==
    /\ RUNNING = TRUE
    /\ WORKER_FATAL = FALSE
    /\ ADDS_PROCESSED = 0
    /\ ADDS_REJECTED = 0
    /\ REDOS_PROCESSED = 0
    /\ REDOS_DROPPED = 0
    /\ REDO_OUTSTANDING = 0

StatsTypeOK ==
    /\ RUNNING \in BOOLEAN
    /\ WORKER_FATAL \in BOOLEAN
    /\ ADDS_PROCESSED \in Nat
    /\ ADDS_REJECTED \in Nat
    /\ REDOS_PROCESSED \in Nat
    /\ REDOS_DROPPED \in Nat
    /\ REDO_OUTSTANDING \in Int

\* WORKER_FATAL is read only after every thread was joined, so setting it and
\* clearing RUNNING are one step here.
MarkFatal ==
    /\ WORKER_FATAL' = TRUE
    /\ RUNNING' = FALSE
=============================================================================
