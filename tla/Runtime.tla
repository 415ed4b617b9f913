------------------------------ MODULE Runtime -------------------------------
(***************************************************************************)
(* runtime.main from its arguments to the exit code, again and again: an   *)
(* operator restarts it with the --skip-lines it printed last, over the    *)
(* same input, repository and reject file.  In between the load is what    *)
(* LoadContract says, which FileLoader implements; the process may be      *)
(* killed at any instant, and signals arrive at any other.  A thread that  *)
(* outlives its join goes on until the process ends, and may be cut off in *)
(* the middle of a write.                                                  *)
(***************************************************************************)
EXTENDS LoadContract, Config, FiniteSets

CONSTANTS
    Inputs,      \* the arguments, environments and files considered
    MaxStarts,   \* bound on the processes started
    MaxShort     \* bound on the short writes to the reject file

ASSUME RuntimeAssumption ==
    /\ \A in \in Inputs :
          /\ in.args \in [threads : Int, redo_percent : Int, skip : Int, hasFile : BOOLEAN,
                          engineConfig : BOOLEAN, typed : SUBSET {"skip", "threads"}]
          /\ in.file \in [Lines -> LineKinds]
    /\ MaxStarts \in Nat
    /\ MaxShort \in Nat

None == [loadPref |-> 0, redoPref |-> 0, redo_percent |-> 0, threads |-> 0]

VARIABLES
    phase,
    args,        \* of the process running, or to be started
    config,
    RUNNING,
    heard,       \* a signal was delivered, and reset_all did not undo it
    clean,       \* workers_clean
    late,        \* the reader or the consumer outlived its join
    hung,        \* what never returns: "no"; a "write"; a call of "main"
    code,        \* exit code of the process
    starts, shorts,
    cuts,        \* processes that ended before their reader or consumer
    loaded,      \* lines in the repository, of all the loads (external)
    onRecord,    \* lines whole in the reject file, or in a log
    damaged,     \* lines written to the reject file and not found whole there
    tornTail     \* the reject file ends within a line

memoryVars == <<config, RUNNING, heard, clean, late, hung>>
processVars == <<phase, args, code, memoryVars>>
keptVars == <<loaded, onRecord, damaged, tornTail, shorts, cuts>>
vars == <<contractVars, processVars, starts, keptVars>>

OK == 0
CONFIG == 1     \* and the interpreter's, for an exception out of main
USAGE == 2      \* argparse's
FATAL == 255

RuntimeInit ==
    /\ \E in \in Inputs : args = in.args /\ file = in.file
    /\ skip = args.skip
    /\ watermark = args.skip
    /\ fate = [l \in Lines |-> "pending"]
    /\ phase = "down"
    /\ config = None
    /\ RUNNING = FALSE
    /\ heard = FALSE
    /\ clean = TRUE
    /\ late = FALSE
    /\ hung = "no"
    /\ code = OK
    /\ starts = 0 /\ shorts = 0 /\ cuts = 0
    /\ loaded = {} /\ onRecord = {} /\ damaged = {} /\ tornTail = FALSE

-----------------------------------------------------------------------------
(* Start-up *)

Goto(from, to) == phase = from /\ phase' = to

Start ==
    /\ starts < MaxStarts
    /\ starts' = starts + 1
    /\ Goto("down", "resolve")
    /\ code' = OK
    /\ UNCHANGED <<contractVars, args, memoryVars, keptVars>>

\* Nothing of a process is in the memory of the next.
MemoryLost ==
    /\ config' = None
    /\ RUNNING' = FALSE /\ heard' = FALSE
    /\ clean' = TRUE /\ late' = FALSE /\ hung' = "no"

\* parse_args and resolve
Resolve ==
    /\ phase = "resolve"
    /\ IF UsageError(args) \/ ~Resolves(args)
       THEN /\ phase' = "down"
            /\ code' = IF UsageError(args) THEN USAGE ELSE CONFIG
            /\ UNCHANGED config
       ELSE /\ phase' = "create"
            /\ config' = Resolved(args)
            /\ UNCHANGED code
    /\ UNCHANGED <<contractVars, args, RUNNING, heard, clean, late, hung, starts,
                   keptVars>>

\* create_environment, which may raise
Create ==
    /\ \/ Goto("create", "install") /\ UNCHANGED <<code, memoryVars>>
       \/ Goto("create", "down") /\ code' = FATAL /\ MemoryLost
    /\ UNCHANGED <<contractVars, args, starts, keptVars>>

Install ==
    /\ Goto("install", "reset")
    /\ RUNNING' = TRUE
    /\ UNCHANGED <<contractVars, args, config, heard, clean, late, hung, code, starts,
                   keptVars>>

\* The line before the first one of the tracker.  Faulty: always the first of
\* the file.
TrackerAtTop == 0
Tracker == args.skip

\* reset_all, and the state of a load that starts
Reset ==
    /\ Goto("reset", "run")
    /\ RUNNING' = TRUE
    /\ skip' = args.skip
    /\ watermark' = Tracker
    /\ fate' = [l \in Lines |-> "pending"]
    /\ UNCHANGED <<file, args, config, heard, clean, late, hung, code, starts,
                   keptVars>>

-----------------------------------------------------------------------------
(* The load, and what it leaves behind *)

\* pure_redoer.run loads nothing.
Loading == config.redo_percent < 100

\* Threads that did not end in time go on until the process exits: workers load,
\* and the reader or the consumer writes to the reject file and completes lines.
AfterRun == phase \in {"finish", "teardown", "destroying", "exit"}
WorkersAlive == Loading /\ (phase = "run" \/ (AfterRun /\ ~clean))
WritersAlive == Loading /\ (phase = "run" \/ (AfterRun /\ late))

\* The tail of the reject file after a line was written with its newline.
\* Faulty: without one.
TailWithoutNewline == TRUE
TailAfterWrite == FALSE

\* write_line appends to whatever the file ends with; a short write goes
\* unnoticed.
WriteLine(l) ==
    /\ \/ tornTail' = TailAfterWrite /\ UNCHANGED shorts
       \/ shorts < MaxShort /\ shorts' = shorts + 1 /\ tornTail' = TRUE
    /\ IF tornTail \/ shorts' # shorts
       THEN damaged' = damaged \union {l} /\ UNCHANGED onRecord
       ELSE onRecord' = onRecord \union {l} /\ UNCHANGED damaged
    /\ UNCHANGED <<loaded, cuts>>

\* What outlives the process of a line that has met its fate.
Keep(l) ==
    CASE fate'[l] = "loaded" ->
            /\ loaded' = loaded \union {l}
            /\ UNCHANGED <<onRecord, damaged, tornTail, shorts, cuts>>
      [] fate'[l] = "logged" ->
            /\ onRecord' = onRecord \union {l}
            /\ UNCHANGED <<loaded, damaged, tornTail, shorts, cuts>>
      [] OTHER -> WriteLine(l)

\* A write that hangs keeps LoadState.lock: no line is rejected or completed.
LoadLine ==
    /\ \E l \in Lines :
          /\ \/ WorkersAlive /\ Load(l)
             \/ WritersAlive /\ hung # "write" /\ RejectLine(l)
          /\ Keep(l)
    /\ UNCHANGED <<processVars, starts>>

AdvanceWatermark ==
    /\ WritersAlive
    /\ hung # "write"
    /\ \E n \in Lines : Advance(n)
    /\ UNCHANGED <<processVars, starts, keptVars>>

\* Some line may be on its way to the reject file.
ToWrite == \E l \in Lines : Open(l) /\ file[l] \in {"record", "bad"}

\* A write never returns;
WriteHangs ==
    /\ WritersAlive
    /\ ToWrite
    /\ hung = "no"
    /\ hung' = "write"
    /\ UNCHANGED <<contractVars, phase, args, config, RUNNING, heard, clean, late, code,
                   starts, keptVars>>

\* or a call of the main thread does not: get_stats in the run, a print in it or
\* in _finish, or _hard_exit's flush behind the print of a late thread.
MainHangs ==
    /\ phase \in {"run", "finish"} \/ (phase = "exit" /\ ~clean)
    /\ hung = "no"
    /\ hung' = "main"
    /\ UNCHANGED <<contractVars, phase, args, config, RUNNING, heard, clean, late, code,
                   starts, keptVars>>

\* run returns: at its end, after a fatal error, or because RUNNING is cleared.
\* Only a load has a reader and a consumer to outlive their joins, and the one
\* whose write hangs does.
EndRun ==
    /\ Goto("run", "finish")
    /\ hung # "main"
    /\ clean' \in BOOLEAN
    /\ late' \in {l \in BOOLEAN : (l => Loading) /\ (hung = "write" => l)}
    /\ UNCHANGED <<contractVars, args, config, RUNNING, heard, hung, code, starts,
                   keptVars>>

-----------------------------------------------------------------------------
(* The end *)

\* The process ends where its threads are: a write under way leaves part of its
\* line.
EndProcess ==
    /\ phase' = "down"
    /\ MemoryLost
    /\ cuts' = IF WritersAlive THEN cuts + 1 ELSE cuts
    /\ \/ UNCHANGED tornTail
       \/ WritersAlive /\ (hung = "write" \/ ToWrite) /\ tornTail' = TRUE
    /\ UNCHANGED <<contractVars, starts, loaded, onRecord, damaged, shorts>>

\* What the operator resumes with is what was printed.  Faulty: the lines read,
\* in which those in flight count.
ResumeAtRead(at) == LET done == {l \in Lines : fate[l] # "pending"}
                    IN  IF done = {} THEN at ELSE CHOOSE l \in done : \A n \in done : n <= l
ResumeAt(at) == at

\* _finish takes LoadState.lock, without a bound, and prints the totals and the
\* watermark; bodies that are only in the log are an error,
Finish ==
    /\ Goto("finish", "teardown")
    /\ hung = "no"
    /\ code' \in {OK, FATAL}
    /\ (\E l \in Lines : fate[l] = "logged") => code' = FATAL
    /\ args' = IF Loading
               THEN [args EXCEPT !.skip = ResumeAt(watermark), !.typed = @ \union {"skip"}]
               ELSE args
    /\ UNCHANGED <<contractVars, memoryVars, starts, keptVars>>

\* or it raises, and main with it.
FinishFails ==
    /\ phase = "finish"
    /\ hung = "no"
    /\ code' = CONFIG
    /\ EndProcess
    /\ UNCHANGED args

\* teardown, which destroys the environment in a thread of its own
Teardown ==
    /\ Goto("teardown", IF clean THEN "destroying" ELSE "exit")
    /\ UNCHANGED <<contractVars, args, code, memoryVars, starts, keptVars>>

DestroyReturns ==
    /\ Goto("destroying", "exit")
    /\ UNCHANGED <<contractVars, args, code, memoryVars, starts, keptVars>>

\* The join of that thread is bounded.  Faulty: it is not.
UnboundedGrace == FALSE
TEARDOWN_GRACE == TRUE

GraceEnds ==
    /\ TEARDOWN_GRACE
    /\ Goto("destroying", "exit")
    /\ UNCHANGED <<contractVars, args, code, memoryVars, starts, keptVars>>

\* main returns, or _hard_exit
Exit ==
    /\ phase = "exit"
    /\ hung # "main"
    /\ EndProcess
    /\ UNCHANGED <<args, code>>

-----------------------------------------------------------------------------
(* What happens to the process *)

\* What the handler leaves of RUNNING.  Faulty: what it was.
HandlerOnlyLogs == RUNNING
Handler == FALSE

\* A signal after install_shutdown_handler: reset_all undoes an early one, and
\* one after the run finds nobody who asks.
Signal ==
    /\ phase \in {"reset", "run"}
    /\ RUNNING' = Handler
    /\ heard' = (phase = "run")
    /\ UNCHANGED <<contractVars, phase, args, config, clean, late, hung, code, starts,
                   keptVars>>

\* Killed, or signalled before the handler is installed.
Kill ==
    /\ phase # "down"
    /\ EndProcess
    /\ UNCHANGED <<args, code>>

Main == \/ Resolve \/ Create \/ Install \/ Reset \/ EndRun \/ Finish \/ FinishFails
        \/ Teardown \/ DestroyReturns \/ GraceEnds \/ Exit

Next == \/ Start \/ Main \/ LoadLine \/ AdvanceWatermark
        \/ WriteHangs \/ MainHangs \/ Signal \/ Kill

RuntimeSpec == RuntimeInit /\ [][Next]_vars

\* The main thread keeps being scheduled.  Whether a run ends when nothing asks
\* it to is not promised, nor when a write hangs, and a destroy may never return.
FairSpec ==
    /\ RuntimeSpec
    /\ WF_vars(Resolve \/ Create \/ Install \/ Reset \/ Finish \/ FinishFails
               \/ Teardown \/ GraceEnds \/ Exit)
    /\ WF_vars(~RUNNING /\ hung = "no" /\ EndRun)

-----------------------------------------------------------------------------
(* What the operator may rely on *)

\* However often the load is stopped, fails or is killed, resuming with the last
\* --skip-lines printed skips no line that is not blank, in the repository or
\* written to the reject file or a log (README.md:136, "A resume never skips an
\* unprocessed line").
ResumeSafe ==
    \A l \in Lines : l <= args.skip =>
        file[l] = "blank" \/ l \in loaded \union onRecord \union damaged

\* What a torn tail of the reject file costs: a process that ends before its
\* reader or consumer, killed or not, the next line written there, a short write
\* its own line too; and no other does.  The file is never checked for such a
\* tail when it is opened again (RejectSink, run).
TearsCostLittle == Cardinality(damaged) <= cuts + 2 * shorts

\* A process resumed with what was printed never prints less.
ResumeMovesForward == [][args'.skip >= args.skip]_args

\* A signal that reset_all does not undo ends the process, unless a write to the
\* reject file or a call of the main thread never returns.
SignalHonoured == heard ~> phase = "down" \/ hung # "no"

\* Once the run is over the process exits, a destroy that hangs included
\* (runtime.py:28).  A write that hangs keeps it from doing so only until the
\* totals are printed, for _finish waits for the lock and nothing after it does.
ExitsInTime ==
    AfterRun ~> phase = "down" \/ hung = "main" \/ (hung = "write" /\ phase = "finish")

\* Whatever the arguments and the environment, the pool that gets to run is one
\* the modes are written for: nobody in the class of an absent side, somebody
\* in each class when there are two, and shares as near to redo% as the number
\* of workers allows.
TopologySound ==
    phase = "create" =>
        LET N == config.threads
            B == config.redoPref
            r == config.redo_percent
        IN  /\ B + config.loadPref = N
            /\ N \in Nat \ {0} /\ B \in 0..N
            /\ B = 0 <=> r = 0
            /\ B = N <=> r = 100
            /\ (100 * B - N * r \in -50..50) \/ (B = 1 /\ N * r < 50) \/ (B = N - 1 /\ N * r > 100 * N - 50)
=============================================================================
