------------------------------- MODULE Config -------------------------------
(***************************************************************************)
(* config.py, from the arguments and the environment to the resolved       *)
(* configuration.  argparse applies a type to a value of the command line  *)
(* and to no integer default, so a value of the environment is not checked *)
(* until resolve, which checks the topology only.                          *)
(***************************************************************************)
EXTENDS Integers

CONSTANT CpuCount

ASSUME CpuCountAssumption == CpuCount \in Nat \ {0}

Clamp(x, low, high) ==
    IF x > high THEN (IF high > low THEN high ELSE low) ELSE IF x > low THEN x ELSE low

\* Python's round of a / b: to the nearest integer, ties to the even one.
Rounded(a, b) ==
    LET quotient == a \div b
        rest == 2 * (a % b)
    IN  IF rest < b \/ (rest = b /\ quotient % 2 = 0) THEN quotient ELSE quotient + 1

\* |B|, the number of redo-preferring workers.  Faulty: not clamped.
UnclampedCount(threads, redo_percent) == Rounded(threads * redo_percent, 100)
redo_preferring_count(threads, redo_percent) ==
    CASE redo_percent = 0 -> 0
      [] redo_percent = 100 -> threads
      [] OTHER -> Clamp(Rounded(threads * redo_percent, 100), 1, threads - 1)

\* 0 threads stands for the CPU count.
Threads(args) == IF args.threads = 0 THEN CpuCount ELSE args.threads

\* validate_topology raises nothing.
ValidTopology(args) ==
    /\ args.redo_percent \in 0..100
    /\ args.redo_percent < 100 <=> args.hasFile
    /\ Threads(args) >= IF args.redo_percent \in {0, 100} THEN 1 ELSE 2

\* What parse_args refuses of the command line, with the exit code of argparse.
UsageError(args) ==
    \/ "skip" \in args.typed /\ args.skip < 0
    \/ "threads" \in args.typed /\ args.threads < 0

\* What resolve returns, or raises as ConfigError.
Resolves(args) == args.engineConfig /\ ValidTopology(args)

Resolved(args) ==
    LET redo == redo_preferring_count(Threads(args), args.redo_percent)
    IN  [loadPref |-> Threads(args) - redo, redoPref |-> redo,
         redo_percent |-> args.redo_percent, threads |-> Threads(args)]
=============================================================================
