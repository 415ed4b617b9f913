----------------------------- MODULE MCRuntime ------------------------------
(***************************************************************************)
(* The inputs of the run of Runtime: every file for one pool, and for a    *)
(* blank file every small pool, redo percentages on both sides of each     *)
(* bound, with and without the file, and values argparse does not check.   *)
(* A line that does not parse does nothing in the contract that a rejected *)
(* record cannot, and a poison line nothing: the run leaves both out.      *)
(***************************************************************************)
EXTENDS Runtime

Given(threads, redo, hasFile, skipped, configured, typed) ==
    [threads |-> threads, redo_percent |-> redo, hasFile |-> hasFile,
     skip |-> skipped, engineConfig |-> configured, typed |-> typed]

BlankFile == [l \in Lines |-> "blank"]

MCInputs ==
    {[args |-> Given(2, 50, TRUE, 0, TRUE, {}), file |-> f] : f \in [Lines -> LineKinds]}
    \union
    {[args |-> a, file |-> BlankFile] :
        a \in {Given(n, r, f, 0, TRUE, {}) :
                  n \in -1..3, r \in {-1, 0, 1, 50, 99, 100, 101}, f \in BOOLEAN}
              \union {Given(-1, 0, TRUE, 0, TRUE, {"threads"}),
                      Given(2, 50, TRUE, 0, FALSE, {}),
                      Given(2, 50, TRUE, -1, TRUE, {})}}
=============================================================================
