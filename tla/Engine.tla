------------------------------- MODULE Engine -------------------------------
(***************************************************************************)
(* The Senzing engine, external to the repository, as the driver sees it:  *)
(* add_record(line) loads the line or raises; loading or redoing a record  *)
(* may leave more redo work in the repository's queue (a cascade);         *)
(* get_redo_record() removes and returns one redo record, or "" when there *)
(* is none at that moment.  Redo records carry no identity the driver      *)
(* looks at, so the queue is a number.  MaxRedo bounds the redo records    *)
(* the engine ever creates.                                                *)
(***************************************************************************)
EXTENDS Naturals

CONSTANT MaxRedo

ASSUME MaxRedoAssumption == MaxRedo \in Nat

VARIABLES
    db,          \* lines the engine has loaded
    redoQueue,   \* redo records waiting in the repository
    redoBudget   \* redo records it may still create

engineVars == <<db, redoQueue, redoBudget>>

\* Redo left by an earlier run may already be waiting.
EngineInit ==
    /\ db = {}
    /\ redoQueue \in 0..MaxRedo
    /\ redoBudget = MaxRedo - redoQueue

EngineTypeOK(Lines) ==
    /\ db \subseteq Lines
    /\ redoQueue \in 0..MaxRedo
    /\ redoBudget \in 0..MaxRedo
    /\ redoQueue + redoBudget <= MaxRedo

\* A call that changed the repository leaves it with zero or one more redo
\* record.
Cascade ==
    \E k \in {0, 1} :
        /\ k <= redoBudget
        /\ redoQueue' = redoQueue + k
        /\ redoBudget' = redoBudget - k

EngineAdd(line) == db' = db \union {line} /\ Cascade

EngineRedo == Cascade /\ UNCHANGED db

EngineGetRedo ==
    /\ redoQueue > 0
    /\ redoQueue' = redoQueue - 1
    /\ UNCHANGED <<db, redoBudget>>
=============================================================================
