---------------------------- MODULE LoadContract ----------------------------
(***************************************************************************)
(* What one load of a file promises whoever resumes it, with no thread, no *)
(* channel and no counter: each line past the skipped ones meets one fate, *)
(* once, and the watermark only moves forward, over lines that have met    *)
(* theirs.  FileLoader implements it; Runtime restarts it.                 *)
(***************************************************************************)
EXTENDS Integers

CONSTANTS
    LastLine,     \* physical lines of the input file
    LineKinds     \* the kinds of line it may have

ASSUME ContractAssumption ==
    /\ LastLine \in Nat
    /\ LineKinds \subseteq {"blank", "bad", "poison", "record"}

Lines == 1..LastLine

VARIABLES
    file,        \* what each line holds
    skip,        \* --skip-lines of this load
    fate,        \* what has become of each line in this load
    watermark    \* lines a resume may skip

contractVars == <<file, skip, fate, watermark>>

Fates == {"pending", "loaded", "written", "logged"}

Init ==
    /\ file \in [Lines -> LineKinds]
    /\ skip \in Int
    /\ fate = [l \in Lines |-> "pending"]
    /\ watermark = skip

\* Nothing settles a line that is not in the file.
Settled(l) == l \in Lines /\ (file[l] = "blank" \/ fate[l] # "pending")

\* The line is this load's to settle, and has not been.
Open(l) == skip < l /\ fate[l] = "pending"

Meets(l, what) ==
    /\ fate' = [fate EXCEPT ![l] = what]
    /\ UNCHANGED <<file, skip, watermark>>

\* The engine takes the record.
Load(l) == Open(l) /\ file[l] = "record" /\ Meets(l, "loaded")

\* The body goes to the reject file, or to the log when it cannot.
RejectLine(l) ==
    /\ Open(l)
    /\ file[l] \in {"record", "bad"}
    /\ Meets(l, "written") \/ Meets(l, "logged")

\* Lines complete out of order; the watermark passes settled ones.
Advance(n) ==
    /\ watermark < n
    /\ \A l \in (watermark + 1)..n : Settled(l)
    /\ watermark' = n
    /\ UNCHANGED <<file, skip, fate>>

LoadNext == \E l \in Lines : Load(l) \/ RejectLine(l) \/ Advance(l)

Spec == Init /\ [][LoadNext]_contractVars
=============================================================================
