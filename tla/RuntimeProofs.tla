--------------------------- MODULE RuntimeProofs ----------------------------
(***************************************************************************)
(* What an operator may rely on over any number of starts, kills and short *)
(* writes, for every file and every set of arguments and environments.     *)
(***************************************************************************)
EXTENDS Runtime, FiniteSetTheorems, TLAPS

Args == [threads : Int, redo_percent : Int, skip : Int, hasFile : BOOLEAN,
         engineConfig : BOOLEAN, typed : SUBSET {"skip", "threads"}]

RuntimeTypeOK ==
    /\ args \in Args
    /\ watermark \in Int
    /\ fate \in [Lines -> Fates]
    /\ file \in [Lines -> LineKinds]
    /\ cuts \in Nat /\ shorts \in Nat
    /\ tornTail \in BOOLEAN
    /\ IsFiniteSet(damaged)

\* The process does not disturb what the load has done.
LoadUntouched == UNCHANGED <<file, fate, keptVars>>

-----------------------------------------------------------------------------
(* Types *)

\* The first process is typed as the inputs are.
LEMMA InitTyped == RuntimeInit => RuntimeTypeOK
  <1> SUFFICES ASSUME RuntimeInit PROVE RuntimeTypeOK
    OBVIOUS
  <1>1. PICK in \in Inputs : args = in.args /\ file = in.file
    BY DEF RuntimeInit
  <1>2. args \in Args /\ file \in [Lines -> LineKinds]
    BY <1>1, RuntimeAssumption DEF Args
  <1>3. watermark \in Int
    BY <1>2 DEF RuntimeInit, Args
  <1>4. fate \in [Lines -> Fates]
    BY DEF RuntimeInit, Fates
  <1> QED
    BY <1>2, <1>3, <1>4, FS_EmptySet DEF RuntimeInit, RuntimeTypeOK

\* Resuming with a number makes arguments of arguments.
LEMMA ResumedArgs ==
    ASSUME args \in Args, NEW n \in Int,
           args' = [args EXCEPT !.skip = n, !.typed = @ \union {"skip"}]
    PROVE  /\ args' \in Args /\ args'.skip = n
           /\ args'.threads = args.threads /\ args'.redo_percent = args.redo_percent
           /\ args'.hasFile = args.hasFile
  BY DEF Args

\* A line met by its fate stays a line of the contract.
LEMMA MeetsTyped ==
    ASSUME RuntimeTypeOK, NEW l \in Lines, Load(l) \/ RejectLine(l)
    PROVE  /\ fate' \in [Lines -> Fates] /\ UNCHANGED <<file, skip, watermark>>
           /\ fate'[l] \in {"loaded", "written", "logged"}
           /\ \A m \in Lines \ {l} : fate'[m] = fate[m]
  BY DEF RuntimeTypeOK, Load, RejectLine, Meets, Fates

\* What writing a line to the reject file does to what is kept.
LEMMA Written ==
    ASSUME RuntimeTypeOK, NEW l \in Lines, WriteLine(l)
    PROVE  /\ tornTail' \in BOOLEAN /\ shorts' \in Nat /\ cuts' = cuts
           /\ IsFiniteSet(damaged')
           /\ l \in onRecord' \union damaged'
           /\ onRecord \subseteq onRecord' /\ damaged \subseteq damaged' /\ loaded' = loaded
  <1>1. IsFiniteSet(damaged \union {l})
    BY FS_AddElement DEF RuntimeTypeOK
  <1>2. tornTail' \in BOOLEAN
    BY DEF WriteLine, TailAfterWrite
  <1>3. shorts' \in Nat
    BY DEF WriteLine, RuntimeTypeOK
  <1>4. \/ damaged' = damaged \union {l} /\ onRecord' = onRecord
        \/ damaged' = damaged /\ onRecord' = onRecord \union {l}
    BY DEF WriteLine
  <1>5. loaded' = loaded /\ cuts' = cuts
    BY DEF WriteLine
  <1> QED
    BY <1>1, <1>2, <1>3, <1>4, <1>5 DEF RuntimeTypeOK

\* Whatever became of it, the line is kept, and nothing kept is lost.
LEMMA Kept ==
    ASSUME RuntimeTypeOK, NEW l \in Lines, Load(l) \/ RejectLine(l), Keep(l)
    PROVE  /\ tornTail' \in BOOLEAN /\ shorts' \in Nat /\ cuts' = cuts
           /\ IsFiniteSet(damaged')
           /\ l \in loaded' \union onRecord' \union damaged'
           /\ loaded \union onRecord \union damaged
                \subseteq loaded' \union onRecord' \union damaged'
  <1>1. CASE fate'[l] = "loaded"
    BY <1>1 DEF Keep, RuntimeTypeOK
  <1>2. CASE fate'[l] = "logged"
    BY <1>2 DEF Keep, RuntimeTypeOK
  <1>3. CASE fate'[l] \notin {"loaded", "logged"}
    <2>1. WriteLine(l)
      BY <1>3 DEF Keep
    <2> QED
      BY <2>1, Written
  <1> QED
    BY <1>1, <1>2, <1>3

\* The steps that neither touch the load, nor choose where it resumes, nor end
\* the process while it may be writing.
Aside ==
    \/ Start \/ Resolve \/ Create \/ Install \/ EndRun \/ Teardown \/ DestroyReturns
    \/ GraceEnds \/ WriteHangs \/ MainHangs \/ Signal \/ UNCHANGED vars

\* They leave alone what a resume depends on.
LEMMA AsideUntouched ==
    Aside => LoadUntouched /\ UNCHANGED <<args, watermark>>
  BY DEF Aside, Start, Resolve, Create, Install, EndRun, Teardown, DestroyReturns,
         GraceEnds, WriteHangs, MainHangs, Signal, vars, LoadUntouched, contractVars,
         processVars, keptVars

\* The ends of a process that printed nothing, or had done so before.
Ends == EndProcess /\ UNCHANGED args

\* Every step is one of those, or one of the four that matter.
LEMMA StepKinds ==
    [Next]_vars =>
        Aside \/ Ends \/ Reset \/ Finish \/ LoadLine \/ AdvanceWatermark
  BY DEF Next, Main, Aside, Ends, FinishFails, Exit, Kill

\* What is left of the load when the process ends.
LEMMA EndsUntouched ==
    ASSUME RuntimeTypeOK, Ends
    PROVE  /\ UNCHANGED <<file, fate, watermark, args, loaded, onRecord, damaged, shorts>>
           /\ tornTail' \in BOOLEAN /\ cuts' \in {cuts, cuts + 1}
           /\ tornTail' = tornTail \/ cuts' = cuts + 1
           /\ phase' = "down"
  BY DEF Ends, EndProcess, RuntimeTypeOK, contractVars

\* Types are kept.
LEMMA NextTyped ==
    ASSUME RuntimeTypeOK, [Next]_vars
    PROVE  RuntimeTypeOK'
  <1>1. CASE Aside
    BY <1>1, AsideUntouched DEF RuntimeTypeOK, LoadUntouched, keptVars
  <1>2. CASE Reset
    BY <1>2 DEF Reset, RuntimeTypeOK, Tracker, Args, Fates, keptVars
  <1>3. CASE Finish
    BY <1>3, ResumedArgs
    DEF Finish, RuntimeTypeOK, ResumeAt, contractVars, keptVars
  <1>4. CASE LoadLine
    <2>1. PICK l \in Lines : (Load(l) \/ RejectLine(l)) /\ Keep(l)
      BY <1>4 DEF LoadLine
    <2> QED
      BY <1>4, <2>1, MeetsTyped, Kept DEF LoadLine, RuntimeTypeOK, processVars
  <1>5. CASE AdvanceWatermark
    BY <1>5
    DEF AdvanceWatermark, Advance, RuntimeTypeOK, Lines, processVars, keptVars
  <1>6. CASE Ends
    BY <1>6, EndsUntouched DEF RuntimeTypeOK
  <1> QED
    BY <1>1, <1>2, <1>3, <1>4, <1>5, <1>6, StepKinds

-----------------------------------------------------------------------------
(* A resume skips nothing that is not done *)

KeptUpTo(n) ==
    \A l \in Lines : l <= n => file[l] = "blank" \/ l \in loaded \union onRecord \union damaged

\* A fate is kept longer than the process that dealt it, and both the number
\* the operator has and the one a running load would print are backed by what
\* is kept.
Backed ==
    /\ \A l \in Lines : fate[l] # "pending" => l \in loaded \union onRecord \union damaged
    /\ KeptUpTo(args.skip)
    /\ KeptUpTo(watermark)

\* Every step keeps the numbers backed.
LEMMA NextBacked ==
    ASSUME RuntimeTypeOK, Backed, [Next]_vars
    PROVE  Backed'
  <1>1. CASE Aside
    BY <1>1, AsideUntouched DEF LoadUntouched, Backed, KeptUpTo, keptVars
  <1>2. CASE Reset
    BY <1>2 DEF Reset, Backed, KeptUpTo, Tracker, keptVars
  <1>3. CASE Finish
    <2>1. args'.skip = args.skip \/ args'.skip = watermark
      BY <1>3, ResumedArgs DEF Finish, ResumeAt, RuntimeTypeOK
    <2> QED
      BY <1>3, <2>1 DEF Finish, Backed, KeptUpTo, contractVars, keptVars
  <1>4. CASE LoadLine
    <2>1. PICK l \in Lines : (Load(l) \/ RejectLine(l)) /\ Keep(l)
      BY <1>4 DEF LoadLine
    <2>2. UNCHANGED <<args, file, watermark>>
      BY <1>4, <2>1, MeetsTyped DEF LoadLine, processVars
    <2> QED
      BY <2>1, <2>2, MeetsTyped, Kept DEF Backed, KeptUpTo
  <1>5. CASE AdvanceWatermark
    <2>1. PICK n \in Lines : Advance(n)
      BY <1>5 DEF AdvanceWatermark
    <2>2. \A l \in Lines : l <= n => l <= watermark \/ l \in (watermark + 1)..n
      BY DEF Lines, RuntimeTypeOK
    <2>3. KeptUpTo(n)
      BY <2>1, <2>2 DEF Advance, Settled, Backed, KeptUpTo
    <2>4. UNCHANGED <<args, loaded, onRecord, damaged>>
      BY <1>5 DEF AdvanceWatermark, processVars, keptVars
    <2> QED
      BY <2>1, <2>3, <2>4 DEF Advance, Backed, KeptUpTo
  <1>6. CASE Ends
    BY <1>6, EndsUntouched DEF Backed, KeptUpTo
  <1> QED
    BY <1>1, <1>2, <1>3, <1>4, <1>5, <1>6, StepKinds

\* When the first start is from the top of the file, resuming with the last
\* --skip-lines printed skips nothing that is not blank, in the repository or
\* written somewhere, however many starts, kills, failures and short writes
\* there were before.
THEOREM ResumeIsSafe ==
    ASSUME \A in \in Inputs : in.args.skip <= 0
    PROVE  RuntimeSpec => []ResumeSafe
  <1>1. RuntimeInit => RuntimeTypeOK /\ Backed
    <2> SUFFICES ASSUME RuntimeInit PROVE Backed
      BY InitTyped
    <2>1. \A l \in Lines : l \in Nat \ {0}
      BY DEF Lines
    <2>2. args.skip \in Int /\ args.skip <= 0 /\ watermark = args.skip
      BY RuntimeAssumption DEF RuntimeInit
    <2> QED
      BY <2>1, <2>2 DEF RuntimeInit, Backed, KeptUpTo
  <1>2. RuntimeTypeOK /\ Backed /\ [Next]_vars => RuntimeTypeOK' /\ Backed'
    BY NextTyped, NextBacked
  <1>3. Backed => ResumeSafe
    BY DEF Backed, KeptUpTo, ResumeSafe
  <1> QED
    BY <1>1, <1>2, <1>3, PTL DEF RuntimeSpec

\* Once a load runs it is not behind where it was told to start, until the
\* operator has been told where to resume.
NotBehind == phase \in {"run", "finish"} => watermark >= args.skip

\* Every step keeps it there.
LEMMA NextNotBehind ==
    ASSUME RuntimeTypeOK, NotBehind, [Next]_vars
    PROVE  NotBehind'
  <1>1. CASE Aside
    <2>1. phase' \in {"run", "finish"} => phase \in {"run", "finish"}
      BY <1>1
      DEF Aside, Start, Resolve, Create, Install, EndRun, Teardown, DestroyReturns,
          GraceEnds, WriteHangs, MainHangs, Signal, Goto, vars, processVars
    <2> QED
      BY <1>1, <2>1, AsideUntouched DEF NotBehind
  <1>2. CASE Reset
    BY <1>2 DEF Reset, NotBehind, Tracker, RuntimeTypeOK, Args
  <1>3. CASE Finish \/ Ends
    BY <1>3 DEF Finish, Ends, EndProcess, Goto, NotBehind
  <1>4. CASE LoadLine
    BY <1>4, MeetsTyped DEF LoadLine, NotBehind, processVars
  <1>5. CASE AdvanceWatermark
    BY <1>5
    DEF AdvanceWatermark, Advance, NotBehind, processVars, RuntimeTypeOK, Args, Lines
  <1> QED
    BY <1>1, <1>2, <1>3, <1>4, <1>5, StepKinds

\* A process resumed with what was printed never prints less.
THEOREM ResumeGoesForward == RuntimeSpec => ResumeMovesForward
  <1>1. RuntimeInit => RuntimeTypeOK /\ NotBehind
    BY InitTyped DEF RuntimeInit, NotBehind
  <1>2. RuntimeTypeOK /\ NotBehind /\ [Next]_vars => RuntimeTypeOK' /\ NotBehind'
    BY NextTyped, NextNotBehind
  <1>3. RuntimeTypeOK /\ NotBehind /\ [Next]_vars => [args'.skip >= args.skip]_args
    <2> SUFFICES ASSUME RuntimeTypeOK, NotBehind, [Next]_vars, args' # args
                 PROVE  args'.skip >= args.skip
      OBVIOUS
    <2>1. Finish
      BY StepKinds, AsideUntouched
      DEF Reset, LoadLine, AdvanceWatermark, Ends, processVars
    <2>2. args'.skip = watermark
      BY <2>1, ResumedArgs DEF Finish, ResumeAt, RuntimeTypeOK
    <2> QED
      BY <2>1, <2>2 DEF Finish, Goto, NotBehind
  <1> QED
    BY <1>1, <1>2, <1>3, PTL DEF RuntimeSpec, ResumeMovesForward

-----------------------------------------------------------------------------
(* What torn tails cost *)

\* A tail that is torn has a line of damage still to do.
Owed == Cardinality(damaged) + (IF tornTail THEN 1 ELSE 0) <= cuts + 2 * shorts

\* Writing a line pays what the tail owed, and a short write adds two.
LEMMA WriteLineOwes ==
    ASSUME RuntimeTypeOK, Owed, NEW l \in Lines, WriteLine(l)
    PROVE  Owed'
  <1>0. Cardinality(damaged) \in Nat /\ cuts' = cuts
    BY FS_CardinalityType DEF RuntimeTypeOK, WriteLine
  <1>1. CASE damaged' = damaged
    BY <1>0, <1>1 DEF Owed, WriteLine, RuntimeTypeOK, TailAfterWrite
  <1>2. CASE damaged' = damaged \union {l}
    <2>1. Cardinality(damaged') \in Nat /\ Cardinality(damaged') <= Cardinality(damaged) + 1
      <3>1. IsFiniteSet(damaged)
        BY DEF RuntimeTypeOK
      <3>2. Cardinality(damaged \union {l}) \in {Cardinality(damaged), Cardinality(damaged) + 1}
        BY <3>1, FS_AddElement, Zenon
      <3> QED
        BY <1>0, <1>2, <3>2
    <2>2. CASE shorts' = shorts + 1
      BY <1>0, <2>1, <2>2 DEF Owed, WriteLine, RuntimeTypeOK
    <2>3. CASE shorts' = shorts /\ tornTail' = FALSE /\ tornTail
      BY <1>0, <2>1, <2>3 DEF Owed, RuntimeTypeOK
    <2>4. CASE shorts' = shorts /\ tornTail' = FALSE /\ ~tornTail
      <3>1. damaged' = damaged
        BY <2>4 DEF WriteLine, RuntimeTypeOK
      <3> QED
        BY <3>1, <1>1
    <2> QED
      BY <2>2, <2>3, <2>4 DEF WriteLine, TailAfterWrite, RuntimeTypeOK
  <1> QED
    BY <1>1, <1>2 DEF WriteLine

\* Every step keeps the account.
LEMMA NextOwed ==
    ASSUME RuntimeTypeOK, Owed, [Next]_vars
    PROVE  Owed'
  <1>1. CASE Aside \/ Reset \/ Finish \/ AdvanceWatermark
    <2>1. UNCHANGED <<damaged, tornTail, cuts, shorts>>
      BY <1>1, AsideUntouched DEF Reset, Finish, AdvanceWatermark, LoadUntouched, keptVars
    <2> QED
      BY <2>1 DEF Owed
  <1>2. CASE LoadLine
    <2>1. PICK l \in Lines : (Load(l) \/ RejectLine(l)) /\ Keep(l)
      BY <1>2 DEF LoadLine
    <2>2. CASE WriteLine(l)
      BY <2>1, <2>2, WriteLineOwes
    <2>3. CASE UNCHANGED <<damaged, tornTail, shorts, cuts>>
      BY <2>3 DEF Owed
    <2> QED
      BY <2>1, <2>2, <2>3 DEF Keep
  <1>3. CASE Ends
    <2>1. Cardinality(damaged) \in Nat
      BY FS_CardinalityType DEF RuntimeTypeOK
    <2> QED
      BY <1>3, <2>1, EndsUntouched DEF Owed, RuntimeTypeOK
  <1> QED
    BY <1>1, <1>2, <1>3, StepKinds

\* However the processes end, one that is killed or exits before its reader or
\* consumer costs one line of the reject file at most, and a short write two.
THEOREM TearsAreBounded == RuntimeSpec => []TearsCostLittle
  <1>1. RuntimeInit => RuntimeTypeOK /\ Owed
    BY InitTyped, FS_EmptySet DEF RuntimeInit, Owed
  <1>2. RuntimeTypeOK /\ Owed /\ [Next]_vars => RuntimeTypeOK' /\ Owed'
    BY NextTyped, NextOwed
  <1>3. RuntimeTypeOK /\ Owed => TearsCostLittle
    BY FS_CardinalityType DEF Owed, TearsCostLittle, RuntimeTypeOK
  <1> QED
    BY <1>1, <1>2, <1>3, PTL DEF RuntimeSpec

-----------------------------------------------------------------------------
(* The pool that gets to run *)

\* Rounding is off by half at most.
LEMMA RoundedIsNear ==
    ASSUME NEW a \in Nat
    PROVE  Rounded(a, 100) \in Nat /\ 100 * Rounded(a, 100) - a \in -50..50
  BY DEF Rounded

\* Both classes have a worker, as near to the share as that allows.
LEMMA BothClasses ==
    ASSUME NEW N \in Nat, N >= 2, NEW a \in Nat,
           NEW B, B = Clamp(Rounded(a, 100), 1, N - 1)
    PROVE  /\ B \in 1..(N - 1)
           /\ (100 * B - a \in -50..50) \/ (B = 1 /\ a < 50) \/ (B = N - 1 /\ a > 100 * N - 50)
  <1> DEFINE x == Rounded(a, 100)
  <1>1. x \in Nat /\ 100 * x - a \in -50..50
    BY RoundedIsNear
  <1>2. B = IF x > N - 1 THEN (IF N - 1 > 1 THEN N - 1 ELSE 1) ELSE IF x > 1 THEN x ELSE 1
    BY DEF Clamp
  <1> HIDE DEF x
  <1>3. CASE x > N - 1
    BY <1>1, <1>2, <1>3
  <1>4. CASE x <= N - 1 /\ x > 1
    BY <1>1, <1>2, <1>4
  <1>5. CASE x <= 1
    BY <1>1, <1>2, <1>5
  <1> QED
    BY <1>1, <1>3, <1>4, <1>5

\* A configuration that resolves is a pool the modes are written for.
LEMMA ResolvedIsSound ==
    ASSUME args \in Args, Resolves(args), config' = Resolved(args), UNCHANGED args
    PROVE  TopologySound'
  <1> DEFINE N == Threads(args)
             r == args.redo_percent
             B == redo_preferring_count(N, r)
  <1>0. N \in Int /\ N >= 1 /\ r \in 0..100 /\ (r \in 1..99 => N >= 2)
    BY CpuCountAssumption DEF Resolves, ValidTopology, Threads, Args
  <1>1. /\ config'.threads = N /\ config'.redo_percent = r
        /\ config'.redoPref = B /\ config'.loadPref = N - B
    BY DEF Resolved
  <1>2. CASE r = 0
    BY <1>0, <1>1, <1>2 DEF redo_preferring_count, TopologySound
  <1>3. CASE r = 100
    BY <1>0, <1>1, <1>3 DEF redo_preferring_count, TopologySound
  <1>4. CASE r \in 1..99
    <2>1. B = Clamp(Rounded(N * r, 100), 1, N - 1)
      BY <1>4 DEF redo_preferring_count
    <2> HIDE DEF N, r, B
    <2>2. N * r \in Nat /\ N \in Nat /\ N >= 2
      BY <1>0, <1>4
    <2>3. /\ B \in 1..(N - 1)
          /\ \/ 100 * B - N * r \in -50..50
             \/ B = 1 /\ N * r < 50
             \/ B = N - 1 /\ N * r > 100 * N - 50
      <3> DEFINE a == N * r
      <3> HIDE DEF a
      <3>1. a \in Nat /\ B = Clamp(Rounded(a, 100), 1, N - 1)
        BY <2>1, <2>2 DEF a
      <3>2. /\ B \in 1..(N - 1)
            /\ (100 * B - a \in -50..50) \/ (B = 1 /\ a < 50) \/ (B = N - 1 /\ a > 100 * N - 50)
        BY <2>2, <3>1, BothClasses
      <3> QED
        BY <3>2 DEF a
    <2> QED
      BY <1>0, <1>1, <1>4, <2>2, <2>3 DEF TopologySound
  <1> QED
    BY <1>0, <1>2, <1>3, <1>4

\* Whatever the arguments and the environment, the pool that gets to run is
\* sound.
THEOREM TopologyIsSound == RuntimeSpec => []TopologySound
  <1>1. RuntimeInit => RuntimeTypeOK /\ TopologySound
    BY InitTyped DEF RuntimeInit, TopologySound
  <1>2. RuntimeTypeOK /\ TopologySound /\ [Next]_vars => RuntimeTypeOK' /\ TopologySound'
    <2> SUFFICES ASSUME RuntimeTypeOK, TopologySound, [Next]_vars PROVE TopologySound'
      BY NextTyped
    <2>1. CASE Resolve
      BY <2>1, ResolvedIsSound DEF Resolve, RuntimeTypeOK, TopologySound
    <2>2. CASE UNCHANGED vars \/ LoadLine \/ AdvanceWatermark
      BY <2>2 DEF vars, LoadLine, AdvanceWatermark, processVars, memoryVars, TopologySound
    <2>3. CASE ~Resolve /\ phase' # "create"
      BY <2>3 DEF TopologySound
    <2> QED
      BY <2>1, <2>2, <2>3
      DEF Next, Main, Start, Create, Install, Reset, EndRun, Finish, FinishFails,
          Teardown, DestroyReturns, GraceEnds, Exit, WriteHangs, MainHangs, Signal, Kill,
          EndProcess, WritersAlive, AfterRun, Goto
  <1> QED
    BY <1>1, <1>2, PTL DEF RuntimeSpec
=============================================================================
