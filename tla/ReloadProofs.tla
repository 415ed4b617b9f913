---------------------------- MODULE ReloadProofs ----------------------------
(***************************************************************************)
(* The live reload for any number of engine threads, configurations,       *)
(* changes of the default and failed configuration calls.  A thread is     *)
(* between Recheck and the end of Adopt just while it holds reinit_lock,   *)
(* so adopted_default and the engine differ only inside; each change of    *)
(* the default allows for one reinitialize; and a read that tells a        *)
(* default from the one the engine runs is of a later change.              *)
(***************************************************************************)
EXTENDS ConfigReload, TLAPS

Holds(t) == tpc[t] \in {"recheck", "reinit", "adopt"}

LockHeld == \A t \in Threads : Holds(t) <=> reinitLock = t

\* The labels at which a thread has read a default.
SeenType ==
    \A t \in Threads :
        tpc[t] \in {"compare", "first", "lock", "reinit", "adopt"} => seen[t] \in Configs

Unseeded == seeded = "no" => reinits = 0 /\ \A t \in Threads : tpc[t] = "item"

\* Nothing is read ahead of the changes, and what was read at the last one is
\* the default registered now.
UpToDate(default, at) == at <= changes /\ (at = changes => default = registered)

Versions ==
    /\ UpToDate(engineConfig, engineAt)
    /\ \A t \in Threads : tpc[t] = "reinit" => UpToDate(seen[t], seenAt[t])

Differ(a, b) == IF a = b THEN 0 ELSE 1

\* How far a reload may be with the configuration the engine runs.  Behind a
\* wrong seed the engine runs a default that is not the last.
Right ==
    /\ adopted # None
    /\ \A t \in Threads : tpc[t] # "first"
    /\ ~Founded => engineAt < changes
    /\ Founded /\ (\A t \in Threads : tpc[t] # "adopt") => adopted = engineConfig
    /\ \A t \in Threads : tpc[t] = "adopt" => seen[t] = engineConfig
    /\ reinits + Differ(registered, engineConfig) <= changes
    /\ \A t \in Threads :
          tpc[t] = "reinit" =>
              /\ reinits + 1 + Differ(registered, seen[t]) <= changes
              /\ engineAt < seenAt[t]

IInv ==
    TypeOK /\ LockHeld /\ SeenType /\ Unseeded /\ Versions /\ (Seeded => Right)

\* Before the start-up seed nobody reloads anything.
LEMMA InitIInv == Init => IInv
  BY ReloadAssumption
  DEF Init, IInv, TypeOK, LockHeld, Holds, SeenType, Unseeded, Versions, UpToDate, Seeded

\* The variables keep their types, and what a thread goes by has been read.
LEMMA NextType ==
    ASSUME ReloadAssumption, TypeOK, SeenType, Next
    PROVE  TypeOK' /\ SeenType'
  <1> USE ReloadAssumption DEF TypeOK, SeenType, ReloadAssumption
  <1>1. CASE NewDefault
    BY <1>1 DEF NewDefault, engineSide, threadVars
  <1>2. CASE IntervalPasses
    BY <1>2 DEF IntervalPasses, outside, engineSide, threadVars
  <1>3. CASE Seed
    BY <1>3 DEF Seed, CallRaises, outside, engineSide, threadVars
  <1>4. ASSUME NEW t \in Threads, ThreadStep(t) PROVE TypeOK' /\ SeenType'
    <2> USE DEF outside, engineSide, Goto, Reconciled, ReconcileRaised, CallRaises, NextItem,
                Takes, Forgets, Look
    <2>1. CASE Poll(t)
      BY <2>1 DEF Poll
    <2>2. CASE ReadDefault(t)
      BY <2>2 DEF ReadDefault
    <2>3. CASE Compare(t)
      BY <2>3 DEF Compare
    <2>4. CASE AdoptFirst(t)
      BY <2>4 DEF AdoptFirst
    <2>5. CASE Acquire(t)
      BY <2>5 DEF Acquire
    <2>6. CASE Recheck(t)
      BY <2>6 DEF Recheck, Release, SecondLook
    <2>7. CASE Reinitialize(t)
      BY <2>7 DEF Reinitialize, Release, AfterFailedReinit
    <2>8. CASE Adopt(t)
      BY <2>8 DEF Adopt, Release
    <2>9. CASE EngineCall(t) \/ EndItem(t)
      BY <2>9 DEF EngineCall, EndItem
    <2> QED
      BY <1>4, <2>1, <2>2, <2>3, <2>4, <2>5, <2>6, <2>7, <2>8, <2>9 DEF ThreadStep
  <1> QED
    BY <1>1, <1>2, <1>3, <1>4 DEF Next

\* The lock is held by the one thread that is inside.
LEMMA NextLock ==
    ASSUME ReloadAssumption, TypeOK, LockHeld, Next
    PROVE  LockHeld'
  <1> USE DEF TypeOK, LockHeld, Holds
  <1>1. CASE NewDefault \/ IntervalPasses \/ Seed
    BY <1>1 DEF NewDefault, IntervalPasses, Seed, threadVars
  <1>2. ASSUME NEW t \in Threads, ThreadStep(t) PROVE LockHeld'
    <2> USE DEF Goto, Reconciled, ReconcileRaised, NextItem
    <2>1. CASE \/ Poll(t) \/ ReadDefault(t) \/ Compare(t) \/ AdoptFirst(t)
               \/ EngineCall(t) \/ EndItem(t)
      BY <2>1 DEF Poll, ReadDefault, Compare, AdoptFirst, EngineCall, EndItem
    <2>2. CASE Acquire(t)
      BY <2>2, ReloadAssumption DEF Acquire
    <2>3. CASE Recheck(t)
      BY <2>3, ReloadAssumption DEF Recheck, Release
    <2>4. CASE Reinitialize(t)
      BY <2>4, ReloadAssumption DEF Reinitialize, Release
    <2>5. CASE Adopt(t)
      BY <2>5, ReloadAssumption DEF Adopt, Release
    <2> QED
      BY <1>2, <2>1, <2>2, <2>3, <2>4, <2>5 DEF ThreadStep
  <1> QED
    BY <1>1, <1>2 DEF Next

\* No thread moves before the seed.
LEMMA NextUnseeded ==
    ASSUME TypeOK, Unseeded, Next
    PROVE  Unseeded'
  <1> USE DEF Unseeded, TypeOK
  <1>1. CASE NewDefault \/ IntervalPasses \/ Seed
    BY <1>1 DEF NewDefault, IntervalPasses, Seed, threadVars, engineSide
  <1>2. ASSUME NEW t \in Threads, ThreadStep(t) PROVE Unseeded'
    <2>1. seeded # "no"
      BY <1>2
      DEF ThreadStep, Poll, ReadDefault, Compare, AdoptFirst, Acquire, Recheck,
          Reinitialize, Adopt, EngineCall, EndItem
    <2>2. seeded' = seeded
      BY <1>2
      DEF ThreadStep, Poll, ReadDefault, Compare, AdoptFirst, Acquire, Recheck,
          Reinitialize, Adopt, EngineCall, EndItem, NextItem
    <2> QED
      BY <2>1, <2>2
  <1> QED
    BY <1>1, <1>2 DEF Next

\* What is read under the lock is the default of that moment, and a change of
\* the default leaves everything read behind.
LEMMA NextVersions ==
    ASSUME ReloadAssumption, IInv, Next
    PROVE  Versions'
  <1> USE DEF IInv, TypeOK, Versions, UpToDate
  <1>1. CASE NewDefault
    BY <1>1 DEF NewDefault, engineSide, threadVars
  <1>2. CASE IntervalPasses \/ Seed
    BY <1>2 DEF IntervalPasses, Seed, CallRaises, outside, engineSide, threadVars
  <1>3. ASSUME NEW t \in Threads, ThreadStep(t) PROVE Versions'
    <2> USE DEF outside, engineSide, Goto, Reconciled, ReconcileRaised, CallRaises, NextItem,
                Takes, Forgets
    <2>1. CASE Poll(t) \/ EngineCall(t) \/ EndItem(t)
      BY <2>1 DEF Poll, EngineCall, EndItem
    <2>2. CASE ReadDefault(t) \/ Compare(t) \/ AdoptFirst(t) \/ Acquire(t)
      BY <2>2 DEF ReadDefault, Compare, AdoptFirst, Acquire
    <2>3. CASE Recheck(t)
      <3>1. \A u \in Threads \ {t} :
              tpc'[u] = tpc[u] /\ seen'[u] = seen[u] /\ seenAt'[u] = seenAt[u]
        BY <2>3 DEF Recheck
      <3>2. UNCHANGED <<registered, changes, engineConfig, engineAt>>
        BY <2>3 DEF Recheck
      <3>3. tpc'[t] = "reinit" => seen'[t] = registered /\ seenAt'[t] = changes
        BY <2>3 DEF Recheck, SecondLook, Look
      <3> QED
        BY <3>1, <3>2, <3>3
    <2>4. CASE Reinitialize(t)
      <3>1. \A u \in Threads \ {t} :
              tpc'[u] = tpc[u] /\ seen'[u] = seen[u] /\ seenAt'[u] = seenAt[u]
        BY <2>4 DEF Reinitialize
      <3>2. tpc'[t] # "reinit" /\ UNCHANGED <<registered, changes>>
        BY <2>4 DEF Reinitialize
      <3>3. \/ engineConfig' = seen[t] /\ engineAt' = seenAt[t]
            \/ UNCHANGED <<engineConfig, engineAt>>
        BY <2>4 DEF Reinitialize
      <3> QED
        BY <2>4, <3>1, <3>2, <3>3 DEF Reinitialize
    <2>5. CASE Adopt(t)
      BY <2>5 DEF Adopt
    <2> QED
      BY <1>3, <2>1, <2>2, <2>3, <2>4, <2>5 DEF ThreadStep
  <1> QED
    BY <1>1, <1>2, <1>3 DEF Next

\* A seed starts the reload right: a wrong one had a change of the default
\* before it.
LEMMA SeedRight ==
    ASSUME ReloadAssumption, TypeOK, Unseeded, Versions, Seed, Seeded'
    PROVE  Right'
  <1>1. /\ seeded = "no" /\ adopted' = registered
        /\ registered = engineConfig <=> seeded' = "right"
        /\ UNCHANGED <<outside, engineSide, threadVars>>
    BY DEF Seed, Seeded
  <1>2. Founded' <=> registered = engineConfig
    BY <1>1 DEF Founded, Seeded, Unseeded, engineSide
  <1>3. registered # engineConfig => engineAt < changes
    BY DEF Versions, UpToDate, TypeOK
  <1>4. reinits + Differ(registered, engineConfig) <= changes
    BY <1>1, <1>3 DEF Unseeded, TypeOK, Differ
  <1> QED
    BY <1>1, <1>2, <1>3, <1>4, ReloadAssumption
    DEF Right, Unseeded, TypeOK, Differ, outside, engineSide, threadVars

\* A thread's step leaves the reload right.
LEMMA ThreadRight ==
    ASSUME ReloadAssumption, IInv, Right, Seeded, NEW t \in Threads, ThreadStep(t)
    PROVE  Right'
  <1> USE DEF IInv, TypeOK, Right, Seeded, Founded, Goto, outside, engineSide
  <1>1. CASE Poll(t) \/ EngineCall(t) \/ EndItem(t)
    BY <1>1 DEF Poll, EngineCall, EndItem, NextItem, Forgets, Takes
  <1>2. CASE ReadDefault(t)
    BY <1>2 DEF ReadDefault, ReconcileRaised, CallRaises, Forgets, Takes
  <1>3. CASE Compare(t)
    BY <1>3 DEF Compare, Reconciled, Forgets, Takes
  <1>4. CASE AdoptFirst(t)
    BY <1>4 DEF AdoptFirst
  <1>5. CASE Acquire(t)
    BY <1>5 DEF Acquire
  <1>6. CASE Recheck(t)
    <2>1. Founded => adopted = engineConfig
      BY <1>6 DEF Recheck, LockHeld, Holds
    <2>2. UNCHANGED <<registered, changes, engineConfig, engineAt, reinits, adopted, seeded>>
      BY <1>6 DEF Recheck, ReconcileRaised, CallRaises
    <2>3. \A u \in Threads \ {t} :
            tpc'[u] = tpc[u] /\ seen'[u] = seen[u] /\ seenAt'[u] = seenAt[u]
      BY <1>6 DEF Recheck, Reconciled, ReconcileRaised, Forgets, Takes
    <2>4. CASE /\ registered # adopted
               /\ tpc'[t] = "reinit" /\ seen'[t] = registered /\ seenAt'[t] = changes
      <3>1. engineAt < changes
        BY <2>1, <2>4 DEF Versions, UpToDate
      <3>2. reinits + 1 + Differ(registered, registered) <= changes
        <4>1. CASE Founded
          BY <2>1, <2>4, <4>1 DEF Differ
        <4>2. CASE ~Founded
          BY <3>1, <4>2 DEF Differ
        <4> QED
          BY <4>1, <4>2
      <3> QED
        BY <2>1, <2>2, <2>3, <2>4, <3>1, <3>2 DEF Differ
    <2>5. CASE tpc'[t] \in {"call", "retry", "giveup"}
      BY <2>1, <2>2, <2>3, <2>5 DEF Differ
    <2> QED
      BY <1>6, <2>4, <2>5
      DEF Recheck, AdoptedByPeer, SecondLook, Look, Reconciled, ReconcileRaised, Forgets, Takes
  <1>7. CASE Reinitialize(t)
    <2>1. \A u \in Threads \ {t} : ~Holds(u)
      BY <1>7 DEF Reinitialize, LockHeld, Holds
    <2>2. CASE engineConfig' = seen[t] /\ reinits' = reinits + 1 /\ Goto(t, "adopt")
      <3>1. seen' = seen /\ seenAt' = seenAt /\ UNCHANGED <<registered, changes, adopted>>
        BY <1>7, <2>2 DEF Reinitialize, ReconcileRaised
      <3> QED
        BY <1>7, <2>1, <2>2, <3>1 DEF Reinitialize, Holds, Differ, SeenType
    <2>3. CASE ReconcileRaised(t) /\ AfterFailedReinit(seen[t]) /\ UNCHANGED engineSide
      <3>1. Founded => adopted = engineConfig
        BY <1>7, <2>1 DEF Reinitialize, Holds
      <3> QED
        BY <1>7, <2>1, <2>3, <3>1
        DEF Reinitialize, Holds, ReconcileRaised, CallRaises, AfterFailedReinit, Forgets, Takes
    <2> QED
      BY <1>7, <2>2, <2>3 DEF Reinitialize
  <1>8. CASE Adopt(t)
    <2>1. \A u \in Threads \ {t} : ~Holds(u)
      BY <1>8 DEF Adopt, LockHeld, Holds
    <2> QED
      BY <1>8, <2>1, ReloadAssumption DEF Adopt, Holds, Reconciled, SeenType, Forgets, Takes
  <1> QED
    BY <1>1, <1>2, <1>3, <1>4, <1>5, <1>6, <1>7, <1>8 DEF ThreadStep

\* Every step keeps the invariant.
LEMMA NextIInv == IInv /\ [Next]_vars => IInv'
  <1> SUFFICES ASSUME IInv, [Next]_vars PROVE IInv'
    OBVIOUS
  <1>1. CASE UNCHANGED vars
    BY <1>1
    DEF vars, outside, engineSide, threadVars, IInv, TypeOK, LockHeld, Holds, SeenType,
        Unseeded, Versions, UpToDate, Right, Differ, Seeded, Founded
  <1>2. CASE Next
    <2>1. TypeOK' /\ SeenType' /\ LockHeld' /\ Unseeded' /\ Versions'
      BY <1>2, ReloadAssumption, NextType, NextLock, NextUnseeded, NextVersions DEF IInv
    <2>2. ASSUME Seeded' PROVE Right'
      <3>1. CASE Seed
        BY <2>2, <3>1, ReloadAssumption, SeedRight DEF IInv
      <3>2. CASE NewDefault
        BY <2>2, <3>2
        DEF NewDefault, IInv, TypeOK, Right, Differ, Seeded, Founded, engineSide, threadVars
      <3>3. CASE IntervalPasses
        BY <2>2, <3>3
        DEF IntervalPasses, IInv, Right, Differ, Seeded, Founded, outside, engineSide,
            threadVars
      <3>4. ASSUME NEW t \in Threads, ThreadStep(t) PROVE Right'
        <4>1. seeded' = seeded
          BY <3>4
          DEF ThreadStep, Poll, ReadDefault, Compare, AdoptFirst, Acquire, Recheck,
              Reinitialize, Adopt, EngineCall, EndItem, NextItem
        <4> QED
          BY <2>2, <3>4, <4>1, ReloadAssumption, ThreadRight DEF IInv, Seeded
      <3> QED
        BY <1>2, <3>1, <3>2, <3>3, <3>4 DEF Next
    <2> QED
      BY <2>1, <2>2 DEF IInv
  <1> QED
    BY <1>1, <1>2

\* adopted_default is what the engine runs whenever no thread is between the
\* two assignments, failed reinitializes included.
THEOREM AdoptedRuns == Spec => []AdoptedIsRunning
  <1>1. IInv => AdoptedIsRunning
    BY DEF IInv, Right, LockHeld, Holds, AdoptedIsRunning, Founded, Seeded
  <1> QED
    BY <1>1, InitIInv, NextIInv, PTL DEF Spec

\* However many threads see a change of the default, one reinitializes the
\* engine for it.
THEOREM OneReinitPerChange == Spec => []NoReinitStorm
  <1>1. IInv => NoReinitStorm
    BY DEF IInv, TypeOK, Right, Differ, NoReinitStorm
  <1> QED
    BY <1>1, InitIInv, NextIInv, PTL DEF Spec

\* A thread that holds the lock goes by what it read under it, so whatever its
\* peers reloaded while it waited, it takes the engine forward.
THEOREM ReloadsForward == Spec => EngineMovesForward
  <1>1. ASSUME IInv, [Next]_vars, Seeded, reinits' # reinits
        PROVE  engineAt < engineAt'
    <2>1. CASE UNCHANGED vars
      BY <1>1, <2>1 DEF vars, engineSide
    <2>2. CASE NewDefault \/ IntervalPasses \/ Seed
      BY <1>1, <2>2 DEF NewDefault, IntervalPasses, Seed, engineSide
    <2>3. ASSUME NEW t \in Threads, ThreadStep(t) PROVE engineAt < engineAt'
      <3>1. tpc[t] = "reinit" /\ engineAt' = seenAt[t]
        BY <1>1, <2>3
        DEF ThreadStep, Poll, ReadDefault, Compare, AdoptFirst, Acquire, Recheck,
            Reinitialize, Adopt, EngineCall, EndItem, NextItem, engineSide
      <3> QED
        BY <1>1, <3>1 DEF IInv, Right
    <2> QED
      BY <1>1, <2>1, <2>2, <2>3 DEF Next
  <1>2. IInv /\ [Next]_vars => (Seeded /\ reinits' # reinits => engineAt < engineAt')
    BY <1>1
  <1> QED
    BY <1>2, InitIInv, NextIInv, PTL DEF Spec, EngineMovesForward
=============================================================================
