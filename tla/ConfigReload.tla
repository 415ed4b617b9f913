---------------------------- MODULE ConfigReload ----------------------------
(***************************************************************************)
(* config_reload.py with its two callers in worker.py.  Every engine       *)
(* thread polls before an item and asks reinit_if_stale after a call that  *)
(* raised; both run _reconcile, whose reads of the registered default and  *)
(* of adopted_default are unlocked and whose second look is not.           *)
(* Labels of a thread: "item" about to take one; "read" the registered     *)
(* default; "compare" it with adopted_default; "first" to write it there;  *)
(* "lock" waits for reinit_lock; "recheck", "reinit" and "adopt" hold it;  *)
(* "call" in the engine, "retry" a second time; "giveup" raises the error. *)
(***************************************************************************)
EXTENDS Naturals

CONSTANTS
    Threads,
    Configs,       \* configuration ids
    None,          \* adopted_default is _NO_DEFAULT; nobody holds a lock
    PollEnabled,   \* SENZING_CONFIG_RELOAD_SECS is not 0
    MaxChanges,    \* bound on the changes of the registered default
    MaxFailures    \* bound on the configuration calls that raise

ASSUME ReloadAssumption ==
    /\ None \notin Configs \union Threads
    /\ PollEnabled \in BOOLEAN
    /\ MaxChanges \in Nat
    /\ MaxFailures \in Nat

VARIABLES
    registered,    \* the default configuration of the repository (external)
    changes, failures,
    engineConfig,  \* the configuration the engine runs (external)
    reinits,       \* how often it was reinitialized
    adopted,       \* _state.adopted_default
    slotDue,       \* the poll interval has passed since _state.last_poll
    reinitLock,    \* who holds _state.reinit_lock
    seeded,        \* "no" before log_startup_config, then how it went
    tpc,
    trigger,       \* which trigger a thread's _reconcile came from
    seen,          \* its local `default`
    failedWith,    \* what the engine ran when its call raised
    \* History, which no guard reads: how many changes the default had seen
    \* when it was read, by a thread or for the engine.
    seenAt, engineAt

outside == <<registered, changes, failures>>
engineSide == <<engineConfig, reinits, engineAt>>
threadVars == <<tpc, trigger, seen, failedWith, seenAt>>
vars == <<outside, engineSide, adopted, slotDue, reinitLock, seeded, threadVars>>

\* The engine was created with the default registered at that time.
Init ==
    /\ registered \in Configs
    /\ changes = 0
    /\ failures = 0
    /\ engineConfig = registered
    /\ reinits = 0
    /\ adopted = None
    /\ slotDue \in BOOLEAN
    /\ reinitLock = None
    /\ seeded = "no"
    /\ tpc = [t \in Threads |-> "item"]
    /\ trigger = [t \in Threads |-> "poll"]
    /\ seen = [t \in Threads |-> None]
    /\ failedWith = [t \in Threads |-> None]
    /\ seenAt = [t \in Threads |-> 0]
    /\ engineAt = 0

TypeOK ==
    /\ registered \in Configs
    /\ changes \in 0..MaxChanges
    /\ failures \in 0..MaxFailures
    /\ engineConfig \in Configs
    /\ reinits \in Nat
    /\ adopted \in Configs \union {None}
    /\ slotDue \in BOOLEAN
    /\ reinitLock \in Threads \union {None}
    /\ seeded \in {"no", "right", "wrong", "failed"}
    /\ tpc \in [Threads -> {"item", "read", "compare", "first", "lock", "recheck",
                            "reinit", "adopt", "call", "retry", "giveup"}]
    /\ trigger \in [Threads -> {"poll", "error"}]
    /\ seen \in [Threads -> Configs \union {None}]
    /\ failedWith \in [Threads -> Configs \union {None}]
    /\ seenAt \in [Threads -> Nat]
    /\ engineAt \in Nat

-----------------------------------------------------------------------------
(* Around the driver *)

\* An operator registers another default.
NewDefault ==
    /\ changes < MaxChanges
    /\ changes' = changes + 1
    /\ registered' \in Configs \ {registered}
    /\ UNCHANGED <<failures, engineSide, adopted, slotDue, reinitLock, seeded,
                   threadVars>>

IntervalPasses ==
    /\ ~slotDue
    /\ slotDue' = TRUE
    /\ UNCHANGED <<outside, engineSide, adopted, reinitLock, seeded, threadVars>>

\* get_default_config_id or reinitialize raises.
CallRaises ==
    /\ failures < MaxFailures
    /\ failures' = failures + 1
    /\ UNCHANGED <<registered, changes>>

-----------------------------------------------------------------------------
(* log_startup_config, before the workers start *)

Seed ==
    /\ seeded = "no"
    /\ \/ /\ adopted' = registered
          /\ seeded' = IF registered = engineConfig THEN "right" ELSE "wrong"
          /\ UNCHANGED outside
       \/ CallRaises /\ seeded' = "failed" /\ UNCHANGED adopted
    /\ UNCHANGED <<engineSide, slotDue, reinitLock, threadVars>>

-----------------------------------------------------------------------------
(* A thread *)

Goto(t, label) == tpc' = [tpc EXCEPT ![t] = label]

\* poll: one thread claims the interval.
Poll(t) ==
    /\ seeded # "no"
    /\ tpc[t] = "item"
    /\ trigger' = [trigger EXCEPT ![t] = "poll"]
    /\ IF PollEnabled /\ slotDue
       THEN slotDue' = FALSE /\ Goto(t, "read")
       ELSE Goto(t, "call") /\ UNCHANGED slotDue
    /\ UNCHANGED <<outside, engineSide, adopted, reinitLock, seeded, seen, failedWith,
                   seenAt>>

\* A thread's local `default`.
Takes(t, look) ==
    /\ seen' = [seen EXCEPT ![t] = look.default]
    /\ seenAt' = [seenAt EXCEPT ![t] = look.at]
Forgets(t) == Takes(t, [default |-> None, at |-> 0])

Look == [default |-> registered, at |-> changes]

\* _reconcile has returned: poll ignores the result.
Reconciled(t, changed) ==
    /\ Goto(t, CASE trigger[t] = "poll" -> "call"
                 [] trigger[t] = "error" /\ changed -> "retry"
                 [] OTHER -> "giveup")
    /\ IF changed \/ trigger[t] = "poll"
       THEN Forgets(t)
       ELSE UNCHANGED <<seen, seenAt>>

\* It raised: poll ignores that too, and reinit_if_stale makes it False.
ReconcileRaised(t) ==
    /\ CallRaises
    /\ Goto(t, IF trigger[t] = "poll" THEN "call" ELSE "giveup")
    /\ Forgets(t)

ReadDefault(t) ==
    /\ tpc[t] = "read"
    /\ \/ /\ Takes(t, Look)
          /\ Goto(t, "compare")
          /\ UNCHANGED outside
       \/ ReconcileRaised(t)
    /\ UNCHANGED <<engineSide, adopted, slotDue, reinitLock, seeded, trigger, failedWith>>

Compare(t) ==
    /\ tpc[t] = "compare"
    /\ CASE adopted = None -> Goto(t, "first") /\ UNCHANGED <<seen, seenAt>>
         [] adopted = seen[t] -> Reconciled(t, FALSE)
         [] OTHER -> Goto(t, "lock") /\ UNCHANGED <<seen, seenAt>>
    /\ UNCHANGED <<outside, engineSide, adopted, slotDue, reinitLock, seeded, trigger,
                   failedWith>>

\* The first observation is taken for what the engine runs.
AdoptFirst(t) ==
    /\ tpc[t] = "first"
    /\ adopted' = seen[t]
    /\ Reconciled(t, FALSE)
    /\ UNCHANGED <<outside, engineSide, slotDue, reinitLock, seeded, trigger, failedWith>>

Acquire(t) ==
    /\ tpc[t] = "lock"
    /\ reinitLock = None
    /\ reinitLock' = t
    /\ Goto(t, "recheck")
    /\ UNCHANGED <<outside, engineSide, adopted, slotDue, seeded, trigger, seen, failedWith,
                   seenAt>>

\* Leaving `with reinit_lock`, by an exception too.  Faulty: only otherwise.
ReleaseUnlessRaised(raised) == reinitLock' = IF raised THEN reinitLock ELSE None
Release(raised) == reinitLock' = None

\* The default is read again under the lock.  Faulty: the first read has to do.
FirstLook(t) == [default |-> seen[t], at |-> seenAt[t]]
SecondLook(t) == Look

\* The second look finds that a peer adopted the default.  Faulty: it finds nothing.
NeverAdoptedByPeer(default) == FALSE
AdoptedByPeer(default) == default = adopted

Recheck(t) ==
    /\ tpc[t] = "recheck"
    /\ \/ /\ UNCHANGED outside
          /\ IF AdoptedByPeer(SecondLook(t).default)
             THEN Reconciled(t, TRUE) /\ Release(FALSE)
             ELSE /\ Takes(t, SecondLook(t))
                  /\ Goto(t, "reinit")
                  /\ UNCHANGED reinitLock
       \/ ReconcileRaised(t) /\ Release(TRUE)
    /\ UNCHANGED <<engineSide, adopted, slotDue, seeded, trigger, failedWith>>

\* A reinitialize that raised adopts nothing.  Faulty: it adopts the default.
AdoptAnyway(default) == adopted' = default
AfterFailedReinit(default) == UNCHANGED adopted

Reinitialize(t) ==
    /\ tpc[t] = "reinit"
    /\ \/ /\ engineConfig' = seen[t]
          /\ engineAt' = seenAt[t]
          /\ reinits' = reinits + 1
          /\ Goto(t, "adopt")
          /\ UNCHANGED <<outside, adopted, reinitLock, seen, seenAt>>
       \/ /\ ReconcileRaised(t)
          /\ AfterFailedReinit(seen[t])
          /\ Release(TRUE)
          /\ UNCHANGED engineSide
    /\ UNCHANGED <<slotDue, seeded, trigger, failedWith>>

Adopt(t) ==
    /\ tpc[t] = "adopt"
    /\ adopted' = seen[t]
    /\ Reconciled(t, TRUE)
    /\ Release(FALSE)
    /\ UNCHANGED <<outside, engineSide, slotDue, seeded, trigger, failedWith>>

\* Done with the item, whatever became of it.
NextItem(t) ==
    /\ Goto(t, "item")
    /\ Forgets(t)
    /\ failedWith' = [failedWith EXCEPT ![t] = None]
    /\ UNCHANGED <<outside, engineSide, adopted, slotDue, reinitLock, seeded, trigger>>

EngineCall(t) ==
    /\ tpc[t] = "call"
    /\ \/ NextItem(t)
       \/ /\ failedWith' = [failedWith EXCEPT ![t] = engineConfig]
          /\ trigger' = [trigger EXCEPT ![t] = "error"]
          /\ Goto(t, "read")
          /\ UNCHANGED <<outside, engineSide, adopted, slotDue, reinitLock, seeded, seen,
                         seenAt>>

\* The second call, successful or not, or the first error as it stands.
EndItem(t) == tpc[t] \in {"retry", "giveup"} /\ NextItem(t)

ThreadStep(t) ==
    \/ Poll(t) \/ ReadDefault(t) \/ Compare(t) \/ AdoptFirst(t)
    \/ Acquire(t) \/ Recheck(t) \/ Reinitialize(t) \/ Adopt(t)
    \/ EngineCall(t) \/ EndItem(t)

Next == NewDefault \/ IntervalPasses \/ Seed \/ \E t \in Threads : ThreadStep(t)

Spec == Init /\ [][Next]_vars

\* Time passes, calls return and every thread keeps being scheduled: there is
\* always another item.
FairSpec ==
    /\ Spec
    /\ WF_vars(IntervalPasses)
    /\ WF_vars(Seed)
    /\ \A t \in Threads : WF_vars(ThreadStep(t))

-----------------------------------------------------------------------------
(* What the reload promises                                                  *)

\* log_startup_config has adopted a default: the one the engine was created with,
\* or one that was registered since.
Seeded == seeded \in {"right", "wrong"}

\* A seed that went wrong is made good by the first reload.
Founded == seeded = "right" \/ (seeded = "wrong" /\ reinits > 0)

\* adopted_default is what the engine runs, except between the two assignments
\* of the thread that holds the lock.  So a wrong seed, which nothing detects,
\* does its harm until the next change of the default and no longer.
AdoptedIsRunning ==
    Founded =>
        \/ adopted = engineConfig
        \/ \E t \in Threads : tpc[t] = "adopt" /\ reinitLock = t /\ seen[t] = engineConfig

\* config_reload.py:11: no reinit storm.  However many threads see a default
\* change, at most one of them reinitializes the engine for it.
NoReinitStorm == Seeded => reinits <= changes

\* config_reload.py:94-101: a reinitialize takes the engine to a default
\* registered after the one it runs.  A thread that waited for the lock while a
\* peer reloaded twice never takes the engine back to what it had read before.
EngineMovesForward ==
    [][Seeded /\ reinits' # reinits => engineAt < engineAt']_vars

\* The engine ends up with the registered default once that stops changing,
\* whatever configuration calls failed on the way.
Converges == <>[](Founded => engineConfig = registered)

\* No thread is held up for good, a failed reload's peers included.
ItemsFinish == \A t \in Threads : tpc[t] # "item" ~> tpc[t] = "item"

\* config_reload.py:18-20: after an error "if the default changed the engine is
\* reinitialized and the caller RETRIES once".  So an error stands only if the
\* call was made under the default the check found.
ErrorStandsUnderDefault ==
    seeded = "right" =>
        \A t \in Threads :
            tpc[t] = "giveup" /\ seen[t] # None => failedWith[t] = seen[t]
=============================================================================
