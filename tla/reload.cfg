SPECIFICATION FairSpec
CONSTANTS
    t1 = t1
    t2 = t2
    None = None
    Threads = {t1, t2}
    Configs = {1, 2}
    PollEnabled = TRUE
    MaxChanges = 3
    MaxFailures = 1
INVARIANTS
    AdoptedIsRunning
    NoReinitStorm
PROPERTIES
    EngineMovesForward
    Converges
    ItemsFinish
