SPECIFICATION Spec
CONSTANTS
    t1 = t1
    t2 = t2
    None = None
    Threads = {t1, t2}
    Configs = {1, 2}
    PollEnabled = TRUE
    MaxChanges = 1
    MaxFailures = 0
INVARIANTS
    ErrorStandsUnderDefault
