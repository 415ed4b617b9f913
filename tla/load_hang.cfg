SPECIFICATION HangSpec
CONSTANTS
    w1 = w1
    Workers = {w1}
    RedoPreferring = {}
    HasLoad = TRUE
    HasRedo = FALSE
    JobsRoom = 2
    MaxRedo = 0
    LastLine = 5
    SkipLines = 1
    LineKinds = {"record", "bad"}
    Files <- OneBadLine
    Faults = {"addReject", "addFatal", "slowEngine", "slowIO"}
INVARIANTS
    DecidedOnce
    NoDestroyUnderWorker
    WhoDoesNotWaitMoves
PROPERTIES
    ShutdownCompletes
