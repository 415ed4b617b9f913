SPECIFICATION HangSpec
CONSTANTS
    w1 = w1
    w2 = w2
    Workers = {w1, w2}
    RedoPreferring = {w1, w2}
    HasLoad = FALSE
    HasRedo = TRUE
    JobsRoom = 4
    MaxRedo = 5
    Faults = {"redoDrop", "redoFatal", "fetch", "print", "slowEngine"}
INVARIANTS
    OutstandingExact
    ShutdownLosesAtMostOne
    StopsOnlyWhenTold
    NoDestroyUnderCall
    SleepsOnlyWhenServed
PROPERTIES
    ShutdownCompletes
    RedoServed
