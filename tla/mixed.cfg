SPECIFICATION FairSpec
CONSTANTS
    w1 = w1
    w2 = w2
    Workers = {w1, w2}
    RedoPreferring = {w1}
    HasLoad = TRUE
    HasRedo = TRUE
    JobsRoom = 3
    MaxRedo = 2
    LastLine = 1
    SkipLines = 0
    LineKinds = {"record"}
    Files <- AnyFile
    Faults = {}
INVARIANTS
    TypeOK
    RedoAtStake
    DrainedIsQuiet
    NoDeadlock
PROPERTIES
    Terminates
