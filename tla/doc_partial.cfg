SPECIFICATION Spec
CONSTANTS
    w1 = w1
    Workers = {w1}
    RedoPreferring = {}
    HasLoad = TRUE
    HasRedo = FALSE
    JobsRoom = 2
    MaxRedo = 0
    LastLine = 2
    SkipLines = 0
    LineKinds = {"record"}
    Files <- AnyFile
    Faults = {"addReject", "slowIO"}
INVARIANTS
    PartialLoadNeverExitsZero
