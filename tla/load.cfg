SPECIFICATION Spec
CONSTANTS
    w1 = w1
    w2 = w2
    Workers = {w1, w2}
    RedoPreferring = {}
    HasLoad = TRUE
    HasRedo = FALSE
    JobsRoom = 2
    MaxRedo = 0
    LastLine = 3
    SkipLines = 0
    LineKinds = {"blank", "bad", "poison", "record"}
    Files <- AnyFile
    Faults = {"addReject", "addFatal", "write", "shortWrite"}
SYMMETRY Interchangeable
INVARIANTS
    WatermarkSafe
    StopRepeatsNothing
    InFlightExact
    ExitZeroMeansLoaded
    TotalsTrue
    FailureIsReported
PROPERTIES
    ImplementsContract
