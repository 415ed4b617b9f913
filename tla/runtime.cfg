SPECIFICATION FairSpec
CONSTANTS
    Inputs <- MCInputs
    CpuCount = 4
    LastLine = 2
    LineKinds = {"blank", "record"}
    MaxStarts = 3
    MaxShort = 1
INVARIANTS
    ResumeSafe
    TearsCostLittle
    TopologySound
PROPERTIES
    ResumeMovesForward
    SignalHonoured
    ExitsInTime
CHECK_DEADLOCK FALSE
