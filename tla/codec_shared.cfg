\* Any call of the codec may throw and the HDR metadata may change, from start() on.
CONSTANTS
    Balanced = FALSE
    PreferLowerDelays = FALSE
    CR_MAX_TRIES = 1
    OUTPUT_BUFFER_QUEUE_LIMIT = 2
    BaselineSpsHack = TRUE
    FaultyThreads = {"input", "render"}
    MaxFaults = 2
    MaxHdrChanges = 1
    Stoppers = {"ui", "core"}
    FromStart = TRUE
SPECIFICATION Spec
INVARIANTS RecoveryIsExclusive ParameterSetsComeFirst
CHECK_DEADLOCK FALSE
