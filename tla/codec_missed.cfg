\* Two changes of the HDR metadata, the second during the recovery of the first.
CONSTANTS
    Balanced = FALSE
    PreferLowerDelays = FALSE
    CR_MAX_TRIES = 1
    OUTPUT_BUFFER_QUEUE_LIMIT = 2
    BaselineSpsHack = FALSE
    FaultyThreads = {}
    MaxFaults = 0
    MaxHdrChanges = 2
    Stoppers = {"core"}
    FromStart = FALSE
SPECIFICATION FairSpec
PROPERTY RecoveryCompletes
CHECK_DEADLOCK FALSE
