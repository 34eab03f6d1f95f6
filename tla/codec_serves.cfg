\* One exception of the codec, in any of the three threads, and a
\* stop at any moment.
CONSTANTS
    Balanced = TRUE
    PreferLowerDelays = TRUE
    CR_MAX_TRIES = 1
    OUTPUT_BUFFER_QUEUE_LIMIT = 1
    BaselineSpsHack = FALSE
    FaultyThreads = {"input", "render", "choreographer"}
    MaxFaults = 1
    MaxHdrChanges = 0
    Stoppers = {"core"}
    FromStart = FALSE
SPECIFICATION FairSpec
INVARIANTS NoStaleBuffer
PROPERTIES RecoveryCompletes VideoResumes StopCompletes
CHECK_DEADLOCK FALSE
