\* One stream that drops and reconnects, up to three attempts in its life.
CONSTANTS
    Streams = {s1}
    MaxAttempts = 3
    MaxRetries = 2
    NoStart = NoStart
SPECIFICATION FairSpec
INVARIANTS ReconnectIsDriven
PROPERTIES ReconnectEnds LeftStreamLetsGo
CHECK_DEADLOCK FALSE
