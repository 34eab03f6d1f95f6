\* Two streams one after the other share the connection slot and the core.
CONSTANTS
    Streams = {s1, s2}
    MaxAttempts = 1
    MaxRetries = 0
    NoStart = NoStart
SPECIFICATION FairSpec
INVARIANTS SemaphoreAccounted CoreServesHolder
PROPERTIES OnlyOwnStartInterrupted LivesAsPromised WaitingStartIsServed
CHECK_DEADLOCK FALSE
