\* A ring of two frames and a texture that replaces, with five frames, a clock
\* that may stand still, and a GPU that may hang.
CONSTANTS
    Capacity = 2
    MaxFrames = 5
    MaxNow = 2
SPECIFICATION FairSpec
INVARIANTS FramesAreAccounted DeadlineIsOwn
PROPERTIES NewestIsDrawn
CHECK_DEADLOCK FALSE
