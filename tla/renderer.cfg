\* A stream of a few frames, with one fault of the GPU and a swapchain that
\* goes out of date, and a Surface that may go at any time.
CONSTANTS
    Contexts = 2
    MaxFaults = 1
    MaxFrames = 4
    MaxOutOfDate = 1
SPECIFICATION FairSpec
INVARIANTS PlanesAreStable NothingInUseIsDestroyed ReusedObjectsAreFree GivenBackInOrder
PROPERTY StopEnds
CHECK_DEADLOCK FALSE
