\* A stream of 10 Mbps on a host limited to 6, of the encoder alone: the stream
\* starts at the limit and nothing says so until a request runs into it, which
\* the first step down does and a pick of 8 Mbps does not.  Quality mode: the
\* floor is 5 Mbps or half the ceiling.  Two choices in the menu are an
\* adaptation switched off and on again, a pick in either state, or two picks.
\* Nothing happens after Stop.
CONSTANTS
    StartKbps = 10000
    LadderKbps = {5000, 8000}
    HostLimitKbps = 6000
    WarpFactor = 1
    FecPercent = 20
    AudioKbps = 192
    PyroWave = FALSE
    LeastFloorKbps = 5000
    FloorPercent = 50
    DownPercents = {90}
    MaxAdaptiveFailures = 3
    MaxPicks = 2
    NoController = NoController
SPECIFICATION Spec
INVARIANTS
    ChoiceAndLimitHold
    BelievedBitrateIsReal
    OffRunsAtChosen
CHECK_DEADLOCK FALSE
