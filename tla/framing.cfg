\* Frames of a few blocks in packets of six words, any of which are lost.
CONSTANTS
    Hosts = {"flagged", "packed", "prefixed"}
    PacketWords = 6
    Sizes = {2, 3, 7}
    MaxBlocks = 5
    ReadyPercent = 50
    Geometries <- MCGeometries
SPECIFICATION FramingSpec
INVARIANTS OnlyWholeRecordsArePushed CoarseLevelIsWhole LossIsContained CountsAgree
CHECK_DEADLOCK FALSE
