\* A stream that reconnects, with up to three attempts, and the codecs they leave.
CONSTANTS
    Codecs = {c1, c2, c3, c4}
    Formats = {f1, f2}
    MaxAttempts = 3
    NoCodec = NoCodec
SPECIFICATION Spec
INVARIANTS OneOwner CodecFits NoCodecLeft
SYMMETRY CodecSymmetry
CHECK_DEADLOCK FALSE
