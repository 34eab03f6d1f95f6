-------------------------- MODULE MCDecoderParking --------------------------
EXTENDS DecoderParking, TLC

\* Which codec is created next, and which stream is which, does not matter to
\* the safety properties.
CodecSymmetry == Permutations(Codecs)
=============================================================================
