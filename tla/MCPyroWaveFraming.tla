-------------------------- MODULE MCPyroWaveFraming --------------------------
EXTENDS PyroWaveFraming

\* Sizes around each power of two times 32, and two common ones.
MCGeometries ==
    {<<w, h>> : w \in {1, 127, 128, 129, 160, 511, 512, 513, 1920}, h \in {2, 1024, 1025, 1080}}
=============================================================================
