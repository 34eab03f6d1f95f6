------------------------- MODULE MCPyroWaveRenderer -------------------------
EXTENDS PyroWaveRenderer
=============================================================================
