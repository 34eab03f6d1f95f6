--------------------------- MODULE MCEvdevReader ---------------------------
EXTENDS EvdevReader
=============================================================================
