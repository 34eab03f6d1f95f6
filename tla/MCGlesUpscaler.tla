--------------------------- MODULE MCGlesUpscaler ---------------------------
EXTENDS GlesUpscaler
=============================================================================
