--------------------------- MODULE MCExternalMedia --------------------------
EXTENDS ExternalMedia
CONSTANTS g1
=============================================================================
