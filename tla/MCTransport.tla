--------------------------- MODULE MCTransport ---------------------------
EXTENDS Transport
=============================================================================
