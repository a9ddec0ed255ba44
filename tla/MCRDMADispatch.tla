--------------------------- MODULE MCRDMADispatch ---------------------------
EXTENDS RDMADispatch, TLC
=============================================================================
