--------------------------- MODULE MCRDMADrainLocks ---------------------------
EXTENDS RDMADrainLocks, TLC

CONSTANTS d1, d2, f1

MCDrainers == {d1, d2}
MCFds == {f1}
=============================================================================
