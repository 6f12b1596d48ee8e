---------------------------- MODULE MCMultiStore ----------------------------
EXTENDS MultiStore

CONSTANTS a, b, p, v
MCInitialData == {Blob}
=============================================================================
