----------------------------- MODULE MCCallGates ----------------------------
EXTENDS CallGates, TLC
=============================================================================
