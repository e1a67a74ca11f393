------------------------------ MODULE MCCanary ------------------------------
EXTENDS Canary, TLC

\* API calls are interchangeable, and so are the slots of the worker.
Symmetry == Permutations(Caller) \cup Permutations(Slot)
=============================================================================
