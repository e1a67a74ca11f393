--------------------------- MODULE MCWorkflowStore ---------------------------
EXTENDS WorkflowStore, TLC

\* Clients are interchangeable, and so are node keys.
Symmetry == Permutations(Client) \cup Permutations(Key)
=============================================================================
