-------------------------- MODULE MCPackLifecycle ---------------------------
EXTENDS PackLifecycle, TLC

\* API calls, certifications and import jobs are interchangeable.
Symmetry == Permutations(Call) \cup Permutations(Cert) \cup Permutations(Import)
=============================================================================
