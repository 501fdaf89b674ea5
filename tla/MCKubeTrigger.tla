--------------------------- MODULE MCKubeTrigger ---------------------------
EXTENDS KubeTrigger, TLC

\* The requests are interchangeable.
Symmetry == Permutations(Callers)
=============================================================================
