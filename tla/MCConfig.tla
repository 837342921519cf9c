------------------------------- MODULE MCConfig -------------------------------
\* Two registries: one that is entered before another, and one that is not.
EXTENDS Config, TLC

Symmetry == Permutations(Registries)
=============================================================================
