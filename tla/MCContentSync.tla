---------------------------- MODULE MCContentSync ----------------------------
EXTENDS ContentSync, TLC

Symmetry == Permutations(Clients) \union Permutations(Notes)
=============================================================================
