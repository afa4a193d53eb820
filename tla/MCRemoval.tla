----------------------------- MODULE MCRemoval -----------------------------
EXTENDS Removal, TLC

Symmetry == Permutations(Inodes)
=============================================================================
