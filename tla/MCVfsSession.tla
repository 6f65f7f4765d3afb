---------------------------- MODULE MCVfsSession ----------------------------
EXTENDS VfsRefinement, TLC

Symmetry == Permutations(Sids) \cup Permutations(Paths) \cup Permutations(Contents)
=============================================================================
