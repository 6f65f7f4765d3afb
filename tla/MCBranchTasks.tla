---------------------------- MODULE MCBranchTasks ----------------------------
EXTENDS BranchTasks, TLC

Symmetry == Permutations(Branches) \cup Permutations(LineValues)
=============================================================================
