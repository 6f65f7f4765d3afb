-------------------------- MODULE MCTaskSupervisor --------------------------
EXTENDS TaskSupervisor, TLC

Symmetry == Permutations(Roots) \cup Permutations(Subs) \cup Permutations(Pollers)
=============================================================================
