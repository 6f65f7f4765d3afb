--------------------------- MODULE MCBranchWorkflow ---------------------------
EXTENDS BranchWorkflow, TLC

Symmetry == Permutations(Callers) \cup Permutations(Branches)
               \cup Permutations(Requests) \cup Permutations(Sessions)

\* Several requests are for one instance; many instances share one of them.
Bounded == mode = "many" => Cardinality({r \in Requests : request[r].status # "absent"}) <= 1
=============================================================================
