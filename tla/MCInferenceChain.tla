-------------------------- MODULE MCInferenceChain --------------------------
EXTENDS InferenceChain, TLC

Symmetry == Permutations(Callers)
=============================================================================
