------------------------ MODULE MCExecutionAuthority ------------------------
EXTENDS ExecutionAuthority, TLC
Symmetry == Permutations(Keys) \cup Permutations(Signers)
=============================================================================
