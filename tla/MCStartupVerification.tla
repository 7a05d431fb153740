----------------------- MODULE MCStartupVerification -----------------------
EXTENDS StartupVerification, TLC

InstanceSymmetry == Permutations(Instances) \cup Permutations(Runs)
=============================================================================
