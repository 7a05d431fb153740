-------------------------- MODULE MCSnapshotStore --------------------------
EXTENDS SnapshotStore, TLC

Symmetry == Permutations(Processes) \cup Permutations(Changes)
=============================================================================
