----------------------------- MODULE MCTurnPlan -----------------------------
EXTENDS TurnPlan, TLC

Symmetry == Permutations(Responses)
=============================================================================
