------------------------- MODULE MCContractLineage -------------------------
(* One Run whose records may be revised twice in all.                      *)
EXTENDS ContractLineage, TLC
EvidenceSymmetry == Permutations(Evidence)
=============================================================================
