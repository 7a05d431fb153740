SPECIFICATION Spec
CONSTANTS
    MaxReissues = 2
    Evidence = {e1, e2}
    MaxEvidence = 2
SYMMETRY EvidenceSymmetry
INVARIANTS
    CorrectionChangesView
CHECK_DEADLOCK FALSE
