CONSTANTS
    Sessions = {s1, s2}
    Roots <- MCRoots
    Commands <- MCCommands
    Issuer <- MCIssuer
    MaxTime = 2
SPECIFICATION Spec
SYMMETRY SessionSymmetry
INVARIANTS
    UsedInWindows
    RevocationSticks
    ReleasedOnOneAdmission
    AdmissionInv
