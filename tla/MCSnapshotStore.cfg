CONSTANTS
    p1 = p1
    p2 = p2
    c1 = c1
    c2 = c2
    Processes = {p1, p2}
    Changes = {c1, c2}
    MaxSequence = 3
    None = None
SYMMETRY Symmetry
SPECIFICATION Spec
INVARIANTS
    StoreInv
    WorksFromAcknowledged
    OpensAgain
