CONSTANTS
    None = None
    r1 = r1
    r2 = r2
    a1 = a1
    a2 = a2
    Responses = {r1, r2}
    Actions = {a1, a2}
    MaxEdges = 3
SYMMETRY Symmetry
SPECIFICATION Spec
CHECK_DEADLOCK FALSE
INVARIANTS
    ActsAsAssessed
    AcyclicIffOrdered
    NoDeadEnd
    OrderFollowsMode
