CONSTANTS
    None = None
    i1 = i1
    i2 = i2
    d1 = d1
    d2 = d2
    a1 = a1
    a2 = a2
    b1 = b1
    e1 = e1
    e2 = e2
    o1 = o1
    q1 = q1
    q2 = q2
    q3 = q3
    q4 = q4
    Refs = {i1, i2, d1, d2, a1, a2, b1, e1, e2, o1}
    Requests = {q1, q2, q3, q4}
    Contract <- TheContract
    Request <- TheRequest
    MaxTime = 4
SPECIFICATION Spec
CHECK_DEADLOCK FALSE
INVARIANTS
    DispatchedNotRepeated
