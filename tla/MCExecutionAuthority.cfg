SPECIFICATION Spec
CONSTANTS
    Keys = {k1, k2}
    NoKey = NoKey
    Signers = {s1, s2}
    NoSigner = NoSigner
    MaxTime = 3
    MaxActions = 2
    MaxAdmissions = 2
    MaxReservations = 2
    MaxAttempts = 2
SYMMETRY Symmetry
INVARIANTS
    TypeOK
    KeyHasOneDispatcher
    SingleActiveAttempt
    ProjectionMatchesTables
    RunReportsReceipt
    PermitsFollowAction
PROPERTIES
    DispatchFactKept
    ReopenedRunStartsOver
