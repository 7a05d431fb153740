SPECIFICATION Spec
CONSTANTS
    Instances = {i1, i2}
    Runs = {r1, r2}
    NoRow = NoRow
    NoCheckpoint = NoCheckpoint
    NoRestore = NoRestore
    RecordKinds = {"action_admission"}
    MaxCommits = 5
    MaxAge = 2
SYMMETRY InstanceSymmetry
INVARIANTS
    ServedIsWhole
    QuietStartPasses
