SPECIFICATION FairSpec
CONSTANTS
    c1 = c1
    c2 = c2
    c3 = c3
    r1 = r1
    r2 = r2
    n1 = n1
    n2 = n2
    n3 = n3
    n4 = n4
    Instances = {i1, i2}
    Envelopes <- MCEnvelopes
    CommandIds = {c1, c2, c3}
    Runs = {r1, r2}
    Nonces = {n1, n2, n3, n4}
    NoEnvelope = NoEnvelope
    MaxCommits = 3
    MaxCrashes = 1
    MaxOutages = 1
    MaxRestores = 1
INVARIANTS
    TypeOK
    ChainLinear
    EffectOnce
    VersionsInOrder
    ServedIsIntact
    MarkedIsAnchored
PROPERTIES
    ImplementsWitnessedLedger
    TailGetsAnchored
