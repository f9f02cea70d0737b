CONSTANTS
    Staleness = 3
    SyncInterval = 1
    FetchTimeout = 1
    SnapInterval = 1
    SyncTime = 1
    MaxLoss = 1
    Values = {2}
    Notionals = {2, 3}
    r1 = r1
    r2 = r2
    Runs = {r1, r2}
    Checks = {c1}
    NoValue = NoValue
SPECIFICATION Spec
SYMMETRY MCSymmetry
INVARIANTS
    TypeOK
    AllowedAtOneInstant
    AllowedOnFreshValue
    HealthyRowIsFresh
PROPERTY SyncMovesForward
