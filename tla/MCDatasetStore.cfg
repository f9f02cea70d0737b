CONSTANTS
    Requests = {r1, r2}
    Configs <- MCConfigs
    MaxDates = 4
SPECIFICATION Spec
SYMMETRY Symmetry
INVARIANTS
    TypeOK
    DatasetComplete
    SplitsWalkForward
