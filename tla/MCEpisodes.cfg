CONSTANTS
    NStocks = 2
    TradingDays = 3
    Ratios <- MCRatios
    MaxRows = 10
    NTested = 3
    MaxBars = 5
SPECIFICATION Spec
INVARIANTS
    TypeOK
    EpisodeInPortion
    NoLookAhead
    BooksBalance
    Reproducible
