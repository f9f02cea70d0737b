CONSTANTS
    Flows = {w1}
    Runs = {r1, r2}
    Reports = {b1}
    MaxAttempts = 2
    Thresholds <- MCThresholds
    NoRun = NoRun
SPECIFICATION FairSpec
INVARIANTS
    TypeOK
    PolicyHasModel
    ReportIsTrue
    WorkflowIsTrue
PROPERTIES
    WorkflowEnds
