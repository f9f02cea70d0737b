CONSTANTS
    Policies = {p1, p2}
    Jobs = {j1}
    Requests = {r1, r2}
    Loads = {l1}
    MaxClock = 2
    Nobody = Nobody
SPECIFICATION Spec
SYMMETRY Symmetry
INVARIANTS
    TypeOK
    ActiveIsLoaded
    StartupServesApproved
    ApprovedJobIsReleased
PROPERTIES
    ImplementsGate
