\* Something calls recover_expired, workers keep to their leases, and one
\* process may die.
SPECIFICATION FairSpec
CONSTANTS
    p1 = p1
    p2 = p2
    w1 = w1
    w2 = w2
    NoRow = NoRow
    Proposals = {p1}
    Workers = {w1, w2}
    Headless = {w1}
    SlowWorkers = {}
    MaximumAttempts = 2
    ReconciliationCap = 8
    LeaseDuration = 1
    ApprovalValidity = 5
    ProposalValidity = 5
    Backoff = 1
    BackoffCap = 1
    RecoversExpired = TRUE
    MaxTime = 7
    MaxRestarts = 1
    MaxMandate = 1
    MaxCrashes = 1
INVARIANTS
    AtMostOnce
PROPERTIES
    AmbiguousSettles
CHECK_DEADLOCK FALSE
