\* A worker that dies in a dispatch, with nothing that calls recover_expired.
SPECIFICATION FairSpec
CONSTANTS
    p1 = p1
    p2 = p2
    w1 = w1
    w2 = w2
    NoRow = NoRow
    Proposals = {p1}
    Workers = {w1}
    Headless = {w1}
    SlowWorkers = {}
    MaximumAttempts = 1
    ReconciliationCap = 8
    LeaseDuration = 1
    ApprovalValidity = 3
    ProposalValidity = 3
    Backoff = 1
    BackoffCap = 1
    RecoversExpired = FALSE
    MaxTime = 5
    MaxRestarts = 3
    MaxMandate = 1
    MaxCrashes = 1
PROPERTIES
    UncertainBecomesAmbiguous
CHECK_DEADLOCK FALSE
