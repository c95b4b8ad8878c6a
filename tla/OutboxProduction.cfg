\* The program as composed: nothing calls recover_expired, and the provider
\* gives no help against duplicates.
SPECIFICATION Spec
CONSTANTS
    p1 = p1
    w1 = w1
    w2 = w2
    NoRow = NoRow
    Proposals = {p1}
    Workers = {w1, w2}
    Headless = {w1}
    SlowWorkers = {w1, w2}
    MaximumAttempts = 2
    ReconciliationCap = 8
    LeaseDuration = 1
    ApprovalValidity = 2
    ProposalValidity = 3
    Backoff = 1
    BackoffCap = 2
    RecoversExpired = FALSE
    MaxTime = 4
    MaxRestarts = 1
    MaxMandate = 2
    MaxCrashes = 1
INVARIANTS
    TypeOK
    AttemptsAgree
    NoBlindResend
    AtMostOnce
    VerdictTruthful
    SingleFlight
    AuthorizedAtClaim
PROPERTIES
    KeepsPromise
CHECK_DEADLOCK FALSE
