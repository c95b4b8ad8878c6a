\* Two effects and one worker loop: the older may block the younger by a stale
\* mandate or a lapsed approval.
SPECIFICATION FairSpec
CONSTANTS
    p1 = p1
    p2 = p2
    w1 = w1
    w2 = w2
    NoRow = NoRow
    Proposals = {p1, p2}
    Workers = {w1}
    Headless = {w1}
    SlowWorkers = {}
    MaximumAttempts = 1
    ReconciliationCap = 8
    LeaseDuration = 1
    ApprovalValidity = 1
    ProposalValidity = 1
    Backoff = 1
    BackoffCap = 1
    RecoversExpired = FALSE
    MaxTime = 3
    MaxRestarts = 1
    MaxMandate = 2
    MaxCrashes = 0
PROPERTIES
    PendingTaken
CHECK_DEADLOCK FALSE
