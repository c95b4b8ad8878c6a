SPECIFICATION Spec
CONSTANTS
    w1 = w1
    w2 = w2
    NumTriggers = 1
    Timers = {}
    NumItems = 1
    SourceOf <- OneSource
    Priority <- OnePriority
    Workers = {w1, w2}
    Headless = {w1}
    MaxItems = 4
    LeaseDuration = 1
    allowed = allowed
    Unsaid = Unsaid
    Unasked = {}
    Outcomes = {allowed}
    MaxTime = 3
    MaxFaults = 2

INVARIANTS
    OutcomesRestartSafe
CHECK_DEADLOCK FALSE
