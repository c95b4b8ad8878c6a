SPECIFICATION Spec
CONSTANTS
    w1 = w1
    w2 = w2
    NumTriggers = 3
    Timers = {3}
    NumItems = 2
    SourceOf <- Sources
    Priority <- Priorities
    Workers = {w1, w2}
    Headless = {w1}
    MaxItems = 2
    LeaseDuration = 1
    allowed = allowed
    Unsaid = Unsaid
    Unasked = {1}
    Outcomes = {allowed}
    MaxTime = 3
    MaxFaults = 1
INVARIANTS
    TypeOK
    CausesRetained
    CheckpointsFollowDecisions
    DecidedOnce
    NeglectIsBounded
PROPERTIES
    DecidesInBatches
    ArrivalsAreDecided
CHECK_DEADLOCK FALSE
