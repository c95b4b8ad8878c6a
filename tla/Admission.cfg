SPECIFICATION Spec
CONSTANTS
    k1 = k1
    k2 = k2
    event = event
    timer = timer
    c1 = c1
    w1 = w1
    d1 = d1
    d2 = d2
    Keys = {k1, k2}
    Kinds = {event, timer}
    MaxOccurrences = 2
    Policies <- Several
    NumBuckets = 2
    MaxRevision = 3
    Callers = {c1}
    Workers = {w1}
    Drafts = {d1, d2}
SYMMETRY Alike
VIEW Lives

INVARIANTS
    TypeOK
    BudgetHolds
    ChargedOnce
PROPERTIES
    NothingResumesImplicitly
    NoOvertakenProposal
CHECK_DEADLOCK FALSE
