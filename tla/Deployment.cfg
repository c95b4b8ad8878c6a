SPECIFICATION Spec
CONSTANTS
    a1 = a1
    a2 = a2
    d1 = d1
    d2 = d2
    d3 = d3
    r1 = r1
    r2 = r2
    Packages = {a1, a2}
    Legacy = Legacy
    Nothing = Nothing
    Deployments = {d1, d2, d3}
    NumDrafts = 2
    Requests = {r1, r2}
    ActiveLimit = 2
    MaxRevision = 4
SYMMETRY Alike

INVARIANTS
    TypeOK
    SlotsHold
    EachChangeSawTheLast
    ActivatedAsSeen
PROPERTIES
    RunsVetted
CHECK_DEADLOCK FALSE
