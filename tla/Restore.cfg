\* Two services that write and one that does not (gateway or studio): a stack
\* can run in part.
SPECIFICATION Spec
CONSTANTS
    api = api
    worker = worker
    gateway = gateway
    a1 = a1
    a2 = a2
    a3 = a3
    Services = {api, worker, gateway}
    Writers = {api, worker}
    Names = {a1, a2, a3}
    Ids = {1, 2, 3, 4, 5, 6, 7}
    MaxCommits = 3
    MaxCrashes = 2
SYMMETRY Alike
VIEW Lives
INVARIANTS
    TypeOK
    NothingLost
    RestoredExactly
