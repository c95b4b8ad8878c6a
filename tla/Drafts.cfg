SPECIFICATION Spec
CONSTANTS
    first = first
    swapped = swapped
    other = other
    a1 = a1
    a2 = a2
    Admins = {a1, a2}
    NumDrafts = 2
    NumChanges = 2
    Contents = {first, swapped, other}
    Says <- Saying
    Initially <- Before
    Edits <- Entries
    None = None
    MaxEdits = 1
    MaxMarking = 1
    MaxUpsets = 1
SYMMETRY Alike
VIEW Lives

INVARIANTS
    TypeOK
    OneSnapshot
    AppliedTogether
PROPERTIES
    AuthorityAgreed
CHECK_DEADLOCK FALSE
