SPECIFICATION Spec
CONSTANTS
    NumCredentials = 2
    NumChanges = 2
    Grants <- Changing
    MaxLate = 1

INVARIANTS
    TypeOK
    TwoAdminsRemain
    SessionsFollowMemberships
    AppliedOnce
PROPERTIES
    FollowsTheRule
CHECK_DEADLOCK FALSE
