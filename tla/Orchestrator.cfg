CONSTANTS
    N = 3
    MaxRounds = 1
    FailAt = {0, 1}
    FailTargets = {0, 3}
    Rejoin = {TRUE, FALSE}
    Stale = {"none"}
SPECIFICATION Spec
INVARIANTS
    TypeOK
    SoleInstance
    NoOrphans
    SuccessIsEarned
PROPERTIES
    AlwaysReturns
