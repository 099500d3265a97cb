CONSTANTS
    GPU = GPU
    LONG = LONG
    Bad = Bad
    None = None
    Ids = {1, 2}
    Tags = {GPU, LONG}
    LongTags = {LONG}
    Keys = {k1, k2}
    MaxClaims = 1
    ClaimLists <- MCClaimLists
    MaxEntries = 2
SPECIFICATION Spec
INVARIANTS
    TopologyIsSound
    FilesAgree
    OnlySizeStopsCommit
CHECK_DEADLOCK FALSE
