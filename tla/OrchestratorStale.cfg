CONSTANTS
    N = 3
    MaxRounds = 1
    FailAt = {1}
    FailTargets = {3}
    Rejoin = {FALSE}
    Stale = {"none", "finalized", "aborted"}
SPECIFICATION Spec
INVARIANTS
    CrashesReported
