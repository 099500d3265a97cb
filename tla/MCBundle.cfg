CONSTANTS
    Absent = Absent
    Torn = Torn
    Settings <- MCSettings
SPECIFICATION Spec
INVARIANTS
    TypeOK
    NextSessionNotRefused
    EvidenceIsOfOneSession
    VerifyRepairs
    LatestSnapshotIsExact
    CompletedRunsAreKept
CHECK_DEADLOCK FALSE
