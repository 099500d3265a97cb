CONSTANTS
    Absent = Absent
    Torn = Torn
    Settings <- Undisturbed
SPECIFICATION Spec
INVARIANTS
    InspectionIsConsistent
CHECK_DEADLOCK FALSE
