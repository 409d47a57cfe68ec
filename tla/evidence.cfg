SPECIFICATION EvidenceSpec
CONSTANTS
    Cases = {t, p}
    Projects = {p}
    Files = {f1}
INVARIANTS
    HeldHasBytes
PROPERTIES
    NothingLost
    StagingDrains
CHECK_DEADLOCK FALSE
