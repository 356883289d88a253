SPECIFICATION Spec
CONSTANTS
    Modulus = 3
    Price = 3
    Unit = 2
    MaxRupiah = 2
    Declared = {3}
    Finalized = {0, 1}
    Thresholds <- Strict
    DefaultThreshold <- Lenient
    RuleThreshold = 1
    Window = 1
    Creators = {c1, c2}
    Workloads <- BookWorkloads
    MaxShifts = 3
    MaxFewShifts = 2
    MaxVersions = 2
    MaxRevisions = 2
    MaxTime = 1
SYMMETRY CreatorSymmetry
INVARIANTS
    ChainBreaksOnlyOverSkipped
    DeltaIsCircular
    PolicyWasInForce
    LossesAreEvidenced
    StationRevisionsDistinct
    OverdueIsAlerted
    AlertsAreUnique
PROPERTIES
    SubmittedIsFinal
CHECK_DEADLOCK FALSE
