SPECIFICATION Spec
CONSTANTS
    Users = {"sup", "adm", "own"}
    Openers = {"sup"}
    Devices <- OneDevice
    InitialRoles <- OneEach
    Backfills = {FALSE, TRUE}
    RoleChanges <- NoChange
    Targets = {"sales_declared"}
    Nozzles = {"n1"}
    Dispensers = {"d1"}
    LossIds = {}
    Keys = {"k1"}
    Payloads = {"p1"}
    LeaseDuration = 1
    MaxShifts = 2
    MaxClaims = 2
    MaxRevision = 3
    MaxFailing = 0
    MaxAmendments = 2
INVARIANTS
    TypeOK
    OneActiveShift
    StatusMatchesDecision
    VersionChain
    DecisionLedger
    PendingIsCurrent
    NoLostAmendment
    AuditMatchesTables
    CarriedReadingHasOrigin
PROPERTIES
    HistoryIsImmutable
    ImplementsLedger
CHECK_DEADLOCK FALSE
