SPECIFICATION Spec
CONSTANTS
    Users = {"sup", "adm"}
    Openers = {"sup"}
    Devices <- TwoDevices
    InitialRoles <- OneEach
    Backfills = {FALSE}
    RoleChanges <- NoChange
    Targets = {"sales_declared", "delivery"}
    Nozzles = {"n1"}
    Dispensers = {"d1"}
    LossIds = {}
    Keys = {"k1"}
    Payloads = {"p1"}
    LeaseDuration = 1
    MaxShifts = 1
    MaxClaims = 2
    MaxRevision = 3
    MaxFailing = 0
    MaxAmendments = 2
INVARIANTS
    ApprovedIsApplied
CHECK_DEADLOCK FALSE
