SPECIFICATION Spec
CONSTANTS
    Users = {"sup", "adm"}
    Openers = {"sup"}
    Devices <- ThreeDevices
    InitialRoles <- OneEach
    Backfills = {FALSE}
    RoleChanges <- NoChange
    Targets = {"sales_declared"}
    Nozzles = {"n1"}
    Dispensers = {"d1"}
    LossIds = {"l1"}
    Keys = {"k1"}
    Payloads = {"p1"}
    LeaseDuration = 2
    MaxShifts = 1
    MaxClaims = 3
    MaxRevision = 4
    MaxFailing = 0
    MaxAmendments = 0
INVARIANTS
    FencedRows
    NoDuplicateRow
    ReportIsDraftPrefix
CHECK_DEADLOCK FALSE
