SPECIFICATION Spec
CONSTANTS
    Users = {"sup", "adm"}
    Openers = {"sup"}
    Devices <- TwoDevices
    InitialRoles <- OneEach
    Backfills = {FALSE}
    RoleChanges <- ChangeSides
    Targets = {"sales_declared"}
    Nozzles = {"n1"}
    Dispensers = {"d1"}
    LossIds = {}
    Keys = {"k1"}
    Payloads = {"p1"}
    LeaseDuration = 1
    MaxShifts = 1
    MaxClaims = 2
    MaxRevision = 3
    MaxFailing = 0
    MaxAmendments = 2
INVARIANTS
    NoSelfApproval
CHECK_DEADLOCK FALSE
