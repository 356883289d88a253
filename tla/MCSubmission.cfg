SPECIFICATION Spec
CONSTANTS
    Users = {"sup", "adm"}
    Openers = {"sup"}
    Devices <- TwoDevices
    InitialRoles <- OneEach
    Backfills = {FALSE}
    RoleChanges <- ChangeSides
    Targets = {"sales_declared"}
    Nozzles = {}
    Dispensers = {"d1"}
    LossIds = {}
    Keys = {k1, k2}
    Payloads = {p1, p2}
    LeaseDuration = 1
    MaxShifts = 1
    MaxClaims = 2
    MaxRevision = 2
    MaxFailing = 2
    MaxAmendments = 1
INVARIANTS
    IdempotentSubmit
    SeparationOfDuties
SYMMETRY SubmissionSymmetry
CHECK_DEADLOCK FALSE
