SPECIFICATION Spec
CONSTANTS
    Users = {"ann", "bob"}
    Invitees = {"bob"}
    Role <- RoleOf
    Names = {"n1", "n2"}
    Contexts = {"c1"}
    Keys = {"k1", "k2"}
    FirstKey = "k1"
    KeyExpiry <- KeyCutoffs
    Requests = {r1, r2}
    SessionLife = 1
    Skew = 1
    TokenLife <- OneUnitEach
    Workloads <- AccountWorkloads
    MaxTime = 3
    MaxSessions = 2
    MaxTokens = 2
    MaxPasswords = 3
INVARIANTS
    OldSessionsEnd
    DeadSessionRefused
    LinkWorksOnce
    EnabledHasIdentity
PROPERTIES
    NothingIsRevived
SYMMETRY RequestSymmetry
CHECK_DEADLOCK FALSE
