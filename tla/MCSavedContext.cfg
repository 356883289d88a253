SPECIFICATION Spec
CONSTANTS
    Users = {"ann"}
    Invitees = {}
    Role <- RoleOf
    Names = {"n1", "n2"}
    Contexts = {"c1", "c2"}
    Keys = {"k1", "k2"}
    FirstKey = "k1"
    KeyExpiry <- KeyCutoffs
    Requests = {"r1", "r2"}
    SessionLife = 1
    Skew = 1
    TokenLife <- OneUnitEach
    Workloads <- ContextWorkload
    MaxTime = 0
    MaxSessions = 3
    MaxTokens = 0
    MaxPasswords = 1
INVARIANTS
    PreferenceIsLatestChoice
CHECK_DEADLOCK FALSE
