SPECIFICATION FairSpec
CONSTANTS
    Requests = {1, 2, 3}
    Mixes <- AllMixes
    Grants = {"g1", "g2"}
INVARIANTS
    TypeOK
    OrderedNeverDeadlock
    DisabledScopeRefuses
    OwnerRemains
PROPERTIES
    EveryRequestEnds
