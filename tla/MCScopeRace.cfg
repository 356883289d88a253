SPECIFICATION Spec
CONSTANTS
    Requests = {1, 2, 3}
    Mixes <- AllMixes
    Grants = {"g1", "g2"}
INVARIANTS
    NoWriteInDisabledScope
