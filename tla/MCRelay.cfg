SPECIFICATION Spec
CONSTANTS
    Events = {"e1", "e2"}
    Workers = {"w1", "w2"}
    LeaseTicks = 2
    BackoffCap = 1
    MaxAttempts = 3
INVARIANTS
    DeliveredByLastAttempt
PROPERTIES
    DeliveredIsFinal
CHECK_DEADLOCK FALSE
