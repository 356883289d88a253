SPECIFICATION FairSpec
CONSTANTS
    Transactions = {"t1", "t2", "t3", "t4"}
INVARIANTS
    ChainVerifies
    TailStaysFresh
PROPERTIES
    ImplementsAuditLog
    EveryTransactionEnds
