----------------------------- MODULE AuditChain -----------------------------
(***************************************************************************)
(* The audit chain of one organization: AppendInTransaction as it runs     *)
(* inside concurrent business transactions at READ COMMITTED, each         *)
(* appending one event.  Statements are steps; a statement that waits for  *)
(* a row lock or for another transaction's uncommitted key is disabled.    *)
(***************************************************************************)
EXTENDS Naturals, Sequences

CONSTANT Transactions    \* business transactions of the organization

VARIABLES
    log,        \* committed rows of audit_log
    exists,     \* the committed row of audit_chain_lock exists
    creator,    \* transactions whose insert of that row is not committed
    holder,     \* transactions that hold that row FOR UPDATE
    pc,         \* the next statement of each transaction
    tail,       \* how many rows the transaction saw when it read the tail
    ended       \* how each transaction ended

vars == <<log, exists, creator, holder, pc, tail, ended>>

Genesis == <<0>>     \* 32 zero bytes

\* auditRowHash covers the sequence, the event and the previous hash.
RowHash(row) == <<row.seq, row.event, row.prev>>

Init ==
    /\ log = << >>
    /\ exists = FALSE
    /\ creator = {}
    /\ holder = {}
    /\ pc = [t \in Transactions |-> "lock"]
    /\ tail = [t \in Transactions |-> 0]
    /\ ended = [t \in Transactions |-> "running"]

Goto(t, label) == pc' = [pc EXCEPT ![t] = label]

\* The row can be locked by t: it is visible to t and no other holds it.
LockIsFree(t) ==
    /\ exists \/ t \in creator
    /\ holder \subseteq {t}

\* SELECT ... FOR UPDATE of the lock row, found.
LockChain(t) ==
    /\ pc[t] = "lock"
    /\ exists
    /\ LockIsFree(t)
    /\ holder' = {t}
    /\ Goto(t, "tail")
    /\ UNCHANGED <<log, exists, creator, tail, ended>>

LockMissingRetried(t) ==
    /\ pc[t] = "lock"
    /\ ~exists
    /\ UNCHANGED vars

\* The same statement, not found: an uncommitted row is not visible.
LockMissing(t) ==
    /\ pc[t] = "lock"
    /\ ~exists
    /\ Goto(t, "create")
    /\ UNCHANGED <<log, exists, creator, holder, tail, ended>>

\* INSERT ... ON CONFLICT DO NOTHING waits for an uncommitted insert.
CreateLock(t) ==
    /\ pc[t] = "create"
    /\ creator = {}
    /\ creator' = IF exists THEN {} ELSE {t}
    /\ Goto(t, "lockNew")
    /\ UNCHANGED <<log, exists, holder, tail, ended>>

LockNewForgotten(t) ==
    /\ pc[t] = "lockNew"
    /\ Goto(t, "tail")
    /\ UNCHANGED <<log, exists, creator, holder, tail, ended>>

\* SELECT ... FOR UPDATE after the insert, of whoever's row it is.
LockNew(t) ==
    /\ pc[t] = "lockNew"
    /\ LockIsFree(t)
    /\ holder' = {t}
    /\ Goto(t, "tail")
    /\ UNCHANGED <<log, exists, creator, tail, ended>>

\* ORDER BY org_sequence DESC LIMIT 1, over the rows committed by now.
ReadTail(t) ==
    /\ pc[t] = "tail"
    /\ tail' = [tail EXCEPT ![t] = Len(log)]
    /\ Goto(t, "insert")
    /\ UNCHANGED <<log, exists, creator, holder, ended>>

NewRowUnlinked(t) == [seq |-> tail[t] + 1, event |-> t, prev |-> Genesis]

NewRow(t) ==
    [seq   |-> tail[t] + 1,
     event |-> t,
     prev  |-> IF tail[t] = 0 THEN Genesis ELSE RowHash(log[tail[t]])]

\* UNIQUE (org_id, org_sequence)
SequenceTaken(t) == tail[t] + 1 \in DOMAIN log

Release(t) ==
    /\ creator' = creator \ {t}
    /\ holder' = holder \ {t}
    /\ Goto(t, "end")

InsertOutside(t) ==
    /\ pc[t] = "insert"
    /\ log' = Append(log, NewRow(t))
    /\ exists' = (exists \/ t \in creator)
    /\ \E how \in {"committed", "rolled back"} : ended' = [ended EXCEPT ![t] = how]
    /\ Release(t)
    /\ UNCHANGED tail

\* The insert of the log row, with its outbox and relay rows, and the commit
\* of the business transaction; or the error that rolls all of it back.
Insert(t) ==
    /\ pc[t] = "insert"
    /\ IF SequenceTaken(t)
       THEN /\ ended' = [ended EXCEPT ![t] = "conflict"]
            /\ UNCHANGED <<log, exists>>
       ELSE /\ log' = Append(log, NewRow(t))
            /\ exists' = (exists \/ t \in creator)
            /\ ended' = [ended EXCEPT ![t] = "committed"]
    /\ Release(t)
    /\ UNCHANGED tail

\* The business transaction fails for a reason of its own, or is cancelled.
Rollback(t) ==
    /\ pc[t] # "end"
    /\ ended' = [ended EXCEPT ![t] = "rolled back"]
    /\ Release(t)
    /\ UNCHANGED <<log, exists, tail>>

AllEnded ==
    /\ \A t \in Transactions : pc[t] = "end"
    /\ UNCHANGED vars

Next ==
    \/ \E t \in Transactions :
         \/ LockChain(t)
         \/ LockMissing(t)
         \/ CreateLock(t)
         \/ LockNew(t)
         \/ ReadTail(t)
         \/ Insert(t)
         \/ Rollback(t)
    \/ AllEnded

Spec == Init /\ [][Next]_vars

\* A transaction that is not blocked gets on with its statements, and a lock
\* queue of the database serves its head; it need not fail by itself.
Statement(t) ==
    \/ LockChain(t)
    \/ LockMissing(t)
    \/ CreateLock(t)
    \/ LockNew(t)
    \/ ReadTail(t)
    \/ Insert(t)

FairSpec == Spec /\ \A t \in Transactions : WF_vars(Statement(t))

-----------------------------------------------------------------------------
\* What Verify checks, at every moment: the sequence has no gap and every row
\* carries the hash of the row before it.
ChainVerifies ==
    \A i \in DOMAIN log :
        /\ log[i].seq = i
        /\ log[i].prev = IF i = 1 THEN Genesis ELSE RowHash(log[i - 1])

\* Nobody appends behind a transaction that has read the tail, also when the
\* lock row itself is created by racing first appends: no business operation
\* ever fails because of another one's audit event.
TailStaysFresh ==
    \A t \in Transactions :
        /\ pc[t] = "insert" => tail[t] = Len(log)
        /\ ended[t] # "conflict"

\* No business transaction waits for ever for the chain: not for a holder of
\* the lock row, not for the first appender whose row is still uncommitted,
\* and not for one that rolled that row back again.
EveryTransactionEnds == \A t \in Transactions : <>(pc[t] = "end")

\* The log holds the event of every transaction that committed, once, and of
\* no other: no change without its event, and no event of a rolled back one.
CommitsAreLogged ==
    /\ \A t \in Transactions :
          ended[t] = "committed" <=> \E i \in DOMAIN log : log[i].event = t
    /\ \A i, j \in DOMAIN log : log[i].event = log[j].event => i = j

\* AppendInTransaction is atomic to the business operations: whatever waits,
\* races for the lock row or rolls back, every step is the commit of one of
\* them with its linked row at the end of the log, its failure, or nothing.
Log == INSTANCE AuditLog

ImplementsAuditLog == Log!Spec

=============================================================================
