-------------------------- MODULE AuditChainProofs --------------------------
(***************************************************************************)
(* Proofs about the audit chain, for any number of transactions.           *)
(*                                                                         *)
(* The chain verifies because a transaction appends to the tail it read,   *)
(* and that tail is still the tail because from its second lock on the     *)
(* transaction is the only one that holds the lock row.                    *)
(***************************************************************************)
EXTENDS AuditChain, TLAPS

Labels == {"lock", "create", "lockNew", "tail", "insert", "end"}

Rows == {log[i] : i \in DOMAIN log}

ChainTypeOK ==
    /\ exists \in BOOLEAN
    /\ creator \subseteq Transactions
    /\ holder \subseteq Transactions
    /\ pc \in [Transactions -> Labels]
    /\ tail \in [Transactions -> Nat]
    /\ ended \in [Transactions -> {"running", "committed", "rolled back", "conflict"}]
    /\ log \in Seq(Rows)

\* The lock row.  Whoever has passed the second lock holds it, nobody else
\* does, it is committed or the holder's own uncommitted row, and nobody else
\* has an uncommitted one.
LockHeld ==
    /\ \A t \in Transactions : pc[t] \in {"tail", "insert"} <=> t \in holder
    /\ \A s, t \in holder : s = t
    /\ \A s, t \in creator : s = t
    /\ \A t \in creator : pc[t] \in {"lockNew", "tail", "insert"}
    /\ exists => creator = {}
    /\ \A t \in holder : exists \/ t \in creator

ChainInv ==
    /\ ChainTypeOK
    /\ LockHeld
    /\ ChainVerifies
    /\ TailStaysFresh

\* The log stays a sequence when a row is added to it.
LEMMA AppendRow ==
    ASSUME NEW S, NEW q \in Seq(S), NEW row
    PROVE  LET new == Append(q, row) IN
           /\ new \in Seq({new[i] : i \in DOMAIN new})
           /\ Len(new) = Len(q) + 1
           /\ DOMAIN new = 1..(Len(q) + 1)
           /\ new[Len(q) + 1] = row
           /\ \A i \in DOMAIN q : new[i] = q[i]
  <1>. DEFINE new == Append(q, row)
              T == S \cup {row}
              U == {new[i] : i \in DOMAIN new}
  <1>1. q \in Seq(T)
    OBVIOUS
  <1>2. /\ new \in Seq(T)
        /\ Len(new) = Len(q) + 1
        /\ DOMAIN new = 1..(Len(q) + 1)
        /\ new[Len(q) + 1] = row
        /\ \A i \in DOMAIN q : new[i] = q[i]
    BY <1>1
  <1>. HIDE DEF new
  <1>3. new = [i \in 1..Len(new) |-> new[i]] /\ Len(new) \in Nat
    BY <1>2
  <1>4. \A i \in 1..Len(new) : new[i] \in U
    BY <1>2
  <1>5. new \in Seq(U)
    <2>. HIDE DEF U
    <2>. QED BY <1>3, <1>4
  <1>. QED BY <1>2, <1>5 DEF new

\* Before the first append.
LEMMA ChainInit == Init => ChainInv
  <1>. SUFFICES ASSUME Init PROVE ChainInv
    OBVIOUS
  <1>1. log \in Seq(Rows)
    BY DEF Init, Rows
  <1>2. ChainTypeOK
    BY <1>1 DEF Init, ChainTypeOK, Labels
  <1>. QED
    BY <1>2 DEF Init, ChainInv, LockHeld, ChainVerifies, TailStaysFresh

\* The log is a sequence.
LEMMA LogLength ==
    ASSUME ChainInv
    PROVE  Len(log) \in Nat /\ DOMAIN log = 1..Len(log)
  <1>1. log \in Seq(Rows)
    BY DEF ChainInv, ChainTypeOK
  <1>. QED BY <1>1

\* What the statements that leave the log alone have to show.
LEMMA LogUnchanged ==
    ASSUME ChainInv, UNCHANGED log, LockHeld',
           exists' \in BOOLEAN,
           creator' \subseteq Transactions,
           holder' \subseteq Transactions,
           pc' \in [Transactions -> Labels],
           tail' \in [Transactions -> Nat],
           ended' \in [Transactions -> {"running", "committed", "rolled back", "conflict"}],
           \A t \in Transactions :
              /\ pc'[t] = "insert" => tail'[t] = Len(log)
              /\ ended'[t] # "conflict"
    PROVE  ChainInv'
  <1>1. ChainTypeOK'
    BY DEF ChainInv, ChainTypeOK, Rows
  <1>2. ChainVerifies'
    BY DEF ChainInv, ChainVerifies
  <1>3. TailStaysFresh'
    BY DEF TailStaysFresh
  <1>. QED BY <1>1, <1>2, <1>3 DEF ChainInv

\* The first lock, on a committed row that nobody holds.
LEMMA LockChainStep ==
    ASSUME ChainInv, NEW t \in Transactions, LockChain(t)
    PROVE  ChainInv'
  <1>1. LockHeld'
    BY DEF ChainInv, ChainTypeOK, LockHeld, LockChain, LockIsFree, Goto
  <1>. QED
    BY <1>1, LogUnchanged DEF ChainInv, ChainTypeOK, TailStaysFresh, LockChain, Goto, Labels

\* The first lock, on a row that is not there.
LEMMA LockMissingStep ==
    ASSUME ChainInv, NEW t \in Transactions, LockMissing(t)
    PROVE  ChainInv'
  <1>1. LockHeld'
    BY DEF ChainInv, ChainTypeOK, LockHeld, LockMissing, Goto
  <1>. QED
    BY <1>1, LogUnchanged DEF ChainInv, ChainTypeOK, TailStaysFresh, LockMissing, Goto, Labels

\* The insert of the lock row: only one is uncommitted.
LEMMA CreateLockStep ==
    ASSUME ChainInv, NEW t \in Transactions, CreateLock(t)
    PROVE  ChainInv'
  <1>1. LockHeld'
    BY DEF ChainInv, ChainTypeOK, LockHeld, CreateLock, Goto
  <1>. QED
    BY <1>1, LogUnchanged DEF ChainInv, ChainTypeOK, TailStaysFresh, CreateLock, Goto, Labels

\* The second lock, on the own row or on a committed one.
LEMMA LockNewStep ==
    ASSUME ChainInv, NEW t \in Transactions, LockNew(t)
    PROVE  ChainInv'
  <1>1. LockHeld'
    BY DEF ChainInv, ChainTypeOK, LockHeld, LockNew, LockIsFree, Goto
  <1>. QED
    BY <1>1, LogUnchanged DEF ChainInv, ChainTypeOK, TailStaysFresh, LockNew, Goto, Labels

\* The tail that is read is the tail.
LEMMA ReadTailStep ==
    ASSUME ChainInv, NEW t \in Transactions, ReadTail(t)
    PROVE  ChainInv'
  <1>1. LockHeld'
    BY DEF ChainInv, ChainTypeOK, LockHeld, ReadTail, Goto
  <1>. QED
    BY <1>1, LogLength, LogUnchanged
    DEF ChainInv, ChainTypeOK, TailStaysFresh, ReadTail, Goto, Labels

\* A rollback takes an uncommitted lock row with it.
LEMMA RollbackStep ==
    ASSUME ChainInv, NEW t \in Transactions, Rollback(t)
    PROVE  ChainInv'
  <1>1. LockHeld'
    BY DEF ChainInv, ChainTypeOK, LockHeld, Rollback, Release, Goto
  <1>. QED
    BY <1>1, LogUnchanged
    DEF ChainInv, ChainTypeOK, TailStaysFresh, Rollback, Release, Goto, Labels

\* The insert links the new row to the last one, and nobody else has read a
\* tail that is now stale.
LEMMA InsertStep ==
    ASSUME ChainInv, NEW t \in Transactions, Insert(t)
    PROVE  ChainInv'
  <1>. USE DEF ChainInv
  <1>1. t \in holder /\ tail[t] = Len(log) /\ Len(log) \in Nat /\ DOMAIN log = 1..Len(log)
    BY LogLength DEF Insert, LockHeld, TailStaysFresh
  <1>2. /\ log' = Append(log, NewRow(t))
        /\ exists' = (exists \/ t \in creator)
        /\ ended' = [ended EXCEPT ![t] = "committed"]
    BY <1>1 DEF Insert, SequenceTaken
  <1>3. /\ log' \in Seq(Rows')
        /\ Len(log') = Len(log) + 1
        /\ DOMAIN log' = 1..(Len(log) + 1)
        /\ log'[Len(log) + 1] = NewRow(t)
        /\ \A i \in DOMAIN log : log'[i] = log[i]
    <2>. DEFINE row == NewRow(t)
    <2>. HIDE DEF row
    <2>1. log' = Append(log, row) /\ log \in Seq(Rows)
      BY <1>2 DEF row, ChainTypeOK
    <2>. QED BY <2>1, AppendRow DEF Rows, row
  <1>4. LockHeld'
    BY <1>2 DEF ChainTypeOK, LockHeld, Insert, Release, Goto
  <1>5. ChainTypeOK'
    BY <1>2, <1>3 DEF ChainTypeOK, Insert, Release, Goto, Labels
  <1>6. ChainVerifies'
    <2>. SUFFICES ASSUME NEW i \in DOMAIN log'
                  PROVE  /\ log'[i].seq = i
                         /\ log'[i].prev = IF i = 1 THEN Genesis ELSE RowHash(log'[i - 1])
      BY DEF ChainVerifies, RowHash
    <2>1. CASE i \in DOMAIN log
      <3>1. i = 1 \/ i - 1 \in DOMAIN log
        BY <2>1, <1>1
      <3>. QED BY <2>1, <3>1, <1>3 DEF ChainVerifies, RowHash
    <2>2. CASE i = Len(log) + 1
      <3>1. log'[i] = NewRow(t) /\ i = tail[t] + 1
        BY <2>2, <1>1, <1>3
      <3>2. log'[i].seq = i
        BY <3>1 DEF NewRow
      <3>3. log'[i].prev = IF i = 1 THEN Genesis ELSE RowHash(log[i - 1])
        <4>1. i - 1 = tail[t] /\ (i = 1 <=> tail[t] = 0)
          BY <3>1, <1>1
        <4>. QED BY <3>1, <4>1 DEF NewRow
      <3>4. i # 1 => log'[i - 1] = log[i - 1]
        BY <2>2, <1>1, <1>3
      <3>. QED BY <3>2, <3>3, <3>4 DEF RowHash
    <2>. QED BY <2>1, <2>2, <1>1, <1>3
  <1>7. TailStaysFresh'
    <2>. SUFFICES ASSUME NEW s \in Transactions
                  PROVE  /\ pc'[s] = "insert" => tail'[s] = Len(log')
                         /\ ended'[s] # "conflict"
      BY DEF TailStaysFresh
    <2>1. pc'[s] # "insert"
      BY <1>1 DEF Insert, Release, Goto, LockHeld, ChainTypeOK
    <2>2. ended'[s] # "conflict"
      BY <1>2 DEF TailStaysFresh, ChainTypeOK
    <2>. QED BY <2>1, <2>2
  <1>. QED BY <1>4, <1>5, <1>6, <1>7

\* The inductive invariant of AppendInTransaction: mutual exclusion of the
\* lock row from its creation on, a fresh tail and a chain that verifies.
THEOREM ChainInvariant == Spec => []ChainInv
  <1>1. ASSUME ChainInv, [Next]_vars PROVE ChainInv'
    <2>1. CASE \E t \in Transactions : LockChain(t)
      BY <1>1, <2>1, LockChainStep
    <2>2. CASE \E t \in Transactions : LockMissing(t)
      BY <1>1, <2>2, LockMissingStep
    <2>3. CASE \E t \in Transactions : CreateLock(t)
      BY <1>1, <2>3, CreateLockStep
    <2>4. CASE \E t \in Transactions : LockNew(t)
      BY <1>1, <2>4, LockNewStep
    <2>5. CASE \E t \in Transactions : ReadTail(t)
      BY <1>1, <2>5, ReadTailStep
    <2>6. CASE \E t \in Transactions : Insert(t)
      BY <1>1, <2>6, InsertStep
    <2>7. CASE \E t \in Transactions : Rollback(t)
      BY <1>1, <2>7, RollbackStep
    <2>8. CASE UNCHANGED vars
      <3>1. LockHeld'
        BY <1>1, <2>8 DEF ChainInv, LockHeld, vars
      <3>. QED
        BY <1>1, <2>8, <3>1, LogUnchanged DEF ChainInv, ChainTypeOK, TailStaysFresh, vars
    <2>. QED BY <1>1, <2>1, <2>2, <2>3, <2>4, <2>5, <2>6, <2>7, <2>8 DEF Next, AllEnded
  <1>. QED BY <1>1, ChainInit, PTL DEF Spec

\* What Verify checks always holds: no gap in the sequence and every row
\* carries the hash of the one before it.
THEOREM ChainAlwaysVerifies == Spec => []ChainVerifies
  <1>1. ChainInv => ChainVerifies
    BY DEF ChainInv
  <1>. QED BY <1>1, ChainInvariant, PTL

\* No append ever fails because of another one: a transaction that has read
\* the tail inserts behind it.
THEOREM TailsStayFresh == Spec => []TailStaysFresh
  <1>1. ChainInv => TailStaysFresh
    BY DEF ChainInv
  <1>. QED BY <1>1, ChainInvariant, PTL

-----------------------------------------------------------------------------
(* The chain implements the abstract log                                   *)

\* A transaction has an outcome when it reached its end, and not before.
EndedOnce == \A t \in Transactions : pc[t] = "end" <=> ended[t] # "running"

OutcomeInv == ChainInv /\ EndedOnce /\ CommitsAreLogged

\* A statement before the end leaves every outcome open that was open.
LEMMA StatementKeepsOutcomes ==
    ASSUME OutcomeInv, UNCHANGED <<log, ended>>,
           NEW t \in Transactions, NEW label \in Labels \ {"end"},
           pc[t] # "end", Goto(t, label)
    PROVE  EndedOnce' /\ CommitsAreLogged'
  <1>1. EndedOnce'
    BY DEF OutcomeInv, ChainInv, ChainTypeOK, EndedOnce, Goto
  <1>. QED BY <1>1 DEF OutcomeInv, CommitsAreLogged

\* The insert is the commit of the abstract log: the tail the transaction read
\* is still the tail, so its row is linked to the last one.
LEMMA InsertCommits ==
    ASSUME OutcomeInv, NEW t \in Transactions, Insert(t)
    PROVE  /\ Log!Commit(t)
           /\ DOMAIN log = 1..Len(log) /\ Len(log) \in Nat
           /\ DOMAIN log' = 1..(Len(log) + 1)
           /\ log'[Len(log) + 1].event = t
           /\ \A i \in DOMAIN log : log'[i] = log[i]
  <1>. USE DEF OutcomeInv, ChainInv
  <1>1. tail[t] = Len(log) /\ Len(log) \in Nat /\ DOMAIN log = 1..Len(log)
    BY LogLength DEF Insert, TailStaysFresh
  <1>2. /\ log' = Append(log, NewRow(t))
        /\ ended' = [ended EXCEPT ![t] = "committed"]
    BY <1>1 DEF Insert, SequenceTaken
  <1>3. ended[t] = "running"
    BY DEF Insert, EndedOnce
  <1>4. NewRow(t) = [seq |-> Len(log) + 1, event |-> t, prev |-> Log!Link]
    <2>1. log \in Seq(Rows)
      BY DEF ChainTypeOK
    <2>2. Len(log) = 0 <=> log = << >>
      BY <2>1
    <2>. QED BY <1>1, <2>2 DEF NewRow, Log!Link
  <1>5. Log!Commit(t)
    BY <1>2, <1>3, <1>4 DEF Log!Commit
  <1>6. /\ DOMAIN log' = 1..(Len(log) + 1)
        /\ log'[Len(log) + 1] = NewRow(t)
        /\ \A i \in DOMAIN log : log'[i] = log[i]
    <2>. DEFINE row == NewRow(t)
    <2>. HIDE DEF row
    <2>1. log' = Append(log, row) /\ log \in Seq(Rows)
      BY <1>2 DEF row, ChainTypeOK
    <2>. QED BY <2>1, AppendRow DEF row
  <1>7. log'[Len(log) + 1].event = t
    BY <1>6 DEF NewRow
  <1>. QED BY <1>1, <1>5, <1>6, <1>7

\* The event of the commit is the only new one, and was not in the log.
LEMMA InsertKeepsOutcomes ==
    ASSUME OutcomeInv, NEW t \in Transactions, Insert(t)
    PROVE  EndedOnce' /\ CommitsAreLogged'
  <1>. USE DEF OutcomeInv, ChainInv
  <1>1. /\ ended[t] = "running"
        /\ ended' = [ended EXCEPT ![t] = "committed"]
        /\ pc' = [pc EXCEPT ![t] = "end"]
        /\ ended \in [Transactions -> {"running", "committed", "rolled back", "conflict"}]
        /\ pc \in [Transactions -> Labels]
    BY InsertCommits DEF Log!Commit, Insert, Release, Goto, ChainTypeOK
  <1>2. EndedOnce'
    BY <1>1 DEF EndedOnce
  <1>3. \A i \in DOMAIN log : log[i].event # t
    BY <1>1 DEF CommitsAreLogged
  <1>. DEFINE n == Len(log) + 1
  <1>4. /\ DOMAIN log = 1..Len(log) /\ Len(log) \in Nat
        /\ DOMAIN log' = 1..n
        /\ log'[n].event = t
        /\ \A i \in DOMAIN log : log'[i] = log[i]
    BY InsertCommits
  <1>5. ASSUME NEW u \in Transactions
        PROVE  ended'[u] = "committed" <=> \E i \in DOMAIN log' : log'[i].event = u
    <2>1. CASE u = t
      <3>1. ended'[u] = "committed"
        BY <1>1, <2>1
      <3>2. n \in DOMAIN log' /\ log'[n].event = u
        BY <1>4, <2>1
      <3>. QED BY <3>1, <3>2
    <2>2. CASE u # t
      <3>1. ended'[u] = ended[u]
        BY <1>1, <2>2
      <3>2. (\E i \in DOMAIN log' : log'[i].event = u) <=> \E i \in DOMAIN log : log[i].event = u
        BY <1>4, <2>2
      <3>. QED BY <3>1, <3>2 DEF CommitsAreLogged
    <2>. QED BY <2>1, <2>2
  <1>6. ASSUME NEW i \in DOMAIN log', NEW j \in DOMAIN log', log'[i].event = log'[j].event
        PROVE  i = j
    <2>1. i \in DOMAIN log \/ i = n
      BY <1>4
    <2>2. j \in DOMAIN log \/ j = n
      BY <1>4
    <2>. QED BY <1>3, <1>4, <1>6, <2>1, <2>2 DEF CommitsAreLogged
  <1>. QED BY <1>2, <1>5, <1>6 DEF CommitsAreLogged

\* A rollback leaves no event: the transaction had not committed.
LEMMA RollbackFails ==
    ASSUME OutcomeInv, NEW t \in Transactions, Rollback(t)
    PROVE  Log!Fail(t) /\ EndedOnce' /\ CommitsAreLogged'
  <1>. USE DEF OutcomeInv, ChainInv
  <1>1. /\ ended[t] = "running"
        /\ ended' = [ended EXCEPT ![t] = "rolled back"]
        /\ pc' = [pc EXCEPT ![t] = "end"]
        /\ ended \in [Transactions -> {"running", "committed", "rolled back", "conflict"}]
        /\ pc \in [Transactions -> Labels]
        /\ log' = log
    BY DEF Rollback, Release, Goto, EndedOnce, ChainTypeOK
  <1>2. EndedOnce'
    BY <1>1 DEF EndedOnce
  <1>3. \A u \in Transactions : ended'[u] = "committed" <=> ended[u] = "committed"
    BY <1>1
  <1>4. CommitsAreLogged'
    BY <1>1, <1>3 DEF CommitsAreLogged
  <1>. QED BY <1>1, <1>2, <1>4 DEF Log!Fail

\* Every step is a step of the abstract log or changes nothing in it.
LEMMA ChainStepRefines ==
    ASSUME OutcomeInv, [Next]_vars
    PROVE  [Log!Next]_<<log, ended>> /\ EndedOnce' /\ CommitsAreLogged'
  <1>1. CASE \E t \in Transactions :
                LockChain(t) \/ LockMissing(t) \/ CreateLock(t) \/ LockNew(t) \/ ReadTail(t)
    <2>1. PICK t \in Transactions :
                LockChain(t) \/ LockMissing(t) \/ CreateLock(t) \/ LockNew(t) \/ ReadTail(t)
      BY <1>1
    <2>2. UNCHANGED <<log, ended>> /\ pc[t] # "end"
      BY <2>1 DEF LockChain, LockMissing, CreateLock, LockNew, ReadTail
    <2>3. \E label \in Labels \ {"end"} : Goto(t, label)
      BY <2>1 DEF LockChain, LockMissing, CreateLock, LockNew, ReadTail, Labels
    <2>. QED BY <2>2, <2>3, StatementKeepsOutcomes
  <1>2. CASE \E t \in Transactions : Insert(t)
    BY <1>2, InsertCommits, InsertKeepsOutcomes DEF Log!Next
  <1>3. CASE \E t \in Transactions : Rollback(t)
    BY <1>3, RollbackFails DEF Log!Next
  <1>4. CASE UNCHANGED vars
    BY <1>4 DEF vars, OutcomeInv, EndedOnce, CommitsAreLogged
  <1>. QED BY <1>1, <1>2, <1>3, <1>4 DEF Next, AllEnded

\* The invariant of the refinement: the chain is sound, outcomes come with the
\* end, and the log is that of the commits.
THEOREM OutcomeInvariant == Spec => []OutcomeInv
  <1>1. Init => EndedOnce /\ CommitsAreLogged
    BY DEF Init, EndedOnce, CommitsAreLogged
  <1>2. EndedOnce /\ CommitsAreLogged /\ ChainInv /\ [Next]_vars
          => EndedOnce' /\ CommitsAreLogged'
    BY ChainStepRefines DEF OutcomeInv
  <1>. QED BY <1>1, <1>2, ChainInvariant, PTL DEF Spec, OutcomeInv

\* The log holds the events of the committed transactions, each once.
THEOREM EveryCommitLogged == Spec => []CommitsAreLogged
  <1>1. OutcomeInv => CommitsAreLogged
    BY DEF OutcomeInv
  <1>. QED BY <1>1, OutcomeInvariant, PTL

\* AppendInTransaction, run statement by statement by any number of concurrent
\* transactions, is an atomic append with the commit: what module Station
\* takes for granted of the audit log.
THEOREM ChainImplementsAuditLog == Spec => ImplementsAuditLog
  <1>1. Init => Log!Init
    BY DEF Init, Log!Init
  <1>2. OutcomeInv /\ [Next]_vars => [Log!Next]_<<log, ended>>
    BY ChainStepRefines
  <1>. QED BY <1>1, <1>2, OutcomeInvariant, PTL DEF Spec, ImplementsAuditLog, Log!Spec

=============================================================================
