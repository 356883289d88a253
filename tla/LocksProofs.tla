---------------------------- MODULE LocksProofs ----------------------------
(***************************************************************************)
(* Proofs about the row locks for every number of concurrent requests and  *)
(* every mix of programs.                                                  *)
(***************************************************************************)
EXTENDS Locks, TLAPS, FiniteSetTheorems

-----------------------------------------------------------------------------
(***************************************************************************)
(* What the programs look like.                                            *)
(***************************************************************************)

Rows == {"org", "station", "amendment", "shift", "draft", "report", "key", "user",
         "variance", "chain", "rules", "roles"}

Modes == {"none", "X", "U", "KS"}

Statements == [do : {"read", "lock", "count"}, row : Rows, mode : Modes]

\* The order in which rows are locked.  The organization has no place in it:
\* requests that keep the order only ever share it.
Rank(row) ==
    CASE row = "station" -> 1
      [] row = "amendment" -> 2
      [] row = "shift" -> 3
      [] row = "draft" -> 4
      [] row = "report" -> 5
      [] row = "key" -> 6
      [] row = "user" -> 7
      [] row = "variance" -> 8
      [] row = "chain" -> 9
      [] OTHER -> 10

\* A program that locks rows in the order of their ranks and shares the
\* organization.
KeepsOrder(prog) ==
    /\ \A i \in 1..Len(prog) :
          prog[i].do = "lock" /\ prog[i].row = "org" => prog[i].mode = "KS"
    /\ \A i, j \in 1..Len(prog) :
          /\ i < j
          /\ prog[i].do = "lock" /\ prog[i].row # "org"
          /\ prog[j].do = "lock" /\ prog[j].row # "org"
          => Rank(prog[i].row) < Rank(prog[j].row)

\* A program that passes RequireEnabled.
Gated(prog) == \A f \in Flags : \E i \in 1..Len(prog) : prog[i] = Read(f)

\* The station writes pass the gate and keep the order.
LEMMA OperationalPrograms ==
    \A prog \in {OpenShift, Submit, Acknowledge, ApproveAmendment, RejectAmendment, WriteDraft} :
        prog \in Seq(Statements) /\ KeepsOrder(prog) /\ Gated(prog)
  <1>. USE DEF RequireEnabled, AppendInTransaction, Read, Lock
  <1>. DEFINE Good(prog) == prog \in Seq(Statements) /\ KeepsOrder(prog) /\ Gated(prog)
  <1>1. Good(OpenShift)
    BY DEF OpenShift, KeepsOrder, Rank, Gated, Flags, Statements, Rows, Modes
  <1>2. Good(Submit)
    BY DEF Submit, KeepsOrder, Rank, Gated, Flags, Statements, Rows, Modes
  <1>3. Good(Acknowledge)
    <2>1. Acknowledge \in Seq(Statements)
      BY DEF Acknowledge, Statements, Rows, Modes
    <2>2. KeepsOrder(Acknowledge)
      BY DEF Acknowledge, KeepsOrder, Rank
    <2>3. Gated(Acknowledge)
      BY DEF Acknowledge, Gated, Flags
    <2>. QED BY <2>1, <2>2, <2>3
  <1>4. Good(ApproveAmendment)
    BY DEF ApproveAmendment, KeepsOrder, Rank, Gated, Flags, Statements, Rows, Modes
  <1>5. Good(RejectAmendment)
    BY DEF RejectAmendment, KeepsOrder, Rank, Gated, Flags, Statements, Rows, Modes
  <1>6. Good(WriteDraft)
    BY DEF WriteDraft, KeepsOrder, Rank, Gated, Flags, Statements, Rows, Modes
  <1>. QED BY <1>1, <1>2, <1>3, <1>4, <1>5, <1>6

\* So do the other calls that take no exclusive lock on the organization,
\* except for the gate.
LEMMA OrderedPrograms ==
    \A prog \in {CreateRevision, UpdateUser, CreateInvitation, SwitchStation} :
        prog \in Seq(Statements) /\ KeepsOrder(prog)
  <1>. USE DEF AppendInTransaction, Lock
  <1>1. CreateRevision \in Seq(Statements) /\ KeepsOrder(CreateRevision)
    BY DEF CreateRevision, KeepsOrder, Rank, Statements, Rows, Modes
  <1>2. UpdateUser \in Seq(Statements) /\ KeepsOrder(UpdateUser)
    BY DEF UpdateUser, KeepsOrder, Rank, Statements, Rows, Modes
  <1>3. CreateInvitation \in Seq(Statements) /\ KeepsOrder(CreateInvitation)
    BY DEF CreateInvitation, KeepsOrder, Rank, Statements, Rows, Modes
  <1>4. SwitchStation \in Seq(Statements) /\ KeepsOrder(SwitchStation)
    BY DEF SwitchStation, KeepsOrder, Rank, Statements, Rows, Modes
  <1>. QED BY <1>1, <1>2, <1>3, <1>4

\* The five calls that keep another order.
LEMMA UnorderedPrograms ==
    \A prog \in {AssignRole, RemoveRole, SwitchOrganization, EvaluateStarvation,
                  MarkSubmitFailed} :
        prog \in Seq(Statements)
  <1>. USE DEF AppendInTransaction, Lock, CountOwners, Statements, Rows, Modes
  <1>1. AssignRole \in Seq(Statements)
    BY DEF AssignRole
  <1>2. RemoveRole \in Seq(Statements)
    BY DEF RemoveRole
  <1>3. SwitchOrganization \in Seq(Statements)
    BY DEF SwitchOrganization
  <1>4. EvaluateStarvation \in Seq(Statements)
    BY DEF EvaluateStarvation
  <1>5. MarkSubmitFailed \in Seq(Statements)
    BY DEF MarkSubmitFailed
  <1>. QED BY <1>1, <1>2, <1>3, <1>4, <1>5

\* The kinds of requests and their programs.
LEMMA ProgramTypes ==
    /\ \A k \in Kinds : Programs[k] \in Seq(Statements)
    /\ \A k \in Kinds \ Unordered : KeepsOrder(Programs[k])
    /\ \A k \in Operational : k \in Kinds /\ Gated(Programs[k])
  BY OperationalPrograms, OrderedPrograms, UnorderedPrograms
  DEF Kinds, Programs, Unordered, Operational

\* A removal of a role counts the owners under the lock of the organization.
LEMMA RemovalText ==
    /\ Len(Programs["remove"]) = 5
    /\ Programs["remove"][1] = Lock("org", "X")
    /\ Programs["remove"][3] = CountOwners
  BY DEF Programs, RemoveRole, AppendInTransaction

-----------------------------------------------------------------------------
(***************************************************************************)
(* The inductive invariant.                                                *)
(***************************************************************************)

Ends == {"refused", "last_owner", "committed", "rolled back", "deadlock"}

LocksTypeOK ==
    /\ kind \in [Requests -> Kinds]
    /\ pc \in [Requests -> Nat]
    /\ held \in [Requests -> SUBSET [row : Rows, mode : Modes]]
    /\ ended \in [Requests -> Ends \cup {"no"}]
    /\ since \in [Requests -> SUBSET Flags]

\* A transaction holds locks of statements it has run, and as long as it runs
\* it holds them all.
HeldAreRun ==
    \A p \in Requests :
        /\ \A h \in held[p] : \E i \in 1..Len(Programs[kind[p]]) :
              i < pc[p] /\ Programs[kind[p]][i] = Lock(h.row, h.mode)
        /\ Running(p) => \A i \in 1..Len(Programs[kind[p]]) :
              i < pc[p] /\ Programs[kind[p]][i].do = "lock" =>
                  [row |-> Programs[kind[p]][i].row, mode |-> Programs[kind[p]][i].mode] \in held[p]

NotBegun ==
    \A p \in Requests : pc[p] = 0 => held[p] = {} /\ ended[p] = "no" /\ since[p] = {}

\* A flag that was false ever since a request began is false, and the request
\* has not got past reading it.
Unread ==
    \A p \in Requests : \A f \in since[p] :
        /\ ~enabled[f]
        /\ \A i \in 1..Len(Programs[kind[p]]) : i < pc[p] => Programs[kind[p]][i] # Read(f)

\* A removal that has counted may rely on its count until it commits.
CountHolds ==
    \A p \in Requests :
        kind[p] = "remove" /\ Running(p) /\ pc[p] > 3 => \E g, h \in owners : g # h

LocksInv ==
    /\ LocksTypeOK
    /\ TypeOK
    /\ HeldAreRun
    /\ NotBegun
    /\ Unread
    /\ CountHolds
    /\ DisabledScopeRefuses
    /\ OwnerRemains

\* No request has begun.
LEMMA LocksInit == Init => LocksInv
  <1>. SUFFICES ASSUME Init PROVE LocksInv
    OBVIOUS
  <1>1. LocksTypeOK
    BY LocksAssumption DEF Init, LocksTypeOK
  <1>2. TypeOK
    <2>1. \A p \in Requests : Len(Programs[kind[p]]) \in Nat
      BY <1>1, ProgramTypes DEF LocksTypeOK
    <2>. QED BY <2>1 DEF Init, TypeOK
  <1>. QED
    BY <1>1, <1>2, GrantsAssumption
    DEF Init, LocksInv, HeldAreRun, NotBegun, Unread, CountHolds, DisabledScopeRefuses, OwnerRemains,
        Running

-----------------------------------------------------------------------------
(***************************************************************************)
(* Preservation, one lemma per way in which a request goes on.             *)
(***************************************************************************)

\* The types of what a request is about to do.
LEMMA Typed ==
    ASSUME LocksInv, NEW p \in Requests
    PROVE  /\ kind[p] \in Kinds
           /\ pc[p] \in Nat
           /\ Programs[kind[p]] \in Seq(Statements)
           /\ Len(Programs[kind[p]]) \in Nat
           /\ \A i \in 1..Len(Programs[kind[p]]) : Programs[kind[p]][i] \in Statements
  BY ProgramTypes DEF LocksInv, LocksTypeOK

\* A request begins and notes which flags are false.
LEMMA BeginKeepsInv ==
    ASSUME LocksInv, NEW p \in Requests, Begin(p)
    PROVE  LocksInv'
  <1>1. LocksTypeOK'
    BY DEF LocksInv, LocksTypeOK, Begin
  <1>2. pc' = [pc EXCEPT ![p] = 1] /\ pc[p] = 0 /\ pc \in [Requests -> Nat]
    BY DEF Begin, LocksInv, LocksTypeOK
  <1>3. /\ since' = [since EXCEPT ![p] = {f \in Flags : ~enabled[f]}]
        /\ since \in [Requests -> SUBSET Flags]
    BY DEF Begin, LocksInv, LocksTypeOK
  <1>4. UNCHANGED <<kind, held, ended, enabled, owners, late>>
    BY DEF Begin
  <1>5. TypeOK'
    <2>1. \A q \in Requests : pc'[q] \in 0..(Len(Programs[kind[q]]) + 1)
      <3>. TAKE q \in Requests
      <3>1. pc[q] \in 0..(Len(Programs[kind[q]]) + 1) /\ Len(Programs[kind[q]]) \in Nat
        BY Typed DEF LocksInv, TypeOK
      <3>. QED BY <1>2, <3>1
    <2>. QED BY <1>4, <2>1 DEF LocksInv, TypeOK
  <1>6. HeldAreRun' /\ NotBegun' /\ CountHolds' /\ OwnerRemains'
    BY <1>2, <1>3, <1>4 DEF LocksInv, HeldAreRun, NotBegun, CountHolds, OwnerRemains, Running
  <1>7. Unread'
    BY <1>2, <1>3, <1>4 DEF LocksInv, Unread
  <1>8. DisabledScopeRefuses'
    BY <1>2, <1>3, <1>4 DEF LocksInv, DisabledScopeRefuses, NotBegun
  <1>. QED BY <1>1, <1>5, <1>6, <1>7, <1>8 DEF LocksInv

\* A request ends without effect and releases its locks.
LEMMA EndKeepsInv ==
    ASSUME LocksInv, NEW p \in Requests, NEW how \in Ends \ {"committed"}, End(p, how),
           pc[p] > 0, UNCHANGED <<kind, pc, enabled, owners, since>>
    PROVE  LocksInv'
  <1>1. LocksTypeOK'
    BY DEF LocksInv, LocksTypeOK, End
  <1>2. /\ ended' = [ended EXCEPT ![p] = how] /\ ended \in [Requests -> Ends \cup {"no"}]
        /\ held' = [held EXCEPT ![p] = {}] /\ held \in [Requests -> SUBSET [row : Rows, mode : Modes]]
        /\ how # "no" /\ how # "committed"
    BY DEF End, LocksInv, LocksTypeOK, Ends
  <1>3. TypeOK'
    BY <1>2 DEF LocksInv, TypeOK, Ends
  <1>4. HeldAreRun'
    BY <1>2 DEF LocksInv, HeldAreRun, Running
  <1>5. NotBegun' /\ Unread' /\ OwnerRemains'
    BY <1>2 DEF LocksInv, NotBegun, Unread, OwnerRemains
  <1>6. CountHolds' /\ DisabledScopeRefuses'
    BY <1>2 DEF LocksInv, CountHolds, Running, DisabledScopeRefuses
  <1>. QED BY <1>1, <1>3, <1>4, <1>5, <1>6 DEF LocksInv

\* A request passes a statement that locks nothing: it read a flag that is
\* true, or counted two owners.
LEMMA PassKeepsInv ==
    ASSUME LocksInv, NEW p \in Requests, Running(p), ~AtCommit(p), Statement(p).do # "lock",
           \A f \in Flags : Statement(p) = Read(f) => enabled[f],
           Statement(p).do = "count" => \E g, h \in owners : g # h,
           Advance(p), UNCHANGED <<kind, held, ended, enabled, owners, since>>
    PROVE  LocksInv'
  <1>1. LocksTypeOK'
    BY DEF LocksInv, LocksTypeOK, Advance
  <1>2. /\ pc' = [pc EXCEPT ![p] = pc[p] + 1] /\ pc \in [Requests -> Nat]
        /\ pc[p] \in 1..Len(Programs[kind[p]])
    BY Typed DEF Advance, LocksInv, LocksTypeOK, Running, AtCommit
  <1>3. Programs[kind[p]][pc[p]].do # "lock"
    BY DEF Statement
  <1>4. TypeOK'
    <2>1. \A q \in Requests : pc'[q] \in 0..(Len(Programs[kind[q]]) + 1)
      <3>. TAKE q \in Requests
      <3>1. pc[q] \in 0..(Len(Programs[kind[q]]) + 1) /\ Len(Programs[kind[q]]) \in Nat
        BY Typed DEF LocksInv, TypeOK
      <3>. QED BY <1>2, <3>1
    <2>. QED BY <2>1 DEF LocksInv, TypeOK
  <1>5. HeldAreRun'
    <2>. SUFFICES ASSUME NEW q \in Requests
                  PROVE  /\ \A h \in held[q] : \E i \in 1..Len(Programs[kind[q]]) :
                               i < pc'[q] /\ Programs[kind[q]][i] = Lock(h.row, h.mode)
                         /\ Running(q)' => \A i \in 1..Len(Programs[kind[q]]) :
                               i < pc'[q] /\ Programs[kind[q]][i].do = "lock" =>
                                  [row |-> Programs[kind[q]][i].row,
                                   mode |-> Programs[kind[q]][i].mode] \in held[q]
      BY DEF HeldAreRun
    <2>1. CASE q = p
      <3>1. pc'[p] = pc[p] + 1
        BY <1>2
      <3>2. ASSUME NEW i \in 1..Len(Programs[kind[p]]), i < pc[p] + 1, i # pc[p]
            PROVE  i < pc[p]
        BY <1>2, <3>2
      <3>3. /\ \A h \in held[p] : \E i \in 1..Len(Programs[kind[p]]) :
                   i < pc[p] /\ Programs[kind[p]][i] = Lock(h.row, h.mode)
            /\ \A i \in 1..Len(Programs[kind[p]]) :
                   i < pc[p] /\ Programs[kind[p]][i].do = "lock" =>
                      [row |-> Programs[kind[p]][i].row,
                       mode |-> Programs[kind[p]][i].mode] \in held[p]
        BY DEF LocksInv, HeldAreRun
      <3>4. \A i \in 1..Len(Programs[kind[p]]) : i < pc[p] => i < pc[p] + 1
        BY <1>2
      <3>. QED BY <1>3, <2>1, <3>1, <3>2, <3>3, <3>4
    <2>2. CASE q # p
      BY <1>2, <2>2 DEF LocksInv, HeldAreRun, Running
    <2>. QED BY <2>1, <2>2
  <1>6. NotBegun' /\ OwnerRemains' /\ DisabledScopeRefuses'
    BY <1>2 DEF LocksInv, NotBegun, OwnerRemains, DisabledScopeRefuses
  <1>7. Unread'
    <2>. SUFFICES ASSUME NEW q \in Requests, NEW f \in since[q]
                  PROVE  /\ ~enabled[f]
                         /\ \A i \in 1..Len(Programs[kind[q]]) :
                               i < pc'[q] => Programs[kind[q]][i] # Read(f)
      BY DEF Unread
    <2>1. f \in Flags /\ ~enabled[f]
      BY DEF LocksInv, LocksTypeOK, Unread
    <2>2. Programs[kind[p]][pc[p]] # Read(f)
      BY <2>1 DEF Statement
    <2>3. \A i \in 1..Len(Programs[kind[q]]) : i < pc[q] => Programs[kind[q]][i] # Read(f)
      BY DEF LocksInv, Unread
    <2>. QED BY <1>2, <2>1, <2>2, <2>3
  <1>8. CountHolds'
    <2>. SUFFICES ASSUME kind[p] = "remove", pc[p] + 1 > 3
                  PROVE  \E g, h \in owners : g # h
      BY <1>2 DEF LocksInv, CountHolds, Running
    <2>1. CASE pc[p] > 3
      BY <2>1 DEF LocksInv, CountHolds
    <2>2. CASE pc[p] = 3
      BY <2>2, RemovalText DEF Statement, CountOwners
    <2>. QED BY <1>2, <2>1, <2>2
  <1>. QED BY <1>1, <1>4, <1>5, <1>6, <1>7, <1>8 DEF LocksInv

\* A lock is granted: nobody holds a conflicting one.
LEMMA AcquireKeepsInv ==
    ASSUME LocksInv, NEW p \in Requests, Acquire(p)
    PROVE  LocksInv'
  <1>. DEFINE i == pc[p]
              lock == [row |-> Statement(p).row, mode |-> Statement(p).mode]
  <1>1. /\ pc' = [pc EXCEPT ![p] = pc[p] + 1] /\ pc \in [Requests -> Nat]
        /\ i \in 1..Len(Programs[kind[p]]) /\ Running(p)
    BY Typed DEF Acquire, Advance, AtStatement, LocksInv, LocksTypeOK, Running, AtCommit
  <1>2. /\ Statement(p) = Programs[kind[p]][i]
        /\ Statement(p).do = "lock"
        /\ Statement(p) \in Statements
    BY <1>1, Typed DEF Acquire, AtStatement, Statement
  <1>3. /\ held' = [held EXCEPT ![p] = held[p] \cup {lock}]
        /\ held \in [Requests -> SUBSET [row : Rows, mode : Modes]]
        /\ UNCHANGED <<kind, ended, enabled, owners, since, late>>
    BY DEF Acquire, LocksInv, LocksTypeOK
  <1>4. lock \in [row : Rows, mode : Modes]
    BY <1>2 DEF Statements
  <1>5. Statement(p) = Lock(lock.row, lock.mode)
    BY <1>2 DEF Lock, Statements
  <1>6. \A q \in Requests : q # p => \A h \in held[q] :
           h.row = lock.row => ~Conflict(h.mode, lock.mode)
    BY DEF Acquire, Blockers
  <1>. HIDE DEF lock
  <1>7. LocksTypeOK'
    BY <1>1, <1>3, <1>4 DEF LocksInv, LocksTypeOK
  <1>8. TypeOK'
    <2>1. \A q \in Requests : pc'[q] \in 0..(Len(Programs[kind[q]]) + 1)
      <3>. TAKE q \in Requests
      <3>1. pc[q] \in 0..(Len(Programs[kind[q]]) + 1) /\ Len(Programs[kind[q]]) \in Nat
        BY Typed DEF LocksInv, TypeOK
      <3>. QED BY <1>1, <3>1
    <2>2. ASSUME NEW q \in Requests, NEW r \in Requests, q # r,
                 NEW g \in held'[q], NEW h \in held'[r], g.row = h.row
          PROVE  ~Conflict(g.mode, h.mode)
      <3>1. CASE g \in held[q] /\ h \in held[r]
        BY <2>2, <3>1 DEF LocksInv, TypeOK
      <3>2. CASE q = p /\ g = lock /\ h \in held[r]
        BY <1>6, <2>2, <3>2 DEF Conflict
      <3>3. CASE r = p /\ h = lock /\ g \in held[q]
        BY <1>6, <2>2, <3>3
      <3>. QED BY <1>3, <2>2, <3>1, <3>2, <3>3
    <2>. QED BY <1>3, <2>1, <2>2 DEF LocksInv, TypeOK
  <1>9. HeldAreRun'
    <2>. SUFFICES ASSUME NEW q \in Requests
                  PROVE  /\ \A h \in held'[q] : \E j \in 1..Len(Programs[kind[q]]) :
                               j < pc'[q] /\ Programs[kind[q]][j] = Lock(h.row, h.mode)
                         /\ Running(q)' => \A j \in 1..Len(Programs[kind[q]]) :
                               j < pc'[q] /\ Programs[kind[q]][j].do = "lock" =>
                                  [row |-> Programs[kind[q]][j].row,
                                   mode |-> Programs[kind[q]][j].mode] \in held'[q]
      BY <1>3 DEF HeldAreRun
    <2>1. CASE q = p
      <3>1. pc'[p] = i + 1 /\ held'[p] = held[p] \cup {lock}
        BY <1>1, <1>3
      <3>2. /\ \A h \in held[p] : \E j \in 1..Len(Programs[kind[p]]) :
                   j < i /\ Programs[kind[p]][j] = Lock(h.row, h.mode)
            /\ \A j \in 1..Len(Programs[kind[p]]) :
                   j < i /\ Programs[kind[p]][j].do = "lock" =>
                      [row |-> Programs[kind[p]][j].row,
                       mode |-> Programs[kind[p]][j].mode] \in held[p]
        BY <1>1 DEF LocksInv, HeldAreRun
      <3>3. /\ \A j \in 1..Len(Programs[kind[p]]) : j < i => j < i + 1
            /\ \A j \in 1..Len(Programs[kind[p]]) : j < i + 1 => j < i \/ j = i
            /\ i < i + 1
        BY <1>1
      <3>4. \A h \in held'[p] : \E j \in 1..Len(Programs[kind[p]]) :
                j < i + 1 /\ Programs[kind[p]][j] = Lock(h.row, h.mode)
        BY <1>1, <1>2, <1>5, <3>1, <3>2, <3>3
      <3>5. [row |-> Programs[kind[p]][i].row, mode |-> Programs[kind[p]][i].mode] = lock
        BY <1>2 DEF lock
      <3>6. \A j \in 1..Len(Programs[kind[p]]) :
               j < i + 1 /\ Programs[kind[p]][j].do = "lock" =>
                  [row |-> Programs[kind[p]][j].row,
                   mode |-> Programs[kind[p]][j].mode] \in held'[p]
        BY <3>1, <3>2, <3>3, <3>5
      <3>. QED BY <2>1, <3>1, <3>4, <3>6
    <2>2. CASE q # p
      BY <1>1, <1>3, <2>2 DEF LocksInv, HeldAreRun, Running
    <2>. QED BY <2>1, <2>2
  <1>10. NotBegun' /\ OwnerRemains' /\ DisabledScopeRefuses'
    BY <1>1, <1>3 DEF LocksInv, NotBegun, OwnerRemains, DisabledScopeRefuses
  <1>11. Unread'
    <2>. SUFFICES ASSUME NEW q \in Requests, NEW f \in since[q]
                  PROVE  /\ ~enabled[f]
                         /\ \A j \in 1..Len(Programs[kind[q]]) :
                               j < pc'[q] => Programs[kind[q]][j] # Read(f)
      BY <1>3 DEF Unread
    <2>1. Programs[kind[p]][i] # Read(f)
      BY <1>2 DEF Read
    <2>2. /\ ~enabled[f]
          /\ \A j \in 1..Len(Programs[kind[q]]) : j < pc[q] => Programs[kind[q]][j] # Read(f)
      BY DEF LocksInv, Unread
    <2>. QED BY <1>1, <2>1, <2>2
  <1>12. CountHolds'
    <2>. SUFFICES ASSUME kind[p] = "remove", pc[p] + 1 > 3
                  PROVE  \E g, h \in owners : g # h
      BY <1>1, <1>3 DEF LocksInv, CountHolds, Running
    <2>1. pc[p] # 3
      BY <1>2, RemovalText DEF CountOwners
    <2>2. pc[p] > 3
      BY <1>1, <2>1
    <2>. QED BY <1>1, <2>2 DEF LocksInv, CountHolds
  <1>. QED BY <1>7, <1>8, <1>9, <1>10, <1>11, <1>12 DEF LocksInv

\* What a commit changes: a switch changes a flag, and only a removal takes an
\* owner away.
LEMMA CommitEffect ==
    ASSUME LocksInv, NEW p \in Requests, Commit(p)
    PROVE  /\ enabled' \in [Flags -> BOOLEAN]
           /\ since' \in [Requests -> SUBSET Flags]
           /\ \A q \in Requests : \A f \in since'[q] : f \in since[q] /\ ~enabled'[f]
           /\ owners' \subseteq Grants
           /\ \/ owners \subseteq owners'
              \/ kind[p] = "remove" /\ \E g \in owners : owners' = owners \ {g}
  <1>1. /\ enabled \in [Flags -> BOOLEAN]
        /\ since \in [Requests -> SUBSET Flags]
        /\ owners \subseteq Grants
        /\ \A q \in Requests : \A f \in since[q] : ~enabled[f]
    BY DEF LocksInv, LocksTypeOK, TypeOK, Unread
  <1>2. ASSUME UNCHANGED <<enabled, since>>
        PROVE  /\ enabled' \in [Flags -> BOOLEAN]
               /\ since' \in [Requests -> SUBSET Flags]
               /\ \A q \in Requests : \A f \in since'[q] : f \in since[q] /\ ~enabled'[f]
    BY <1>1, <1>2
  <1>3. CASE kind[p] \in {"organization", "station"}
    <2>1. PICK value \in BOOLEAN, f \in Flags :
             /\ enabled' = [enabled EXCEPT ![f] = value]
             /\ since' = IF value THEN [q \in Requests |-> since[q] \ {f}] ELSE since
      BY <1>3 DEF Commit, Flags
    <2>2. UNCHANGED owners
      BY <1>3 DEF Commit
    <2>3. CASE value
      <3>1. since' = [q \in Requests |-> since[q] \ {f}]
        BY <2>1, <2>3
      <3>. QED BY <1>1, <2>1, <2>2, <3>1
    <2>4. CASE ~value
      <3>1. since' = since
        BY <2>1, <2>4
      <3>. QED BY <1>1, <2>1, <2>2, <2>4, <3>1
    <2>. QED BY <2>3, <2>4
  <1>4. CASE kind[p] = "remove"
    <2>1. (\E g \in owners : owners' = owners \ {g}) /\ UNCHANGED <<enabled, since>>
      BY <1>4 DEF Commit
    <2>. QED BY <1>1, <1>2, <1>4, <2>1
  <1>5. CASE kind[p] = "assign"
    <2>1. (\E g \in Grants : owners' = owners \cup {g}) /\ UNCHANGED <<enabled, since>>
      BY <1>5 DEF Commit
    <2>. QED BY <1>1, <1>2, <2>1
  <1>6. CASE kind[p] \notin {"organization", "station", "remove", "assign"}
    <2>1. UNCHANGED <<enabled, owners, since>>
      BY <1>6 DEF Commit
    <2>. QED BY <1>1, <1>2, <2>1
  <1>. QED BY <1>3, <1>4, <1>5, <1>6

\* Two removals never rely on their counts at once: both hold the organization.
LEMMA OneCounted ==
    ASSUME LocksInv, NEW p \in Requests, NEW q \in Requests,
           kind[p] = "remove", Running(p), pc[p] > 3,
           kind[q] = "remove", Running(q), pc[q] > 3
    PROVE  p = q
  <1>. DEFINE lock == [row |-> "org", mode |-> "X"]
  <1>1. ASSUME NEW r \in Requests, kind[r] = "remove", Running(r), pc[r] > 3
        PROVE  lock \in held[r]
    <2>1. /\ 1 \in 1..Len(Programs[kind[r]]) /\ 1 < pc[r]
          /\ Programs[kind[r]][1] = Lock("org", "X")
      BY <1>1, RemovalText, Typed
    <2>2. [row |-> Programs[kind[r]][1].row, mode |-> Programs[kind[r]][1].mode] \in held[r]
      BY <1>1, <2>1 DEF LocksInv, HeldAreRun, Lock
    <2>. QED BY <2>1, <2>2 DEF Lock
  <1>2. lock \in held[p] /\ lock \in held[q]
    BY <1>1
  <1>. QED BY <1>2 DEF LocksInv, TypeOK, Conflict

\* A commit: of a write that read both flags as true, of a removal that still
\* leaves an owner, or of anything else.
LEMMA CommitKeepsInv ==
    ASSUME LocksInv, NEW p \in Requests, Commit(p)
    PROVE  LocksInv'
  <1>1. /\ Running(p) /\ pc[p] > Len(Programs[kind[p]])
        /\ ended' = [ended EXCEPT ![p] = "committed"] /\ ended \in [Requests -> Ends \cup {"no"}]
        /\ held' = [held EXCEPT ![p] = {}]
        /\ held \in [Requests -> SUBSET [row : Rows, mode : Modes]]
        /\ UNCHANGED <<kind, pc>>
    BY DEF Commit, AtCommit, End, LocksInv, LocksTypeOK
  <1>2. /\ enabled' \in [Flags -> BOOLEAN]
        /\ since' \in [Requests -> SUBSET Flags]
        /\ \A q \in Requests : \A f \in since'[q] : f \in since[q] /\ ~enabled'[f]
        /\ owners' \subseteq Grants
    BY CommitEffect
  <1>3. LocksTypeOK'
    BY <1>1, <1>2 DEF LocksInv, LocksTypeOK, Ends
  <1>4. TypeOK'
    BY <1>1, <1>2 DEF LocksInv, TypeOK
  <1>5. HeldAreRun'
    BY <1>1 DEF LocksInv, HeldAreRun, Running
  <1>6. NotBegun'
    BY <1>1, <1>2 DEF LocksInv, NotBegun, Running
  <1>7. Unread'
    BY <1>1, <1>2 DEF LocksInv, Unread
  <1>8. kind[p] \in Operational => since[p] = {}
    <2>. SUFFICES ASSUME kind[p] \in Operational, NEW f \in since[p]
                  PROVE  FALSE
      OBVIOUS
    <2>1. f \in Flags
      BY DEF LocksInv, LocksTypeOK
    <2>2. PICK i \in 1..Len(Programs[kind[p]]) : Programs[kind[p]][i] = Read(f)
      BY <2>1, ProgramTypes DEF Gated
    <2>3. i < pc[p]
      BY <1>1, <2>2, Typed
    <2>. QED BY <2>2, <2>3 DEF LocksInv, Unread
  <1>9. DisabledScopeRefuses'
    <2>. SUFFICES ASSUME NEW q \in Requests, kind[q] \in Operational, since'[q] # {}
                  PROVE  ended'[q] # "committed"
      BY <1>1 DEF DisabledScopeRefuses
    <2>1. since[q] # {}
      BY <1>2
    <2>2. q # p
      BY <1>8, <2>1
    <2>. QED BY <1>1, <2>1, <2>2 DEF LocksInv, DisabledScopeRefuses
  <1>10. CountHolds' /\ OwnerRemains'
    <2>1. CASE owners \subseteq owners'
      BY <1>1, <2>1 DEF LocksInv, CountHolds, OwnerRemains, Running
    <2>2. CASE kind[p] = "remove" /\ \E g \in owners : owners' = owners \ {g}
      <3>1. pc[p] > 3
        BY <1>1, <2>2, RemovalText, Typed
      <3>2. \E g, h \in owners : g # h
        BY <1>1, <2>2, <3>1 DEF LocksInv, CountHolds
      <3>3. owners' # {}
        BY <2>2, <3>2
      <3>4. \A q \in Requests : ~(kind[q] = "remove" /\ Running(q)' /\ pc[q] > 3)
        <4>. SUFFICES ASSUME NEW q \in Requests, kind[q] = "remove", Running(q)', pc[q] > 3
                      PROVE  FALSE
          OBVIOUS
        <4>1. q # p /\ Running(q)
          BY <1>1 DEF Running
        <4>. QED BY <1>1, <2>2, <3>1, <4>1, OneCounted
      <3>. QED BY <1>1, <3>3, <3>4 DEF CountHolds, OwnerRemains
    <2>. QED BY <2>1, <2>2, CommitEffect
  <1>. QED BY <1>3, <1>4, <1>5, <1>6, <1>7, <1>9, <1>10 DEF LocksInv

\* A set that counts more than one has two members.
LEMMA TwoMembers ==
    ASSUME NEW S, S # {}, ~(Cardinality(S) <= 1)
    PROVE  \E g, h \in S : g # h
  <1>. SUFFICES ASSUME \A g, h \in S : g = h
                PROVE  FALSE
    OBVIOUS
  <1>1. PICK g : S = {g}
    OBVIOUS
  <1>. QED BY <1>1, FS_Singleton

\* Every step keeps the invariant.
LEMMA LocksNext == LocksInv /\ [Next]_vars => LocksInv'
  <1>. SUFFICES ASSUME LocksInv, [Next]_vars
                PROVE  LocksInv'
    OBVIOUS
  <1>1. ASSUME NEW p \in Requests, ReadFlag(p)
        PROVE  LocksInv'
    <2>1. Running(p) /\ ~AtCommit(p) /\ Statement(p).do = "read"
      BY <1>1 DEF ReadFlag, AtStatement
    <2>2. CASE enabled[Statement(p).row]
      <3>1. Advance(p) /\ UNCHANGED <<kind, held, ended, enabled, owners, since>>
        BY <1>1, <2>2 DEF ReadFlag
      <3>2. \A f \in Flags : Statement(p) = Read(f) => enabled[f]
        BY <2>2 DEF Read
      <3>. QED BY <2>1, <3>1, <3>2, PassKeepsInv
    <2>3. CASE ~enabled[Statement(p).row]
      <3>1. End(p, "refused") /\ UNCHANGED <<kind, pc, enabled, owners, since>>
        BY <1>1, <2>3 DEF ReadFlag
      <3>. QED BY <2>1, <3>1, EndKeepsInv DEF Running, Ends
    <2>. QED BY <2>2, <2>3
  <1>2. ASSUME NEW p \in Requests, Count(p)
        PROVE  LocksInv'
    <2>1. Running(p) /\ ~AtCommit(p) /\ Statement(p).do = "count"
      BY <1>2 DEF Count, AtStatement
    <2>2. CASE Cardinality(owners) <= 1
      <3>1. End(p, "last_owner") /\ UNCHANGED <<kind, pc, enabled, owners, since>>
        BY <1>2, <2>2 DEF Count
      <3>. QED BY <2>1, <3>1, EndKeepsInv DEF Running, Ends
    <2>3. CASE ~(Cardinality(owners) <= 1)
      <3>1. Advance(p) /\ UNCHANGED <<kind, held, ended, enabled, owners, since>>
        BY <1>2, <2>3 DEF Count
      <3>2. \E g, h \in owners : g # h
        BY <2>3, TwoMembers DEF LocksInv, OwnerRemains
      <3>3. \A f \in Flags : Statement(p) # Read(f)
        BY <2>1 DEF Read
      <3>. QED BY <2>1, <3>1, <3>2, <3>3, PassKeepsInv
    <2>. QED BY <2>2, <2>3
  <1>3. ASSUME NEW p \in Requests, Rollback(p)
        PROVE  LocksInv'
    BY <1>3, EndKeepsInv DEF Rollback, Running, Ends
  <1>4. ASSUME NEW p \in Requests, Victim(p)
        PROVE  LocksInv'
    <2>1. Blockers(p) # {}
      BY <1>4 DEF Victim, Deadlocked
    <2>2. pc[p] > 0
      BY <2>1 DEF Blockers, AtStatement, Running
    <2>. QED BY <1>4, <2>2, EndKeepsInv DEF Victim, Ends
  <1>5. CASE UNCHANGED vars
    <2>. USE <1>5 DEF vars
    <2>1. LocksTypeOK' /\ TypeOK'
      BY DEF LocksInv, LocksTypeOK, TypeOK
    <2>2. HeldAreRun' /\ NotBegun' /\ Unread'
      BY DEF LocksInv, HeldAreRun, NotBegun, Unread, Running
    <2>3. CountHolds' /\ DisabledScopeRefuses' /\ OwnerRemains'
      BY DEF LocksInv, CountHolds, DisabledScopeRefuses, OwnerRemains, Running
    <2>. QED BY <2>1, <2>2, <2>3 DEF LocksInv
  <1>. QED
    BY <1>1, <1>2, <1>3, <1>4, <1>5, BeginKeepsInv, AcquireKeepsInv, CommitKeepsInv DEF Next, AllEnded

-----------------------------------------------------------------------------
(***************************************************************************)
(* Waiting in the order of the ranks.                                      *)
(***************************************************************************)

\* Whoever an ordered request waits for, and that waits for an ordered
\* request itself, waits for a row further on.
LEMMA WaitsFurtherOn ==
    ASSUME LocksInv, NEW p \in Requests, NEW q \in Blockers(p), NEW r \in Blockers(q),
           kind[p] \notin Unordered, kind[q] \notin Unordered, kind[r] \notin Unordered
    PROVE  Rank(Statement(p).row) < Rank(Statement(q).row)
  <1>1. ASSUME NEW x \in Requests, NEW y \in Blockers(x),
               kind[x] \notin Unordered, kind[y] \notin Unordered
        PROVE  /\ pc[x] \in 1..Len(Programs[kind[x]])
               /\ Statement(x) = Programs[kind[x]][pc[x]]
               /\ Statement(x).do = "lock"
               /\ Statement(x).row # "org"
               /\ y \in Requests
               /\ \E i \in 1..Len(Programs[kind[y]]) :
                     /\ i < pc[y]
                     /\ Programs[kind[y]][i].do = "lock"
                     /\ Programs[kind[y]][i].row = Statement(x).row
    <2>1. AtStatement(x, "lock") /\ y \in Requests
      BY <1>1 DEF Blockers
    <2>2. PICK h \in held[y] : h.row = Statement(x).row /\ Conflict(h.mode, Statement(x).mode)
      BY <1>1, <2>1 DEF Blockers
    <2>3. PICK i \in 1..Len(Programs[kind[y]]) :
             i < pc[y] /\ Programs[kind[y]][i] = Lock(h.row, h.mode)
      BY <2>1, <2>2 DEF LocksInv, HeldAreRun
    <2>4. /\ Programs[kind[y]][i].do = "lock"
          /\ Programs[kind[y]][i].row = Statement(x).row
          /\ Programs[kind[y]][i].mode = h.mode
      BY <2>2, <2>3 DEF Lock
    <2>5. /\ pc[x] \in 1..Len(Programs[kind[x]])
          /\ Statement(x) = Programs[kind[x]][pc[x]]
          /\ Statement(x).do = "lock"
      BY <1>1, <2>1, Typed DEF AtStatement, AtCommit, Running, Statement
    <2>6. KeepsOrder(Programs[kind[x]]) /\ KeepsOrder(Programs[kind[y]])
      BY <1>1, <2>1, Typed, ProgramTypes
    <2>7. Statement(x).row # "org"
      <3>. SUFFICES ASSUME Statement(x).row = "org" PROVE FALSE
        OBVIOUS
      <3>1. Statement(x).mode = "KS"
        BY <2>5, <2>6 DEF KeepsOrder
      <3>2. h.mode = "KS"
        BY <2>3, <2>4, <2>6 DEF KeepsOrder
      <3>. QED BY <2>2, <3>1, <3>2 DEF Conflict
    <2>. QED BY <2>1, <2>3, <2>4, <2>5, <2>7
  <1>2. /\ Statement(p).row # "org"
        /\ q \in Requests
    BY <1>1
  <1>3. PICK i \in 1..Len(Programs[kind[q]]) :
           /\ i < pc[q]
           /\ Programs[kind[q]][i].do = "lock"
           /\ Programs[kind[q]][i].row = Statement(p).row
    BY <1>1
  <1>4. /\ pc[q] \in 1..Len(Programs[kind[q]])
        /\ Statement(q) = Programs[kind[q]][pc[q]]
        /\ Statement(q).do = "lock"
        /\ Statement(q).row # "org"
    BY <1>1, <1>2
  <1>5. KeepsOrder(Programs[kind[q]])
    BY <1>2, Typed, ProgramTypes
  <1>. QED BY <1>2, <1>3, <1>4, <1>5 DEF KeepsOrder

\* There are ten ranks, so nobody can wait further on for ever.
LEMMA RanksEnd ==
    ASSUME NEW S, NEW rank, \A p \in S : rank[p] \in 1..10,
           \A p \in S : \E q \in S : rank[p] < rank[q]
    PROVE  S = {}
  <1>10. \A p \in S : rank[p] \in 1..9
    OBVIOUS
  <1>9. \A p \in S : rank[p] \in 1..8
    BY <1>10
  <1>8. \A p \in S : rank[p] \in 1..7
    BY <1>9
  <1>7. \A p \in S : rank[p] \in 1..6
    BY <1>8
  <1>6. \A p \in S : rank[p] \in 1..5
    BY <1>7
  <1>5. \A p \in S : rank[p] \in 1..4
    BY <1>6
  <1>4. \A p \in S : rank[p] \in 1..3
    BY <1>5
  <1>3. \A p \in S : rank[p] \in 1..2
    BY <1>4
  <1>2. \A p \in S : rank[p] = 1
    BY <1>3
  <1>. QED BY <1>2

\* Requests that keep the order are never deadlocked among themselves.
LEMMA NoOrderedDeadlock == LocksInv => OrderedNeverDeadlock
  <1>. SUFFICES ASSUME LocksInv, NEW S \in SUBSET {p \in Requests : kind[p] \notin Unordered},
                       Deadlocked(S)
                PROVE  FALSE
    BY DEF OrderedNeverDeadlock
  <1>. DEFINE rank == [p \in S |-> Rank(Statement(p).row)]
  <1>1. ASSUME NEW p \in S
        PROVE  rank[p] \in 1..10 /\ \E q \in S : rank[p] < rank[q]
    <2>1. PICK q \in S : q \in Blockers(p)
      BY DEF Deadlocked
    <2>2. PICK r \in S : r \in Blockers(q)
      BY DEF Deadlocked
    <2>3. Rank(Statement(p).row) < Rank(Statement(q).row)
      BY <2>1, <2>2, WaitsFurtherOn
    <2>4. rank[p] = Rank(Statement(p).row) /\ rank[q] = Rank(Statement(q).row)
      OBVIOUS
    <2>5. rank[p] \in 1..10
      BY <2>4 DEF Rank
    <2>. QED BY <2>3, <2>4, <2>5
  <1>. HIDE DEF rank
  <1>2. S = {}
    BY <1>1, RanksEnd
  <1>. QED BY <1>2 DEF Deadlocked

-----------------------------------------------------------------------------
(***************************************************************************)
(* The theorems about every reachable state.                               *)
(***************************************************************************)

\* The inductive invariant holds whatever requests meet.
THEOREM LocksInvariant == Spec => []LocksInv
  BY LocksInit, LocksNext, PTL DEF Spec

\* Requests stay within their programs and conflicting locks on one row are
\* never held at once.
THEOREM LocksExclude == Spec => []TypeOK
  <1>1. LocksInv => TypeOK
    BY DEF LocksInv
  <1>. QED BY <1>1, LocksInvariant, PTL

\* The calls that lock rows in the one order never deadlock among themselves,
\* whatever number of them and of others is under way.
THEOREM OrderedDeadlockFree == Spec => []OrderedNeverDeadlock
  BY LocksInvariant, NoOrderedDeadlock, PTL

\* A write that begins in a disabled scope is refused while it stays disabled.
THEOREM DisabledScopeHolds == Spec => []DisabledScopeRefuses
  <1>1. LocksInv => DisabledScopeRefuses
    BY DEF LocksInv
  <1>. QED BY <1>1, LocksInvariant, PTL

\* The organization keeps an Owner, however many removals overlap.
THEOREM OwnerAlwaysRemains == Spec => []OwnerRemains
  <1>1. LocksInv => OwnerRemains
    BY DEF LocksInv
  <1>. QED BY <1>1, LocksInvariant, PTL

=============================================================================
