------------------------------- MODULE Locks -------------------------------
(***************************************************************************)
(* The row locks of concurrent requests in one organization, statement by  *)
(* statement at READ COMMITTED: who waits for whom, and what a request     *)
(* that waited may still rely on.                                          *)
(*                                                                         *)
(* A program lists the statements of a repository call that lock or that   *)
(* read what another call changes.  Three modes matter: "X" is SELECT ...  *)
(* FOR UPDATE, "U" an UPDATE of columns that are no key, and "KS" the FOR  *)
(* KEY SHARE that an insert takes on the rows its foreign keys name.  All  *)
(* requests concern one station, one shift, one draft, one idempotency key *)
(* and one user.                                                           *)
(***************************************************************************)
EXTENDS Naturals, Sequences, FiniteSets

CONSTANTS
    Requests,    \* calls, each of which runs one program
    Mixes,       \* the programs they may run together
    Grants       \* station roles Owner that exist at first

Read(flag)      == [do |-> "read", row |-> flag, mode |-> "none"]
Lock(row, mode) == [do |-> "lock", row |-> row, mode |-> mode]
CountOwners     == [do |-> "count", row |-> "roles", mode |-> "none"]

\* RequireEnabled reads two flags in two statements, and locks neither.
RequireEnabledSharing ==
    <<Read("org"), Lock("station", "KS"), Read("station")>>

RequireEnabled == <<Read("org"), Read("station")>>

\* The chain row exists; the inserted log row names the organization.
AppendInTransaction == <<Lock("chain", "X"), Lock("org", "KS")>>

-----------------------------------------------------------------------------
(* Programs                                                                *)

OpenShift ==
    RequireEnabled \o <<Lock("station", "X"), Lock("user", "KS")>>
      \o AppendInTransaction

\* The row of the idempotency key is locked, or inserted under its unique
\* index.  The variance rules are locked when the variance is large enough.
Submit ==
    RequireEnabled
      \o <<Lock("station", "X"), Lock("shift", "X"), Lock("draft", "X"),
           Lock("key", "X"), Lock("user", "KS"), Lock("variance", "X")>>
      \o AppendInTransaction

\* The insert of a key that has no committed row; the key names its shift.
MarkSubmitFailed == <<Lock("key", "X"), Lock("shift", "KS")>>

\* Acknowledge; RequestAmendment takes the same rows.
Acknowledge ==
    RequireEnabled
      \o <<Lock("station", "X"), Lock("shift", "X"), Lock("report", "X"),
           Lock("user", "KS")>>
      \o AppendInTransaction

ApproveAmendment ==
    RequireEnabled
      \o <<Lock("station", "X"), Lock("amendment", "X"), Lock("shift", "X"),
           Lock("report", "X"), Lock("user", "KS")>>
      \o AppendInTransaction

RejectAmendment ==
    RequireEnabled
      \o <<Lock("station", "X"), Lock("amendment", "X"), Lock("user", "KS")>>
      \o AppendInTransaction

\* Claim, Heartbeat and the writes of a draft, which have no audit event.
WriteDraft == <<Lock("draft", "X")>> \o RequireEnabled \o <<Lock("user", "KS")>>

\* A revision of the station; one of the organization omits the first lock.
CreateRevision ==
    <<Lock("station", "X"), Lock("user", "KS")>> \o AppendInTransaction

\* Every shift, then every starvation rule; an alert names its station.
EvaluateStarvation ==
    <<Lock("shift", "X"), Lock("rules", "X"), Lock("station", "KS")>>

AssignRole ==
    <<Lock("org", "X"), Lock("user", "X"), Lock("station", "KS")>>
      \o AppendInTransaction

RemoveRoleCountsFirst ==
    <<CountOwners, Lock("org", "X"), Lock("user", "X")>> \o AppendInTransaction

\* The removal of a role Owner.
RemoveRole ==
    <<Lock("org", "X"), Lock("user", "X"), CountOwners>> \o AppendInTransaction

UpdateUser == <<Lock("user", "U")>> \o AppendInTransaction

CreateInvitation ==
    <<Lock("org", "KS"), Lock("station", "KS"), Lock("user", "KS")>>
      \o AppendInTransaction

\* Update and Disable of the organization, and of the station.
SwitchOrganization == <<Lock("org", "X")>> \o AppendInTransaction

SwitchStation == <<Lock("station", "X")>> \o AppendInTransaction

Programs ==
    [open |-> OpenShift, submit |-> Submit, mark |-> MarkSubmitFailed,
     acknowledge |-> Acknowledge, approve |-> ApproveAmendment,
     reject |-> RejectAmendment, draft |-> WriteDraft,
     revision |-> CreateRevision, starvation |-> EvaluateStarvation,
     assign |-> AssignRole, remove |-> RemoveRole, user |-> UpdateUser, invite |-> CreateInvitation,
     organization |-> SwitchOrganization, station |-> SwitchStation]

Kinds == DOMAIN Programs

\* The writes that the scope gate is for.
Operational == {"open", "submit", "acknowledge", "approve", "reject", "draft"}

\* The calls that take rows in another order than the others: those that
\* hold the organization before the chain, the alert scheduler, and the mark
\* of a failed submission, which holds its key before the shift.
Unordered == {"assign", "remove", "organization", "starvation", "mark"}

-----------------------------------------------------------------------------
(* State                                                                   *)

Flags == {"org", "station"}

ASSUME LocksAssumption == Mixes \subseteq [Requests -> Kinds]

\* The organization has an Owner before the requests begin.
ASSUME GrantsAssumption == Grants # {}

VARIABLES
    kind,        \* what each request does; it never changes
    pc,          \* its next statement; 0 before it began
    held,        \* the locks its transaction holds
    ended,       \* how it ended
    enabled,     \* organizations.enabled and stations.enabled
    owners,      \* committed Owner rows of user_station_roles
    since,       \* history: flags that were false ever since it began
    late         \* history: operational writes committed in a disabled scope

vars == <<kind, pc, held, ended, enabled, owners, since, late>>

Init ==
    /\ kind \in Mixes
    /\ pc = [p \in Requests |-> 0]
    /\ held = [p \in Requests |-> {}]
    /\ ended = [p \in Requests |-> "no"]
    /\ enabled = [f \in Flags |-> TRUE]
    /\ owners = Grants
    /\ since = [p \in Requests |-> {}]
    /\ late = {}

Running(p) == pc[p] > 0 /\ ended[p] = "no"
AtCommit(p) == Running(p) /\ pc[p] > Len(Programs[kind[p]])
Statement(p) == Programs[kind[p]][pc[p]]
AtStatement(p, do) == Running(p) /\ ~AtCommit(p) /\ Statement(p).do = do

Conflict(m, n) == "X" \in {m, n} \/ (m = "U" /\ n = "U")

\* The requests whose locks keep p from its next statement.
Blockers(p) ==
    IF AtStatement(p, "lock")
    THEN {q \in Requests \ {p} :
            \E h \in held[q] : /\ h.row = Statement(p).row
                               /\ Conflict(h.mode, Statement(p).mode)}
    ELSE {}

\* Each waits for another one of them.
Deadlocked(S) == S # {} /\ \A p \in S : Blockers(p) \cap S # {}

-----------------------------------------------------------------------------
(* Steps                                                                   *)

Begin(p) ==
    /\ pc[p] = 0
    /\ pc' = [pc EXCEPT ![p] = 1]
    /\ since' = [since EXCEPT ![p] = {f \in Flags : ~enabled[f]}]
    /\ UNCHANGED <<kind, held, ended, enabled, owners, late>>

Advance(p) == pc' = [pc EXCEPT ![p] = @ + 1]

EndKeepingLocks(p, how) ==
    /\ ended' = [ended EXCEPT ![p] = how]
    /\ UNCHANGED held

\* A commit or a rollback releases every lock of the transaction.
End(p, how) ==
    /\ ended' = [ended EXCEPT ![p] = how]
    /\ held' = [held EXCEPT ![p] = {}]

ReadStationFlagOnly(p) ==
    /\ AtStatement(p, "read")
    /\ IF enabled["station"]
       THEN Advance(p) /\ UNCHANGED <<held, ended>>
       ELSE End(p, "refused") /\ UNCHANGED pc
    /\ UNCHANGED <<kind, enabled, owners, since, late>>

\* One of the two reads of RequireEnabled.
ReadFlag(p) ==
    /\ AtStatement(p, "read")
    /\ IF enabled[Statement(p).row]
       THEN Advance(p) /\ UNCHANGED <<held, ended>>
       ELSE End(p, "refused") /\ UNCHANGED pc
    /\ UNCHANGED <<kind, enabled, owners, since, late>>

AcquireUnchecked(p) ==
    /\ AtStatement(p, "lock")
    /\ held' = [held EXCEPT ![p] =
                  @ \cup {[row |-> Statement(p).row, mode |-> Statement(p).mode]}]
    /\ Advance(p)
    /\ UNCHANGED <<kind, ended, enabled, owners, since, late>>

\* A locking statement, granted when no other transaction is in the way.
Acquire(p) ==
    /\ AtStatement(p, "lock")
    /\ Blockers(p) = {}
    /\ held' = [held EXCEPT ![p] =
                  @ \cup {[row |-> Statement(p).row, mode |-> Statement(p).mode]}]
    /\ Advance(p)
    /\ UNCHANGED <<kind, ended, enabled, owners, since, late>>

\* The last Owner of the organization is not removed.
Count(p) ==
    /\ AtStatement(p, "count")
    /\ IF Cardinality(owners) <= 1
       THEN End(p, "last_owner") /\ UNCHANGED pc
       ELSE Advance(p) /\ UNCHANGED <<held, ended>>
    /\ UNCHANGED <<kind, enabled, owners, since, late>>

\* What the other requests can see of p from now on.  A removal names a row
\* that exists; an assignment of Owner brings one back.
Commit(p) ==
    /\ AtCommit(p)
    /\ End(p, "committed")
    /\ CASE kind[p] \in {"organization", "station"} ->
              /\ \E value \in BOOLEAN :
                   LET f == IF kind[p] = "station" THEN "station" ELSE "org" IN
                   /\ enabled' = [enabled EXCEPT ![f] = value]
                   /\ since' = IF value THEN [q \in Requests |-> since[q] \ {f}]
                               ELSE since
              /\ UNCHANGED owners
         [] kind[p] = "remove" ->
              /\ \E g \in owners : owners' = owners \ {g}
              /\ UNCHANGED <<enabled, since>>
         [] kind[p] = "assign" ->
              /\ \E g \in Grants : owners' = owners \cup {g}
              /\ UNCHANGED <<enabled, since>>
         [] OTHER -> UNCHANGED <<enabled, owners, since>>
    /\ late' = IF kind[p] \in Operational /\ \E f \in Flags : ~enabled[f]
               THEN late \cup {p} ELSE late
    /\ UNCHANGED <<kind, pc>>

\* Any other error of the call.
Rollback(p) ==
    /\ Running(p)
    /\ End(p, "rolled back")
    /\ UNCHANGED <<kind, pc, enabled, owners, since, late>>

\* The database aborts one of the transactions of a cycle.
Victim(p) ==
    /\ \E S \in SUBSET Requests :
         /\ p \in S /\ Deadlocked(S)
         /\ \A T \in SUBSET S : T # S => ~Deadlocked(T)
    /\ End(p, "deadlock")
    /\ UNCHANGED <<kind, pc, enabled, owners, since, late>>

AllEnded ==
    /\ \A p \in Requests : ended[p] # "no"
    /\ UNCHANGED vars

Next ==
    \/ \E p \in Requests :
         \/ Begin(p)
         \/ ReadFlag(p)
         \/ Acquire(p)
         \/ Count(p)
         \/ Commit(p)
         \/ Rollback(p)
         \/ Victim(p)
    \/ AllEnded

Spec == Init /\ [][Next]_vars

\* A request that is not blocked goes on, and the deadlock detector runs.
Step(p) ==
    \/ Begin(p)
    \/ ReadFlag(p)
    \/ Acquire(p)
    \/ Count(p)
    \/ Commit(p)
    \/ Victim(p)

FairSpec == Spec /\ \A p \in Requests : WF_vars(Step(p))

-----------------------------------------------------------------------------
(* Properties                                                              *)

\* Requests stay within their programs, and no two of them ever hold locks on
\* one row whose modes conflict, whoever waited, failed or was chosen as victim.
TypeOK ==
    /\ \A p \in Requests :
         /\ pc[p] \in 0..(Len(Programs[kind[p]]) + 1)
         /\ ended[p] \in {"no", "refused", "last_owner", "committed",
                          "rolled back", "deadlock"}
    /\ owners \subseteq Grants /\ enabled \in [Flags -> BOOLEAN]
    /\ \A p, q \in Requests : p # q =>
         \A g \in held[p], h \in held[q] :
            g.row = h.row => ~Conflict(g.mode, h.mode)

\* Station writes, draft writes, revisions, user and station administration
\* take their rows in one order (station, amendment, shift, draft or report,
\* key, user, variance rules, chain, organization): they may wait, but never
\* for one another.  Every deadlock has a part in it that holds the
\* organization before the chain, or the alert scheduler, which takes shifts
\* before their station, or a failure mark, which takes a key before its shift.
OrderedNeverDeadlock ==
    ~\E S \in SUBSET {p \in Requests : kind[p] \notin Unordered} : Deadlocked(S)

\* A write that begins after the organization or the station was disabled
\* does not get past RequireEnabled while that flag stays false.
DisabledScopeRefuses ==
    \A p \in Requests :
        kind[p] \in Operational /\ since[p] # {} => ended[p] # "committed"

\* An organization that has an Owner keeps one, however removals overlap
\* (last_owner): the count is made under the lock of the organization.
OwnerRemains == owners # {}

\* No request waits for ever: whoever holds what it waits for commits, fails
\* or is chosen by the deadlock detector, and releases it.
EveryRequestEnds == \A p \in Requests : <>(ended[p] # "no")

\* "The server rejects operational writes in this scope" (disabled scope): no
\* operational write commits while the organization or the station is
\* disabled.  RequireEnabled is not repeated under the station lock.
NoWriteInDisabledScope == late = {}

=============================================================================
