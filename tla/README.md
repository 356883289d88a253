# Pomkita backend: specification

TLA+ specification of the Pomkita backend, the server with which fuel stations
record their shifts, reconcile meters against declared sales, and have the
result acknowledged and amended. All state is in one PostgreSQL database, every
operation is one transaction (a failed submission has a second one), and the
hard part is what a long sequence of legal operations by several people does to
tables that refer to each other.

## Inventory

| Component | State | Operations | What is hard | What makes it correct |
| --- | --- | --- | --- | --- |
| Shift opening (`repository/shift`) | `shifts`, one `shift_drafts` row each | OpenShift, List, Detail | a decided shift becomes active again when it is amended | at most one active shift, numbers without gaps |
| Drafts (`repository/draft`) | owner, claim token, lease, revision, child rows | Claim, Heartbeat, WriteReading, WriteSales, WriteLoss, StageEvidence | lost answers, expired leases, two browsers of one user, claims after submission | the token fences, nothing is entered twice |
| Submission (`repository/submission`) | `shift_reports` and children, `submit_idempotency` | Submit, markSubmitFailed | retries, the failure mark in its own transaction | a key has one fate; the report is what the draft was |
| Governance (`repository/governance`) | `ack_decisions`, `ack_head`, `ack_supersessions`, `amendments` | Acknowledge, RequestAmendment, ApproveAmendment, RejectAmendment | roles that change meanwhile, stale bases, four tables that must agree | one version chain, decisions accounted for, separation of duties |
| Roles (`repository/identity`) | `user_station_roles` | AssignRole, RemoveRole | somebody changes sides in the middle of a procedure; two Owners removed at once | requester and approver roles are never combined; an Owner remains |
| Scope (`repository/scope`, `organization`, `station`) | two `enabled` flags | RequireEnabled, Update, Disable | the flags are read before the lock | a disabled scope refuses writes |
| Sessions (`jwt`, `repository/auth`, `service/auth`) | `sessions`, `session_active_context`, `jwt_keys`, the saved context | Login, AuthMiddleware, ReadSession, SetActiveContext, Logout | a session dies between two reads of one request; skew, expiry and key cutoff differ | a dead session is refused |
| Accounts (`repository/account`, `repository/identity`) | `users`, `account_tokens` | Forgot, Reset, ChangePassword, UpdateProfile, Invite, Accept, UpdateUser, IssuePasswordReset | links issued and used at once, logins that overlap a reset, mail that fails after the commit | old sessions end, a link works once, an enabled account has an identity |
| Policies (`repository/policy`) | `threshold_policy_revisions`, `evidence_policy_revisions` | CreateRevision, the snapshot of a submission | racing revisions, dates ahead, disabled revisions | a report is judged by the revision in force |
| Figures (`service/reconciliation`, `repository/submission`) | `dispenser_readings`, resets, baselines | CalculateMeterDelta, CalculateExpectedSaleRupiah, meterContinuity, ValidateEvidence | rollover, rounding, predecessors that are reopened | meters chain, deltas are circular, losses have evidence |
| Alerts (`repository/governance`, `repository/submission`) | `alert_events`, `alert_rules` | EvaluateStarvation, evaluateVarianceAlerts | repeated evaluations, shifts that are reopened | nothing overdue is missed, nothing fires twice |
| Audit (`repository/audit`) | `audit_log`, `audit_chain_locks`, outbox | AppendInTransaction, Verify | racing first appends, rollbacks | the hash chain always verifies, nobody waits for ever |
| Relay (`repository/relay`, `service/relay`) | `outbox_relay_state` | ClaimAt, FinishAt, Deliver | slow workers, crashes, retries | a late result is never recorded |
| Recovery, reporting, transport, configuration | see `PROJECT.json` | | | not modelled, see below |

The components interact through the database. The rows of a station are
serialised by locks: OpenShift, Submit and the governance calls lock the
station row first, draft calls the draft row. Every business transaction but
those of drafts ends with AppendInTransaction, which locks the audit chain of
the organization and creates the outbox row and relay state. Role changes lock organization and
user, not the station; governance reads the roles without a lock inside its
transaction, so a role change is either before or after a decision.

## Modules

```
Shifts <- Drafts <- Submissions <- Governance <- Station <- MCStation
                                                 |  ^
                            ShiftLedger <--------+  +-- StationProofs <- LedgerProofs
                                 |                               ^------ ReportProofs
                               Books <- MCBooks, BooksProofs
Accounts <- MCAccounts, AccountsProofs     Locks <- MCLocks, LocksProofs
AuditLog <- AuditChain <- AuditChainProofs Relay <- RelayProofs
```

**Shifts, Drafts, Submissions, Governance** model one station. A table is a
sequence whose index is the row's id (for shifts, `station_seq`); a transaction
is one action, since it holds FOR UPDATE every row it decides on. Guards are
the code's early returns; a refused call changes nothing and is not an action,
except where the refusal itself writes (a rolled back submission).

- `Shifts`: OpenShift. The role test is that of the handler, on the roles of
  the session (`Openers`), not on those of the station.
- `Drafts`: `known` is what each browser has been told: shift, token and
  revision. Every answer may be lost (`Answer`). A lease is the number of time
  units left; `LeaseTick` is the clock. Rows carry the revision they made and
  the token they were written under.
- `Submissions`: Submit is split by outcome into `Submit` (commit),
  `SubmitReplay`, `SubmitAborts` followed by `MarkSubmitFailed` or
  `MarkIsLost`. An `in_progress` key exists only inside a transaction, so it
  is not a state of the model. Promotion copies the draft's rows, and the last
  locked shift's readings when the shift is backfilled.
- `Governance`: figures are abstracted to `rows` (who entered what) and
  `applied` (whose amendments the version carries); `SnapshotHash` is injective
  on them. An amendment has one target; "Owner" stands for Owner and
  Superadmin, which the code treats alike here.
- `Station`: the composition, the properties, and the refinement mapping to
  `ShiftLedger`, what a station promises without naming drafts, keys, decisions
  or amendments.

**AuditChain** takes AppendInTransaction apart into statements at READ
COMMITTED: the lock row that may be missing, ON CONFLICT DO NOTHING that waits
for an uncommitted insert, the tail read, the insert with its unique sequence,
and rollback at every point. `AuditLog` is what it promises: an operation commits
and its event becomes the next row in the same step, or it leaves no trace. That
is what Station takes for granted when its actions write their event into
`audit`; `ImplementsAuditLog` shows that the statements keep the promise.

**Relay** models workers of the outbox with leases, backoff and crashes. The
sink is external: it may take an event although Send reports an error.

**Accounts** models users, one-time tokens, sessions and signing keys. The unit
is the statement where the code runs several without a common lock, and the
transaction where it holds the rows. A login is four steps (`Login` compares the
password, `Issue` creates session and token, `ReadPreference`,
`RestoreContext`); an authenticated request is `Authenticate` (AuthMiddleware),
`ReadSession`, then its handler; a password change reads the credentials in one
step and stores the new hash in another; a reset link is consumed, inserted and
mailed in three. A password is a number, so `born` of a session and `hash` of a
user say under which password the session was made. `keeper`, `chosen`, `spent`
and `dead` are history. `Role` is a constant here; role changes are in
Governance and Locks.

**Books** models the figures: the meter of one nozzle over the shifts of a
station, one loss with its evidence, the two kinds of policy revisions, and
alerts. What happens to shifts is taken from `ShiftLedger`, so Books sees
exactly the promise that Station is proved to implement. The operators
`MeterDelta`, `ExpectedSale`, `RequiredStart`, `EvidenceSatisfied`, `InForce`
are the pure functions of the code; `DeltaIsCircular` compares the first two
with reference definitions (distance on a circle, nearest Rupiah).
`CreateRevision` is a check and an insert, under the station lock when the
revision has a station.

**Locks** models a repository call as the list of its locking statements, with
the lock modes of the database (FOR UPDATE, UPDATE of other columns, the FOR
KEY SHARE of foreign keys), the two unlocked reads of RequireEnabled, and the
count of Owners. A request waits while its next lock conflicts with another
request's; `Victim` is the deadlock detector, which ends one member of a cycle.
An insert that waits for another under a unique index is a lock of the row: that
is how Submit and `MarkSubmitFailed` meet at an idempotency key.
Station, Books and Accounts may treat a call as one step where Locks shows the
rows it holds; an operation RequireEnabled refuses changes nothing there.

## Runs

| Run | What it shows | Distinct states |
| --- | --- | --- |
| `drafting` | claim tokens and revisions fence (`FencedRows`), no row twice (`NoDuplicateRow`), the report is a prefix of its draft's history (`ReportIsDraftPrefix`), with two browsers of one user, one of another, lost answers, expiry, and writes after submission | 525k |
| `governance` | `TypeOK`, `OneActiveShift`, `StatusMatchesDecision`, `VersionChain`, `DecisionLedger`, `PendingIsCurrent`, `NoLostAmendment`, `AuditMatchesTables`, `CarriedReadingHasOrigin`, `HistoryIsImmutable`, `ImplementsLedger` over two shifts, some backfilled, of which the first may be amended after the second has carried its readings, and two amendments | 897k |
| `submission` | `IdempotentSubmit`, `SeparationOfDuties`: two keys, two payloads, two rolled back requests in flight, users who change sides | 904k |
| `audit_chain` | `ChainVerifies`, `TailStaysFresh`, `EveryTransactionEnds`, `ImplementsAuditLog`, no deadlock: four transactions, no lock row at first | 2.5k |
| `relay` | `DeliveredByLastAttempt`, `DeliveredIsFinal`: two workers, two events, three attempts | 271k |
| `locks` | `TypeOK`, `OrderedNeverDeadlock`, `DisabledScopeRefuses`, `OwnerRemains`, `EveryRequestEnds`: three requests in 140 mixes of fifteen programs | 483k |
| `access` | `OldSessionsEnd`, `DeadSessionRefused`, `LinkWorksOnce`, `EnabledHasIdentity`, `NothingIsRevived`: two users, two requests at a time, ten workloads | 2.1M |
| `books` | `ChainBreaksOnlyOverSkipped`, `DeltaIsCircular`, `PolicyWasInForce`, `LossesAreEvidenced`, `StationRevisionsDistinct`, `OverdueIsAlerted`, `AlertsAreUnique`, `SubmittedIsFinal`: three shifts with meters, two with policies, with both, or with alerts; four workloads | 2.8M |
| `self_approval` | violation of `NoSelfApproval` | |
| `amend_targets` | violation of `ApprovedIsApplied` | |
| `scope_race` | violation of `NoWriteInDisabledScope` | |
| `saved_context` | violation of `PreferenceIsLatestChoice` | |

The last four show where the code and its documents differ. A break-glass
request can be approved by its requester once the requester's role has changed,
though `docs/BEHAVIOR-MATRIX.md` says requester and approver are separate and
self-approval is denied. An amendment of a delivery or a dip reading is
approved, and makes a new version, without being applied to anything. A write
that has passed RequireEnabled commits after its scope was disabled. A login
saves again the context it read before the user chose another one, though
`docs/API-CONTRACT.md` says the latest change is the saved one.

Several properties say exactly how far the code goes. What they leave out is
behaviour TLC reaches, and worth knowing:

- A rejected shift is not a predecessor. When its correction is locked after
  the next shift, the readings of the two overlap
  (`ChainBreaksOnlyOverSkipped` allows only that). A current baseline goes
  before the predecessor for every later shift.
- A cleared starvation alert suppresses a new one when its shift is amended and
  overdue again (`OverdueIsAlerted`).
- Revisions of the organization may share policy and date; only those of a
  station are serialised (`StationRevisionsDistinct`). A disabled revision does
  not hide an older one.
- No code writes `evidence_policy_types`; under an evidence revision without
  types no loss can be submitted. An optional policy without evidence, and a
  required one with minimum zero, refuse every loss, since a submission cannot
  claim an exception.
- A login that compared the password before a reset committed leaves a session
  of somebody who knew only the old password. `OldSessionsEnd` is about the
  sessions that existed at the change (`born` is the password at a session's
  creation), which the code revokes. A password change verifies the old
  password before its transaction and does not look again, and leaves open reset
  links usable.
- Disabling a user leaves sessions and links; they work again when the user is
  enabled. The idle test of a session never fails, because the time it compares
  with has just been updated.
- Role changes, organization updates and the alert scheduler can deadlock with
  station writes (`OrderedNeverDeadlock` is about all the others). So can the
  mark of a failed submission and a retry under its key: the mark has inserted
  the key and waits for the shift, the retry holds the shift and waits for the
  key. The database ends one of the two, and nothing retries it.
- The last-Owner rule counts role rows; the last one may belong to a disabled
  user.

### Bounds

`MaxShifts`, `MaxClaims`, `MaxRevision`, `MaxFailing`, `MaxAmendments` and
`MaxAttempts` bound the counters of station and relay, `MaxTime`,
`MaxSessions`, `MaxTokens`, `MaxPasswords`, `MaxVersions`, `MaxRevisions` and
`MaxFewShifts` those of Accounts and Books; each is a guard of one action.
`MaxFewShifts` bounds the workloads of Books without resets and baselines, in
which one shift opens after another and nothing looks over a skipped one.
Two shifts of the station are a source and a backfilled one that carries its
readings, and three revisions of a draft let the source hold a reading and the
sale that an amendment of it needs. One browser is enough there: who enters and
who takes over is the question of `drafting` and `submission`. Three shifts of
Books are needed for a backfilled one between a source and its successor, and
for a meter whose predecessor is skipped; two amendments for one to be lost
to the other; three claims for a token to be taken over twice; two keys, two
payloads and two pending failures for a late mark to meet a success under the
same key and under another. Four transactions are one more than creator, waiter
and late comer of the audit lock. Three requests make a cycle of locks through a
third row; two grants of Owner make two removals that must not both succeed.
Two users, two sessions, two tokens and three passwords let a change and a reset
overlap with each other and with a login; three units of time pass a session's
life, its skew and the cutoff of the first key. A modulus of three with every
reading makes the meter roll over by one and by two and stand still. The sale of
one is rounded and that of two overflows, so a rollover of one is the one that
only the policy can refuse: the default allows it and the revisions of the run
allow none. One workload holds meters and policies, so a submission meets both
kinds of limit, also when the stricter one is dated ahead or was disabled: a
check that is left out, or that reads another revision than the frozen one,
lets a rollover of one through.

Accounts and Books choose a *workload* at the start: the operations that are
asked for in this behaviour, so that a run covers every group of operations
that touch the same rows without their product. Locks likewise chooses a *mix*
of programs; every three of seven programs meet; the failure mark, and seven
programs that take their rows in the order of one of these, each meet a
submission and any of the seven.

The runs of the station, the relay, Accounts and Books do not check deadlock:
with all counters at their bound the model stops, and a station where nobody
acts is a legal state. AuditChain and Locks check it, because there a deadlock
would be one of row locks. The requests of `access` and the creators of `books`
are interchangeable and reduced by symmetry, and so are the keys and the payloads
of `submission`, which are only compared; runs with liveness use none.

### Fairness

Every operation is a request of a person, so the code schedules no operation as
a whole. Once a request runs, its statements follow one another: AuditChain's
`FairSpec` assumes weak fairness of each transaction's next statement, Locks'
`FairSpec` of each request's next step, and of the deadlock detector, which the
database runs after a timeout. Rollback is never assumed. A waiting statement is
not enabled, so nothing is assumed about who gets a lock; `EveryTransactionEnds`
and `EveryRequestEnds` hold because each call is finite and the calls are
finitely many. No liveness is claimed for the jobs that could make progress by
themselves (relay worker, recovery, alert scheduler): they exist as code, but
`cmd/server/main.go` starts none of them.

## Proofs

Every invariant and every action property that a run checks is also a theorem,
for all values of the constants: any number of users, browsers, shifts, keys,
amendments, transactions, workers, requests, sessions, tokens and revisions,
and any meter, price and policy. The refinements of `ShiftLedger` and of
`AuditLog` are theorems too. `PROJECT.json` names the theorem of each property.
Some theorems have no run of their own: the types of Accounts and Books, which
are parts of their inductive invariants, and `CommitsAreLogged`, which the
refinement that `audit_chain` checks implies.

| Module | Inductive invariant | What is read off it |
| --- | --- | --- |
| `StationProofs` | `StationInv` | `TypeOK`, `OneActiveShift`, `StatusMatchesDecision`, `VersionChain`, `DecisionLedger`, `PendingIsCurrent`, `NoLostAmendment`, `HistoryIsImmutable` |
| `LedgerProofs` | `StationInv` | `ImplementsLedger` |
| `ReportProofs` | `StationInv /\ RecordInv` | `FencedRows`, `NoDuplicateRow`, `ReportIsDraftPrefix`, `CarriedReadingHasOrigin`, `IdempotentSubmit`, `SeparationOfDuties`, `AuditMatchesTables` |
| `AuditChainProofs` | `ChainInv`; `OutcomeInv` | `ChainVerifies`, `TailStaysFresh`; `CommitsAreLogged`, `ImplementsAuditLog` |
| `RelayProofs` | `RelayInv` | `DeliveredByLastAttempt`, `DeliveredIsFinal` |
| `LocksProofs` | `LocksInv` | `TypeOK`, `OrderedNeverDeadlock`, `DisabledScopeRefuses`, `OwnerRemains` |
| `AccountsProofs` | `AccountsInv` | `TypeOK`, `OldSessionsEnd`, `DeadSessionRefused`, `LinkWorksOnce`, `EnabledHasIdentity`, `NothingIsRevived` |
| `BooksProofs` | `BooksInv`; `BoundInv` | `TypeOK`, `ChainBreaksOnlyOverSkipped`, `DeltaIsCircular`, `PolicyWasInForce`, `LossesAreEvidenced`, `StationRevisionsDistinct`, `OverdueIsAlerted`, `AlertsAreUnique`; `SubmittedIsFinal` |

### Assumptions

Only the named ASSUMEs of the modules: openers are users, devices belong to
users, roles, targets, programs and operations are of the code's kinds, a lease
is positive, bounds are naturals. Three of them a proof found missing: an
organization has an Owner before the requests begin (`GrantsAssumption`;
`OwnerRemains` is about such an organization), `MaxPasswords` is
positive, as the first user has a password, and `MaxFewShifts` is at most
`MaxShifts`, which `TypeOK` names as the bound.

### The station

No single invariant of the station is inductive. They are proved together as
`StationInv`, which adds `Links`, the references that the foreign keys keep:
every shift has a draft, an amendment's base is a report of its shift, and an
acknowledgement head points to a decision of its own report. They need each
other:

- `ApproveAmendment` keeps `VersionChain` only because the base is the current
  report, and `NoLostAmendment` only because no other amendment is pending on
  that base (`PendingIsCurrent`): otherwise the approval would leave a sibling
  with a base that is no longer current.
- `DecisionLedger` is kept by a supersession because the head it clears is that
  of its own report (`Links`), and by an acknowledgement because the head was
  empty.
- `StatusMatchesDecision` gives that an open shift has no report, so Submit's
  version 1 cannot fork a chain.

The proof has a type lemma for every action, then one lemma per action or group
of actions for the other conjuncts; steps that leave reports, decisions and
amendments alone (drafts, roles, rollbacks, marks) share one lemma. The
refinement maps OpenShift to Open, Submit to Submit, Acknowledge to Decide,
ApproveAmendment to Amend, and everything else to stuttering; its step uses
`StationInv` for the version of the current report.

`ReportProofs` builds on this. A step changes the drafts in one of four ways
(not at all, a new one, a claim, a write) and the reports in one of three, and
each conjunct of `RecordInv` is proved once per way rather than once per action:

- `FenceInv` strengthens `FencedRows` by what the present token and owner of a
  draft have to do with its rows, and bounds every token by the last one issued:
  the next token is new, so a claim cannot let old writes in.
- `KeyInv` strengthens `IdempotentSubmit` by the key rows that no answer has
  named yet: a replay answers from the row, so the row must be right before
  anybody asks.
- `CarriedReadingHasOrigin` needs that an amendment leaves the rows of a report
  alone, and that a locked shift was acknowledged.
- `AuditMatchesTables` compares the log with what the tables give rise to;
  each transaction adds one row and its event.

### Audit chain, relay, locks

`ChainInv` says that a transaction between its second lock and its end holds the
lock row alone, also while that row is an uncommitted insert of its own. Then
the tail it read cannot move, and its entry continues the chain.

The refinement of `AuditLog` follows from that: an insert never finds its
sequence taken, so it is a `Commit` whose row is linked to the last one, a
rollback is a `Fail`, and every other statement is a stutter. That a transaction
is still running when it inserts is `EndedOnce`; with it `OutcomeInv` has the log
hold exactly the events of the committed transactions, each once.

`RelayInv` says that a token names one attempt and that the token of an event in
flight is that of the last one. A worker whose token still matches therefore
reports the last attempt.

`LocksInv` says that a running request holds exactly the locks of the statements
it has run. Of two removals that both counted two Owners, both would hold the
organization; that is why `OwnerRemains`. For `OrderedNeverDeadlock` the rows
have ranks: whoever an ordered request waits for waits itself for a row of
higher rank, and there are ten ranks. The organization has no rank, because
ordered requests only share it.

### Accounts

`AccountsInv` adds what the requests under way rely on. A reason to refuse that
was there on arrival is still there when the session is read, unless the user is
enabled again; tokens and sessions point to rows that stay. The delicate case is
AcceptInvitation, which sets a password and revokes no session: `OldSessionsEnd`
survives because an account with an open invitation has no password yet, and an
account without one has no session (`TokensInv`, `SessionsInv`).

`NothingIsRevived` is about steps: for each action that writes sessions, tokens
or users a lemma says that its rows are only closed, revoked or added
(`SessionsFixed`, `TokensFixed`, `PasswordsFixed`). It needs the invariant where
an action overwrites: a spent link was open and unspent, an invitation is
accepted by an account without a password, and requests point to rows that are
there. It allows what the code does: a password change begun with a session that
was revoked meanwhile goes through, and the session it keeps stays revoked.

### Books

`BooksInv` says of each shift what was true when it was submitted, in terms of
rows that no later step changes: revisions only grow, get their types once, and
the book of a submitted shift is final. The rest of the argument:

- *Meter.* `MeterDeltaIsCircular` and `RoundsToNearest` are about the operators
  alone, for every modulus, price and unit. The chain is proved for the shifts
  that were locked at the submission (`ChainOK`); what is locked now can differ
  from that only where `ChainBreaksOnlyOverSkipped` says so.
- *Policy.* `InForceIsBest`: the revision that resolution picks has the highest
  rank of those valid. A submission that makes the default revision adds it
  dated now, so it is in force among the revisions then known; being a
  threshold, it cannot displace an evidence policy.
- *Revisions.* At most one request for the station is between its count and its
  insert, and nothing like it was inserted since. A submission adds its default
  meanwhile only when the station is free, and at the level of the organization.
- *Alerts.* A cleared alert belongs to a shift that is locked or was amended
  since, so a shift that is open for the first time can have none. That an
  evaluation adds its events once each, and all of them, rests on
  `SortedEventsEnumerate`: a finite set with distinct shifts has a sorted
  enumeration. It is proved without an induction theorem, by the least number
  for which it would fail.
- *Final books.* `BoundInv` says that the evidence revision of a submitted shift
  has its types: a submission freezes no revision without. Giving types to a
  revision that has none is the one change of a revision there is, so it cannot
  touch what a report was judged by (`SubmittedIsFinal`).

The invariants `AccountsInv` and `BooksInv` were checked by TLC, on the
instances of the runs `access` and `books`, before they were proved.

### Only model-checked

`EveryTransactionEnds` and `EveryRequestEnds`: liveness under fairness is out of
the prover's reach. So are ENABLED, the library's induction theorems with an
operator as parameter, and recursive operators; no theorem needs them. The four
violations are counterexamples, and need no proof.

## Not modelled

- Draft recovery (`repository/recovery`) acts only on drafts in status
  `submitting`, which no code writes: every call finds nothing to do.
- Reporting and printouts, lists, role history and audit reads change nothing.
- Transport, router, OpenAPI, configuration, canonical JSON, mail delivery and
  the migration runner have no protocol of their own. The mailer appears as a
  send that may fail after the commit.
- The limiter of anonymous account requests (`httpapi/account/handlers.go`)
  keeps counters in memory and refuses requests; a refused request is one that
  the model does not make.
- `RecordAlertOccurrence` has no caller. Creation of organizations and
  stations, names and other columns touch no state a property is about.
- The price snapshot of a shift, several nozzles, products and losses: Books
  has one of each, since the code treats each by itself. Display names and
  e-mail addresses.
- The `now` of a request is taken before its locks; the models compare times at
  the moment the transaction acts, so a clock that is older by the time spent
  waiting is not distinguished. Soft edges of lock queues (a waiter behind a
  waiter) are not modelled.

`PROJECT.json` lists every component with its reason, and every hazard with the
property that covers it or the note why none does.

## Plan

Every safety property, action property and refinement of the runs is proved. What
could be added is more of the system rather than more about what is here: several
nozzles, products and losses in one report, the creation of organizations and
stations, and the order in which the database serves a queue of waiting locks.
