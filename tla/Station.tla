------------------------------- MODULE Station -------------------------------
(***************************************************************************)
(* One station of the fuel reconciliation backend: shifts, drafts,         *)
(* submissions and governance over the same tables.                        *)
(***************************************************************************)
EXTENDS Governance

vars == <<shiftVars, draftVars, submissionVars, governanceVars>>

Init ==
    /\ ShiftsInit
    /\ DraftsInit
    /\ SubmissionsInit
    /\ GovernanceInit

Next ==
    \/ /\ \E u \in Users, backfilled \in Backfills : OpenShift(u, backfilled)
       /\ UNCHANGED <<draftVars, submissionVars, governanceVars>>
    \/ DraftStep /\ UNCHANGED <<submissionVars, governanceVars>>
    \/ SubmissionStep /\ UNCHANGED governanceVars
    \/ GovernanceStep

Spec == Init /\ [][Next]_vars

-----------------------------------------------------------------------------
(***************************************************************************)
(* The rows of each table.                                                 *)
(***************************************************************************)
Row == [rev : Nat, item : Item, by : Users, token : Nat]

Shift == [status : ShiftStatuses, current : Nat, backfilled : BOOLEAN]

Draft == [owner : Users, token : Nat, lease : Nat,
          status : {"editing", "submitted"}, revision : Nat, rows : SUBSET Row]

Knowledge == [shift : Nat, token : Nat, rev : Nat]

Report == [shift : Nat, version : Nat, supersedes : Nat, submittedBy : Users,
           rows : SUBSET Row, applied : SUBSET Nat, ack : Nat]

Idem == [shift : Nat, key : Keys, hash : Payloads,
         status : {"succeeded", "failed"}, report : Nat]

Ack == [report : Nat, by : Users, decision : Decisions, supersededBy : Nat]

Snapshot == [report : Nat, version : Nat, rows : SUBSET Row, applied : SUBSET Nat]

Amendment == [shift : Nat, base : Nat, status : {"pending", "approved", "rejected"},
              target : AllTargets, requester : Users, approver : SUBSET Users, applied : Nat,
              breakGlass : BOOLEAN, hash : Snapshot]

Event == {"shift.opened", "report.submitted", "report.acknowledged",
          "amendment.requested", "amendment.rejected", "amendment.approved"} \X Nat

\* Every table of the station holds rows of its type (the column types and
\* CHECK constraints of the migrations).
TypeOK ==
    /\ shifts \in Seq(Shift)
    /\ drafts \in Seq(Draft)
    /\ audit \subseteq Event
    /\ issued \in Nat
    /\ known \in [Devices -> Knowledge]
    /\ reports \in Seq(Report)
    /\ idem \subseteq Idem
    /\ failing \subseteq Request
    /\ answers \subseteq [shift : Nat, key : Keys, hash : Payloads, report : Nat]
    /\ acks \in Seq(Ack)
    /\ amendments \in Seq(Amendment)
    /\ roles \in [Users -> SUBSET Roles]

-----------------------------------------------------------------------------
(***************************************************************************)
(* Shifts, report versions and decisions                                   *)
(***************************************************************************)

\* Two shifts of the station are never active at once, although a decided
\* shift becomes active again when an amendment of it is approved.
OneActiveShift ==
    \A s, t \in DOMAIN shifts : Active(s) /\ Active(t) => s = t

StatusIsRight(s) ==
    LET r == shifts[s].current
    IN  IF shifts[s].status = "open"
        THEN r = NoId
        ELSE /\ r \in DOMAIN reports
             /\ reports[r].shift = s
             /\ IF reports[r].ack = NoId
                THEN shifts[s].status = "awaiting_confirmation"
                ELSE /\ reports[r].ack \in DOMAIN acks
                     /\ shifts[s].status = Decided(acks[reports[r].ack].decision)

\* The status of a shift says what the acknowledgement head of its current
\* report says: no report while open, no decision while awaiting, and the
\* active decision otherwise.
StatusMatchesDecision == \A s \in DOMAIN shifts : StatusIsRight(s)

InChain(r) ==
    LET this == reports[r]
    IN  /\ this.shift \in DOMAIN shifts
        /\ IF this.version = 1
           THEN this.supersedes = NoId
           ELSE /\ this.supersedes \in DOMAIN reports
                /\ reports[this.supersedes].shift = this.shift
                /\ reports[this.supersedes].version + 1 = this.version
        /\ \A q \in DOMAIN reports :
              (reports[q].shift = this.shift /\ reports[q].version = this.version) => q = r
        /\ LET last == shifts[this.shift].current
           IN  last \in DOMAIN reports /\ this.version <= reports[last].version

\* The reports of a shift form one chain of versions 1, 2, ... that ends in
\* the current report: no fork, no gap, and no second first report.
VersionChain == \A r \in DOMAIN reports : InChain(r)

InLedger(a) ==
    /\ acks[a].report \in DOMAIN reports
    /\ IF acks[a].supersededBy = NoId
       THEN reports[acks[a].report].ack = a
       ELSE /\ acks[a].supersededBy \in DOMAIN reports
            /\ reports[acks[a].supersededBy].supersedes = acks[a].report
            /\ reports[acks[a].report].ack = NoId

\* A decision is either the active one of its report or superseded by the
\* next version of that report, never both and never neither.
DecisionLedger == \A a \in DOMAIN acks : InLedger(a)

\* A pending amendment can still be applied: its base is the current report
\* of its shift and the base hash it stored is still right.
PendingIsCurrent ==
    \A a \in DOMAIN amendments :
        amendments[a].status = "pending" =>
            /\ amendments[a].shift \in DOMAIN shifts
            /\ shifts[amendments[a].shift].current = amendments[a].base
            /\ \A b \in DOMAIN amendments :
                  /\ amendments[b].base = amendments[a].base
                  /\ amendments[b].status = "pending"
                  => b = a
            /\ amendments[a].hash = SnapshotHash(amendments[a].base)

\* The current report of a shift carries the values of exactly the approved
\* amendments of its sales and losses: none is lost when another is applied.
NoLostAmendment ==
    \A s \in DOMAIN shifts :
        shifts[s].current # NoId =>
            reports[shifts[s].current].applied =
                {a \in DOMAIN amendments :
                    /\ amendments[a].shift = s
                    /\ amendments[a].status = "approved"
                    /\ amendments[a].target \in FigureTargets}

\* "ApproveAmendment applies an allowlisted amendment as a new report
\* version": the version an approval made carries the amendment's values.
\* Targets other than sales and losses are allowed, and not applied.
ApprovedIsApplied ==
    \A a \in DOMAIN amendments :
        amendments[a].status = "approved" =>
            a \in reports[amendments[a].applied].applied

\* Separation of duties over the whole history: nobody decided a report they
\* had submitted or whose sales or losses they had entered, and nobody decided
\* their own amendment request except under break-glass.
SeparationOfDuties ==
    /\ \A a \in DOMAIN acks :
          /\ reports[acks[a].report].submittedBy # acks[a].by
          /\ \A x \in reports[acks[a].report].rows :
                x.item[1] \in {"sale", "loss"} => x.by # acks[a].by
    /\ \A a \in DOMAIN amendments :
          amendments[a].requester \in amendments[a].approver =>
              amendments[a].status = "approved" /\ amendments[a].breakGlass

\* Nobody approves their own amendment request, as the behaviour matrix puts
\* it ("requester and approver are separate"); ApproveAmendment lets a
\* break-glass request through.
NoSelfApproval ==
    \A a \in DOMAIN amendments :
        amendments[a].status = "approved" =>
            amendments[a].requester \notin amendments[a].approver

\* The audit events are exactly those of the committed rows: no operation
\* commits without its event and no event is left by one that did not commit.
AuditMatchesTables ==
    audit = {<<"shift.opened", s>> : s \in DOMAIN shifts}
       \cup {<<"report.submitted", r>> : r \in {x \in DOMAIN reports : reports[x].version = 1}}
       \cup {<<"amendment.approved", r>> : r \in {x \in DOMAIN reports : reports[x].version > 1}}
       \cup {<<"report.acknowledged", a>> : a \in DOMAIN acks}
       \cup {<<"amendment.requested", a>> : a \in DOMAIN amendments}
       \cup {<<"amendment.rejected", a>> :
                a \in {x \in DOMAIN amendments : amendments[x].status = "rejected"}}

-----------------------------------------------------------------------------
(***************************************************************************)
(* Drafts and submission                                                   *)
(***************************************************************************)

\* The claim token fences: every revision of a draft was made by one row, the
\* rows follow the order of the claims they were written under, all rows of
\* one claim come from one user, and none is newer than the last claim.
FencedRows ==
    \A s \in DOMAIN drafts :
        LET rows == drafts[s].rows
        IN  /\ {x.rev : x \in rows} = 2..drafts[s].revision
            /\ \A x, y \in rows :
                 /\ x.rev = y.rev => x = y
                 /\ x.rev < y.rev => x.token <= y.token
                 /\ x.token = y.token => x.by = y.by
            /\ \A x \in rows :
                 /\ x.token <= issued
                 /\ drafts[s].token # NoId => x.token <= drafts[s].token

\* A retry after a lost answer never enters a nozzle, a dispenser or a loss
\* twice.
NoDuplicateRow ==
    \A s \in DOMAIN drafts :
        \A x, y \in drafts[s].rows :
            x.item = y.item /\ x.item[1] # "evidence" => x = y

\* A report holds what its draft held when it was submitted, also when the
\* draft is claimed and written again afterwards: with each of its own rows
\* it holds every row written before.  Later versions leave out evidence and
\* backfilled ones take no reading from the draft.
ReportIsDraftPrefix ==
    \A r \in DOMAIN reports :
        LET s == reports[r].shift
            own == {x \in drafts[s].rows :
                        /\ x.item[1] = "evidence" => reports[r].version = 1
                        /\ x.item[1] = "reading" => ~shifts[s].backfilled}
        IN  \A x \in reports[r].rows :
                (x.item[1] = "reading" /\ shifts[s].backfilled)
                \/ /\ x \in own
                   /\ \A y \in own : y.rev < x.rev => y \in reports[r].rows

\* A reading that a backfilled report carries forward was entered in an
\* earlier shift that is not backfilled and had a report acknowledged; the
\* current report of that shift still holds it, whatever was amended since.
CarriedReadingHasOrigin ==
    \A r \in DOMAIN reports : \A x \in reports[r].rows :
        x.item[1] = "reading" /\ shifts[reports[r].shift].backfilled =>
            \E t \in DOMAIN shifts :
                /\ t < reports[r].shift
                /\ ~shifts[t].backfilled
                /\ x \in drafts[t].rows
                /\ x \in reports[shifts[t].current].rows
                /\ \E a \in DOMAIN acks :
                      acks[a].decision = "acked" /\ reports[acks[a].report].shift = t

\* A key has one fate.  Whoever was told that a submission succeeded was told
\* the first report of the shift, the key says so and its payload is the one
\* that was sent; a key marked failed was never answered with success.
IdempotentSubmit ==
    /\ \A x, y \in idem : x.shift = y.shift /\ x.key = y.key => x = y
    /\ \A a \in answers :
          /\ IdemRow(a, "succeeded", a.report) \in idem
          /\ a.report \in DOMAIN reports
          /\ reports[a.report].shift = a.shift
          /\ reports[a.report].version = 1

\* At every step: a report keeps its figures and its place, a decision keeps
\* its content, an amendment once decided and a key once decided stay so.
HistoryIsImmutable ==
    [][/\ \A r \in DOMAIN reports :
             /\ r \in DOMAIN reports'
             /\ reports'[r] = [reports[r] EXCEPT !.ack = reports'[r].ack]
       /\ \A a \in DOMAIN acks :
             /\ a \in DOMAIN acks'
             /\ acks'[a] = [acks[a] EXCEPT !.supersededBy = acks'[a].supersededBy]
       /\ \A a \in DOMAIN amendments :
             amendments[a].status # "pending" => amendments'[a] = amendments[a]
       /\ idem \subseteq idem']_vars

-----------------------------------------------------------------------------
(***************************************************************************)
(* The station implements the abstract ledger of shifts.                   *)
(***************************************************************************)
Ledger ==
    [s \in DOMAIN shifts |->
        [phase   |-> shifts[s].status,
         version |-> IF shifts[s].current = NoId THEN 0
                     ELSE reports[shifts[s].current].version]]

L == INSTANCE ShiftLedger WITH ledger <- Ledger

\* Every behaviour of the station is a behaviour of the shift ledger.
ImplementsLedger == L!Spec

=============================================================================
