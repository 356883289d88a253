---------------------------- MODULE ReportProofs ----------------------------
(***************************************************************************)
(* Proofs about what the station records: the rows of a draft, the rows a  *)
(* report takes from drafts and from earlier reports, the keys of          *)
(* submissions, who decided what, and the audit events.                    *)
(***************************************************************************)
EXTENDS StationProofs

-----------------------------------------------------------------------------
(***************************************************************************)
(* The four ways in which a step changes the drafts.                       *)
(***************************************************************************)

\* Draft s keeps its child rows, its revision and its owner.
SameDraft(s) ==
    /\ drafts'[s].rows = drafts[s].rows
    /\ drafts'[s].revision = drafts[s].revision
    /\ drafts'[s].owner = drafts[s].owner

\* No draft changes, except that a submission takes its claim away.
DraftsKept ==
    /\ DOMAIN drafts' = DOMAIN drafts
    /\ issued' = issued
    /\ \A s \in DOMAIN drafts :
          SameDraft(s) /\ drafts'[s].token \in {drafts[s].token, NoId}

\* Draft s is added, empty.
DraftOpened(s) ==
    /\ s \notin DOMAIN drafts
    /\ DOMAIN drafts' = DOMAIN drafts \cup {s}
    /\ issued' = issued
    /\ \A t \in DOMAIN drafts : drafts'[t] = drafts[t]
    /\ drafts'[s].rows = {}
    /\ drafts'[s].revision = 1
    /\ drafts'[s].token = NoId

\* Draft s gets a claim token that nobody has seen.
DraftClaimed(s) ==
    /\ s \in DOMAIN drafts
    /\ DOMAIN drafts' = DOMAIN drafts
    /\ issued' = issued + 1
    /\ \A t \in DOMAIN drafts : t # s => drafts'[t] = drafts[t]
    /\ drafts'[s].rows = drafts[s].rows
    /\ drafts'[s].revision = drafts[s].revision
    /\ drafts'[s].token = issued + 1

\* Row x is written to draft s under its present claim.
DraftWritten(s, x) ==
    /\ s \in DOMAIN drafts
    /\ DOMAIN drafts' = DOMAIN drafts
    /\ issued' = issued
    /\ \A t \in DOMAIN drafts : t # s => drafts'[t] = drafts[t]
    /\ drafts'[s].rows = drafts[s].rows \cup {x}
    /\ drafts'[s].revision = x.rev
    /\ drafts'[s].owner = drafts[s].owner
    /\ drafts'[s].token = drafts[s].token
    /\ x.rev = drafts[s].revision + 1
    /\ x.by = drafts[s].owner
    /\ x.token = drafts[s].token
    /\ x.token # NoId
    /\ x.item[1] # "evidence" => \A y \in drafts[s].rows : y.item # x.item

DraftsChange ==
    \/ DraftsKept
    \/ \E s : DraftOpened(s)
    \/ \E s : DraftClaimed(s)
    \/ \E s, x : DraftWritten(s, x)

\* A draft is a row of its table.
LEMMA DraftTypes ==
    ASSUME TypeOK
    PROVE  /\ DOMAIN drafts = 1..Len(drafts) /\ Len(drafts) \in Nat
           /\ \A s \in DOMAIN drafts : drafts[s] \in Draft
  BY DEF TypeOK

\* A new draft is empty and unclaimed.
LEMMA OpenShiftDraft ==
    ASSUME TypeOK, NEW u \in Users, NEW b \in Backfills, OpenShift(u, b), UNCHANGED draftVars
    PROVE  DraftOpened(Len(drafts) + 1)
  <1>1. NewDraft(u) \in Draft
    BY DEF NewDraft, Draft, NoId, Row
  <1>. QED
    BY <1>1, RowInsert DEF OpenShift, DraftOpened, TypeOK, NewDraft, draftVars

\* A claim hands out the next token.
LEMMA ClaimDraft ==
    ASSUME TypeOK, NEW d \in Devices, NEW s \in DOMAIN drafts, Claim(d, s)
    PROVE  DraftClaimed(s)
  <1>. DEFINE new == [drafts[s] EXCEPT !.owner = UserOf(d), !.token = issued + 1,
                                       !.lease = LeaseDuration, !.status = "editing"]
  <1>1. drafts[s] \in Draft
    BY DraftTypes
  <1>2. drafts' = [drafts EXCEPT ![s] = new]
    BY <1>1 DEF Claim, TypeOK
  <1>3. new.rows = drafts[s].rows /\ new.revision = drafts[s].revision /\ new.token = issued + 1
    BY <1>1 DEF Draft
  <1>4. issued' = issued + 1
    BY DEF Claim
  <1>. HIDE DEF new
  <1>. QED BY <1>2, <1>3, <1>4 DEF DraftClaimed, TypeOK

\* A heartbeat changes a lease only.
LEMMA HeartbeatDraft ==
    ASSUME TypeOK, NEW d \in Devices, Heartbeat(d)
    PROVE  DraftsKept
  <1>. DEFINE s == known[d].shift
              new == [drafts[s] EXCEPT !.lease = LeaseDuration]
  <1>1. s \in DOMAIN drafts /\ drafts[s] \in Draft
    BY DraftTypes DEF Heartbeat
  <1>2. drafts' = [drafts EXCEPT ![s] = new]
    BY <1>1 DEF Heartbeat, TypeOK
  <1>3. /\ new.rows = drafts[s].rows
        /\ new.revision = drafts[s].revision
        /\ new.owner = drafts[s].owner
        /\ new.token = drafts[s].token
    BY <1>1 DEF Draft
  <1>4. issued' = issued
    BY DEF Heartbeat
  <1>. HIDE DEF new
  <1>. QED BY <1>1, <1>2, <1>3, <1>4 DEF DraftsKept, SameDraft, TypeOK

\* The passing of time changes leases only.
LEMMA LeaseTickDraft ==
    ASSUME TypeOK, LeaseTick
    PROVE  DraftsKept
  <1>1. DOMAIN drafts' = DOMAIN drafts /\ issued' = issued
    BY DEF LeaseTick
  <1>2. ASSUME NEW s \in DOMAIN drafts
        PROVE  SameDraft(s) /\ drafts'[s].token = drafts[s].token
    <2>1. drafts[s] \in Draft
      BY DraftTypes
    <2>2. drafts'[s] = [drafts[s] EXCEPT !.lease = IF @ > 0 THEN @ - 1 ELSE 0]
      BY DEF LeaseTick
    <2>. QED BY <2>1, <2>2 DEF Draft, SameDraft
  <1>. QED BY <1>1, <1>2 DEF DraftsKept

\* A write needs the present claim and the present revision.
LEMMA WriteDraftRow ==
    ASSUME TypeOK, NEW d \in Devices, NEW item \in Item, Write(d, item),
           item[1] # "evidence" => item \notin Written(known[d].shift)
    PROVE  \E x : DraftWritten(known[d].shift, x)
  <1>. DEFINE s == known[d].shift
              x == [rev |-> drafts[s].revision + 1, item |-> item, by |-> UserOf(d),
                    token |-> known[d].token]
              new == [drafts[s] EXCEPT !.rows = @ \cup {x}, !.revision = drafts[s].revision + 1]
  <1>1. s \in DOMAIN drafts /\ drafts[s] \in Draft
    BY DraftTypes DEF Write
  <1>2. drafts' = [drafts EXCEPT ![s] = new]
    BY <1>1 DEF Write, TypeOK
  <1>3. /\ new.rows = drafts[s].rows \cup {x}
        /\ new.revision = drafts[s].revision + 1
        /\ new.owner = drafts[s].owner
        /\ new.token = drafts[s].token
    BY <1>1 DEF Draft
  <1>4. /\ drafts[s].owner = UserOf(d)
        /\ drafts[s].token = known[d].token
        /\ drafts[s].token # NoId
        /\ issued' = issued
    BY DEF Write, HoldsLease
  <1>5. item[1] # "evidence" => \A y \in drafts[s].rows : y.item # item
    BY DEF Written
  <1>. HIDE DEF new
  <1>6. DraftWritten(s, x)
    BY <1>1, <1>2, <1>3, <1>4, <1>5 DEF DraftWritten, TypeOK
  <1>. QED BY <1>6

\* A submission takes the claim of its draft away.
LEMMA SubmitDraft ==
    ASSUME StationInv, NEW d \in Devices, NEW k \in Keys, NEW p \in Payloads, Submit(d, k, p)
    PROVE  DraftsKept
  <1>. DEFINE s == known[d].shift
              new == [drafts[s] EXCEPT !.status = "submitted", !.token = NoId, !.lease = 0]
  <1>. TypeOK
    BY DEF StationInv
  <1>1. s \in DOMAIN drafts /\ drafts[s] \in Draft
    BY DraftTypes DEF Submit, StationInv, Links
  <1>2. drafts' = [drafts EXCEPT ![s] = new]
    BY <1>1 DEF Submit, TypeOK
  <1>3. /\ new.rows = drafts[s].rows
        /\ new.revision = drafts[s].revision
        /\ new.owner = drafts[s].owner
        /\ new.token = NoId
    BY <1>1 DEF Draft
  <1>4. issued' = issued
    BY DEF Submit
  <1>. HIDE DEF new
  <1>. QED BY <1>1, <1>2, <1>3, <1>4 DEF DraftsKept, SameDraft, TypeOK

\* Every step changes the drafts in one of the four ways.
LEMMA StepChangesDrafts ==
    ASSUME StationInv, [Next]_vars
    PROVE  DraftsChange
  <1>. TypeOK
    BY DEF StationInv
  <1>0. ASSUME UNCHANGED <<drafts, issued>>
        PROVE  DraftsChange
    BY <1>0 DEF DraftsChange, DraftsKept, SameDraft
  <1>1. CASE \E u \in Users, b \in Backfills :
                OpenShift(u, b) /\ UNCHANGED <<draftVars, submissionVars, governanceVars>>
    BY <1>1, OpenShiftDraft DEF DraftsChange
  <1>2. CASE DraftStep
    <2>1. ASSUME NEW d \in Devices, ReadDetail(d)
          PROVE  DraftsChange
      BY <1>0, <2>1 DEF ReadDetail
    <2>. QED
      BY <1>2, <2>1, ClaimDraft, HeartbeatDraft, LeaseTickDraft, DraftWrites, WriteDraftRow
      DEF DraftStep, DraftsChange
  <1>3. CASE SubmissionStep
    <2>1. CASE \E d \in Devices, k \in Keys, p \in Payloads : Submit(d, k, p)
      BY <2>1, SubmitDraft DEF DraftsChange
    <2>2. CASE \/ \E q \in Request : SubmitReplay(q) \/ SubmitAborts(q)
               \/ \E q \in failing : MarkSubmitFailed(q) \/ MarkIsLost(q)
      BY <1>0, <2>2 DEF SubmitReplay, SubmitAborts, MarkSubmitFailed, MarkIsLost, shiftVars, draftVars
    <2>. QED BY <1>3, <2>1, <2>2 DEF SubmissionStep
  <1>4. CASE GovernanceStep
    <2>1. UNCHANGED <<drafts, issued>>
      BY <1>4 DEF GovernanceStep, Acknowledge, RequestAmendment, RejectAmendment, ApproveAmendment,
         AssignRole, RemoveRole, shiftVars, draftVars
    <2>. QED BY <1>0, <2>1
  <1>5. CASE UNCHANGED vars
    BY <1>0, <1>5 DEF vars, shiftVars, draftVars
  <1>. QED BY <1>1, <1>2, <1>3, <1>4, <1>5 DEF Next

-----------------------------------------------------------------------------
(***************************************************************************)
(* The fence of claim tokens and revisions.                                *)
(***************************************************************************)

\* The rows of a draft with this revision, claim token and owner, when `last`
\* is the newest token of the station.  Beyond FencedRows it says that the
\* rows of the present claim are its owner's, which a later write needs.
Fence(rows, revision, token, owner, last) ==
    /\ {x.rev : x \in rows} = 2..revision
    /\ \A x, y \in rows :
          /\ x.rev = y.rev => x = y
          /\ x.rev < y.rev => x.token <= y.token
          /\ x.token = y.token => x.by = y.by
    /\ token <= last
    /\ \A x \in rows :
          /\ x.token <= last
          /\ token # NoId => x.token <= token
          /\ token # NoId /\ x.token = token => x.by = owner

FenceInv ==
    \A s \in DOMAIN drafts :
        Fence(drafts[s].rows, drafts[s].revision, drafts[s].token, drafts[s].owner, issued)

\* A row written under the present claim and revision stays within the fence.
LEMMA FenceWrite ==
    ASSUME NEW rows \in SUBSET Row, NEW revision \in Nat, NEW token \in Nat, NEW owner,
           NEW last \in Nat, Fence(rows, revision, token, owner, last), revision >= 1,
           NEW x \in Row, x.rev = revision + 1, x.by = owner, x.token = token, token # NoId
    PROVE  Fence(rows \cup {x}, revision + 1, token, owner, last)
  <1>1. \A y \in rows : y.rev \in 2..revision /\ y.token <= token /\ y.token <= last
    BY DEF Fence
  <1>2. \A y \in Row : y.rev \in Nat /\ y.token \in Nat
    BY DEF Row
  <1>3. {y.rev : y \in rows \cup {x}} = 2..(revision + 1)
    <2>1. {y.rev : y \in rows \cup {x}} = {y.rev : y \in rows} \cup {revision + 1}
      OBVIOUS
    <2>2. 2..(revision + 1) = (2..revision) \cup {revision + 1}
      OBVIOUS
    <2>. QED BY <2>1, <2>2 DEF Fence
  <1>4. ASSUME NEW y \in rows \cup {x}, NEW z \in rows \cup {x}
        PROVE  /\ y.rev = z.rev => y = z
               /\ y.rev < z.rev => y.token <= z.token
               /\ y.token = z.token => y.by = z.by
    <2>1. CASE y \in rows /\ z \in rows
      BY <2>1 DEF Fence
    <2>2. CASE y \in rows /\ z = x
      BY <1>1, <1>2, <2>2 DEF Fence
    <2>3. CASE y = x /\ z \in rows
      <3>1. z.rev < y.rev
        BY <1>1, <1>2, <2>3
      <3>2. z.token = token => z.by = owner
        BY <2>3 DEF Fence
      <3>. QED BY <1>2, <2>3, <3>1, <3>2
    <2>4. CASE y = x /\ z = x
      BY <1>2, <2>4
    <2>. QED BY <2>1, <2>2, <2>3, <2>4
  <1>. QED BY <1>1, <1>3, <1>4 DEF Fence

\* A fresh token is newer than every row.
LEMMA FenceClaim ==
    ASSUME NEW rows \in SUBSET Row, NEW revision \in Nat, NEW token \in Nat, NEW owner,
           NEW last \in Nat, Fence(rows, revision, token, owner, last), NEW user
    PROVE  Fence(rows, revision, last + 1, user, last + 1)
  <1>1. \A y \in rows : y.token \in Nat /\ y.token <= last
    BY DEF Fence, Row
  <1>. QED BY <1>1 DEF Fence

\* Tokens handed out elsewhere, and the loss of the claim, leave the fence.
LEMMA FenceKept ==
    ASSUME NEW rows \in SUBSET Row, NEW revision \in Nat, NEW token \in Nat, NEW owner,
           NEW last \in Nat, Fence(rows, revision, token, owner, last),
           NEW now \in {token, NoId}, NEW next \in Nat, last <= next
    PROVE  Fence(rows, revision, now, owner, next)
  <1>1. \A y \in rows : y.token \in Nat /\ y.token <= last
    BY DEF Fence, Row
  <1>. QED BY <1>1 DEF Fence, NoId

\* Revisions start at 1 and only grow.
Revised == \A s \in DOMAIN drafts : drafts[s].revision >= 1

\* The fence holds at every step, whoever claims, writes or submits.
LEMMA FenceNext ==
    ASSUME StationInv, FenceInv, Revised, [Next]_vars
    PROVE  FenceInv' /\ Revised'
  <1>. TypeOK /\ TypeOK'
    BY InvNext DEF StationInv
  <1>. issued \in Nat /\ issued' \in Nat
    BY DEF TypeOK
  <1>1. ASSUME NEW s \in DOMAIN drafts
        PROVE  /\ drafts[s].rows \in SUBSET Row
               /\ drafts[s].revision \in Nat
               /\ drafts[s].token \in Nat
               /\ drafts[s].revision >= 1
               /\ Fence(drafts[s].rows, drafts[s].revision, drafts[s].token, drafts[s].owner, issued)
    BY DraftTypes DEF Draft, FenceInv, Revised
  <1>2. ASSUME NEW s \in DOMAIN drafts', s \in DOMAIN drafts, drafts'[s] = drafts[s], issued <= issued'
        PROVE  Fence(drafts'[s].rows, drafts'[s].revision, drafts'[s].token, drafts'[s].owner, issued')
    BY <1>1, <1>2, FenceKept
  <1>3. CASE DraftsKept
    <2>. SUFFICES ASSUME NEW s \in DOMAIN drafts
                  PROVE  /\ drafts'[s].revision >= 1
                         /\ Fence(drafts'[s].rows, drafts'[s].revision, drafts'[s].token,
                                  drafts'[s].owner, issued')
      BY <1>3 DEF DraftsKept, FenceInv, Revised
    <2>1. SameDraft(s) /\ drafts'[s].token \in {drafts[s].token, NoId} /\ issued <= issued'
      BY <1>3 DEF DraftsKept
    <2>2. Fence(drafts[s].rows, drafts[s].revision, drafts'[s].token, drafts[s].owner, issued')
      BY <1>1, <2>1, FenceKept
    <2>. QED BY <1>1, <2>1, <2>2 DEF SameDraft
  <1>4. ASSUME NEW s, DraftOpened(s)
        PROVE  FenceInv' /\ Revised'
    <2>1. Fence({}, 1, NoId, drafts'[s].owner, issued')
      BY DEF Fence, NoId
    <2>2. \A t \in DOMAIN drafts : drafts'[t] = drafts[t] /\ issued <= issued'
      BY <1>4 DEF DraftOpened
    <2>3. Revised'
      BY <1>1, <1>4 DEF DraftOpened, Revised
    <2>. QED BY <1>2, <1>4, <2>1, <2>2, <2>3 DEF DraftOpened, FenceInv
  <1>5. ASSUME NEW s, DraftClaimed(s)
        PROVE  FenceInv' /\ Revised'
    <2>1. Fence(drafts[s].rows, drafts[s].revision, issued + 1, drafts'[s].owner, issued + 1)
      BY <1>1, <1>5, FenceClaim DEF DraftClaimed
    <2>2. issued <= issued' /\ \A t \in DOMAIN drafts : t # s => drafts'[t] = drafts[t]
      BY <1>5 DEF DraftClaimed
    <2>3. Revised'
      BY <1>1, <1>5 DEF DraftClaimed, Revised
    <2>. QED BY <1>2, <1>5, <2>1, <2>2, <2>3 DEF DraftClaimed, FenceInv
  <1>6. ASSUME NEW s, NEW x, DraftWritten(s, x)
        PROVE  FenceInv' /\ Revised'
    <2>1. s \in DOMAIN drafts /\ s \in DOMAIN drafts'
      BY <1>6 DEF DraftWritten
    <2>2. x \in Row
      <3>1. drafts'[s] \in Draft
        BY <2>1 DEF TypeOK
      <3>. QED BY <1>6, <3>1 DEF DraftWritten, Draft
    <2>3. Fence(drafts[s].rows \cup {x}, drafts[s].revision + 1, drafts[s].token, drafts[s].owner,
                issued)
      BY <1>1, <1>6, <2>1, <2>2, FenceWrite DEF DraftWritten
    <2>4. Fence(drafts'[s].rows, drafts'[s].revision, drafts'[s].token, drafts'[s].owner, issued')
      BY <1>6, <2>3 DEF DraftWritten
    <2>5. issued <= issued' /\ \A t \in DOMAIN drafts : t # s => drafts'[t] = drafts[t]
      BY <1>6 DEF DraftWritten
    <2>6. Revised'
      BY <1>1, <1>6, <2>1 DEF DraftWritten, Revised
    <2>. QED BY <1>2, <1>6, <2>4, <2>5, <2>6 DEF DraftWritten, FenceInv
  <1>. QED BY <1>3, <1>4, <1>5, <1>6, StepChangesDrafts DEF DraftsChange

\* No item other than evidence is entered twice, whatever is retried.
LEMMA NoDuplicateNext ==
    ASSUME StationInv, NoDuplicateRow, [Next]_vars
    PROVE  NoDuplicateRow'
  <1>1. CASE DraftsKept
    BY <1>1 DEF DraftsKept, SameDraft, NoDuplicateRow
  <1>2. ASSUME NEW s, DraftOpened(s)
        PROVE  NoDuplicateRow'
    BY <1>2 DEF DraftOpened, NoDuplicateRow
  <1>3. ASSUME NEW s, DraftClaimed(s)
        PROVE  NoDuplicateRow'
    BY <1>3 DEF DraftClaimed, NoDuplicateRow
  <1>4. ASSUME NEW s, NEW x, DraftWritten(s, x)
        PROVE  NoDuplicateRow'
    BY <1>4 DEF DraftWritten, NoDuplicateRow
  <1>. QED BY <1>1, <1>2, <1>3, <1>4, StepChangesDrafts DEF DraftsChange

-----------------------------------------------------------------------------
(***************************************************************************)
(* What reports take from drafts and from earlier reports.                 *)
(***************************************************************************)

\* No report is added, and none loses more than its acknowledgement head.
ReportsSame ==
    /\ DOMAIN reports' = DOMAIN reports
    /\ \A r \in DOMAIN reports : SameReport(r)
    /\ \A s \in DOMAIN shifts : shifts'[s].current = shifts[s].current

ReportsChange ==
    \/ ReportsSame
    \/ \E d, s, r : Submission(d, s, r)
    \/ \E u, a, base, s, new, old : Approval(u, a, base, s, new, old)

\* A shift that exists keeps existing, backfilled or not.
ShiftsKept ==
    \A s \in DOMAIN shifts : s \in DOMAIN shifts' /\ shifts'[s].backfilled = shifts[s].backfilled

\* Every step adds no report, a first report or the next version of one.
LEMMA StepChangesReports ==
    ASSUME StationInv, [Next]_vars
    PROVE  ReportsChange
  <1>. TypeOK
    BY DEF StationInv
  <1>0. ASSUME UNCHANGED <<shifts, reports>>
        PROVE  ReportsChange
    BY <1>0 DEF ReportsChange, ReportsSame, SameReport
  <1>1. ASSUME NEW u \in Users, NEW b \in Backfills, OpenShift(u, b), UNCHANGED submissionVars
        PROVE  ReportsChange
    <2>1. NewShift(b) \in Shift
      BY BackfillsAssumption DEF NewShift, Shift, ShiftStatuses, ActiveStatuses, NoId
    <2>2. \A s \in DOMAIN shifts : shifts'[s] = shifts[s]
      BY <1>1, <2>1, RowInsert DEF OpenShift, TypeOK
    <2>. QED BY <1>1, <2>2 DEF ReportsChange, ReportsSame, SameReport, submissionVars
  <1>2. CASE DraftStep /\ UNCHANGED submissionVars
    <2>1. UNCHANGED <<shifts, reports>>
      BY <1>2, DraftWrites DEF DraftStep, Claim, Heartbeat, Write, ReadDetail, LeaseTick, submissionVars
    <2>. QED BY <1>0, <2>1
  <1>3. CASE SubmissionStep
    <2>1. CASE \E d \in Devices, k \in Keys, p \in Payloads : Submit(d, k, p)
      BY <2>1, SubmitEffect DEF ReportsChange
    <2>2. CASE \/ \E q \in Request : SubmitReplay(q) \/ SubmitAborts(q)
               \/ \E q \in failing : MarkSubmitFailed(q) \/ MarkIsLost(q)
      BY <1>0, <2>2 DEF SubmitReplay, SubmitAborts, MarkSubmitFailed, MarkIsLost, shiftVars
    <2>. QED BY <1>3, <2>1, <2>2 DEF SubmissionStep
  <1>4. CASE GovernanceStep
    <2>1. ASSUME NEW u \in Users, NEW s \in DOMAIN shifts, NEW decision \in Decisions,
                 Acknowledge(u, s, decision)
          PROVE  ReportsChange
      <3>1. Acknowledgement(u, s, decision, shifts[s].current, Len(acks) + 1)
        BY <2>1, AcknowledgeEffect
      <3>. QED BY <3>1 DEF Acknowledgement, ReportsChange, ReportsSame
    <2>2. ASSUME \/ \E u \in Users, s \in DOMAIN shifts, target \in Targets, b \in BOOLEAN :
                       RequestAmendment(u, s, target, b)
                 \/ \E u \in Users, a \in DOMAIN amendments : RejectAmendment(u, a)
                 \/ \E change \in RoleChanges :
                       AssignRole(change[1], change[2]) \/ RemoveRole(change[1], change[2])
          PROVE  ReportsChange
      BY <1>0, <2>2 DEF RequestAmendment, RejectAmendment, AssignRole, RemoveRole, shiftVars,
         submissionVars
    <2>3. ASSUME NEW u \in Users, NEW a \in DOMAIN amendments, ApproveAmendment(u, a)
          PROVE  ReportsChange
      BY <2>3, ApproveEffect DEF ReportsChange
    <2>. QED BY <1>4, <2>1, <2>2, <2>3 DEF GovernanceStep
  <1>5. CASE UNCHANGED vars
    BY <1>0, <1>5 DEF vars, shiftVars, submissionVars
  <1>. QED BY <1>1, <1>2, <1>3, <1>4, <1>5 DEF Next

\* No step makes a shift backfilled or takes that away.
LEMMA StepKeepsShifts ==
    ASSUME StationInv, [Next]_vars
    PROVE  ShiftsKept
  <1>. TypeOK
    BY DEF StationInv
  <1>0. ASSUME UNCHANGED shifts
        PROVE  ShiftsKept
    BY <1>0 DEF ShiftsKept
  <1>1. ASSUME NEW u \in Users, NEW b \in Backfills, OpenShift(u, b)
        PROVE  ShiftsKept
    <2>1. NewShift(b) \in Shift
      BY BackfillsAssumption DEF NewShift, Shift, ShiftStatuses, ActiveStatuses, NoId
    <2>. QED BY <1>1, <2>1, RowInsert DEF OpenShift, TypeOK, ShiftsKept
  <1>2. CASE DraftStep
    <2>1. UNCHANGED shifts
      BY <1>2, DraftWrites DEF DraftStep, Claim, Heartbeat, Write, ReadDetail, LeaseTick
    <2>. QED BY <1>0, <2>1
  <1>3. ASSUME NEW s \in DOMAIN shifts, NEW status, NEW current,
               shifts' = [shifts EXCEPT ![s].status = status, ![s].current = current]
        PROVE  ShiftsKept
    <2>. DEFINE new == [shifts[s] EXCEPT !.status = status, !.current = current]
    <2>1. shifts[s] \in Shift
      BY Ids
    <2>2. shifts' = [shifts EXCEPT ![s] = new]
      BY <1>3, <2>1 DEF TypeOK
    <2>3. new.backfilled = shifts[s].backfilled
      BY <2>1 DEF Shift
    <2>. HIDE DEF new
    <2>. QED BY <2>2, <2>3 DEF ShiftsKept, TypeOK
  <1>4. CASE SubmissionStep
    <2>1. ASSUME NEW d \in Devices, NEW k \in Keys, NEW p \in Payloads, Submit(d, k, p)
          PROVE  ShiftsKept
      BY <1>3, <2>1 DEF Submit
    <2>2. CASE \/ \E q \in Request : SubmitReplay(q) \/ SubmitAborts(q)
               \/ \E q \in failing : MarkSubmitFailed(q) \/ MarkIsLost(q)
      BY <1>0, <2>2 DEF SubmitReplay, SubmitAborts, MarkSubmitFailed, MarkIsLost, shiftVars
    <2>. QED BY <1>4, <2>1, <2>2 DEF SubmissionStep
  <1>5. CASE GovernanceStep
    <2>1. ASSUME NEW u \in Users, NEW s \in DOMAIN shifts, NEW decision \in Decisions,
                 Acknowledge(u, s, decision)
          PROVE  ShiftsKept
      <3>. DEFINE new == [shifts[s] EXCEPT !.status = Decided(decision)]
      <3>1. shifts[s] \in Shift
        BY Ids
      <3>2. shifts' = [shifts EXCEPT ![s] = new]
        BY <2>1, <3>1 DEF Acknowledge, TypeOK
      <3>3. new.backfilled = shifts[s].backfilled
        BY <3>1 DEF Shift
      <3>. HIDE DEF new
      <3>. QED BY <3>2, <3>3 DEF ShiftsKept, TypeOK
    <2>2. ASSUME \/ \E u \in Users, s \in DOMAIN shifts, target \in Targets, b \in BOOLEAN :
                       RequestAmendment(u, s, target, b)
                 \/ \E u \in Users, a \in DOMAIN amendments : RejectAmendment(u, a)
                 \/ \E change \in RoleChanges :
                       AssignRole(change[1], change[2]) \/ RemoveRole(change[1], change[2])
          PROVE  ShiftsKept
      BY <1>0, <2>2 DEF RequestAmendment, RejectAmendment, AssignRole, RemoveRole, shiftVars
    <2>3. ASSUME NEW u \in Users, NEW a \in DOMAIN amendments, ApproveAmendment(u, a)
          PROVE  ShiftsKept
      <3>1. amendments[a].shift \in DOMAIN shifts
        BY DEF StationInv, Links
      <3>. DEFINE s == amendments[a].shift
                  new == [shifts[s] EXCEPT !.current = Len(reports) + 1,
                                           !.status = "awaiting_confirmation"]
      <3>2. shifts[s] \in Shift
        BY <3>1, Ids
      <3>3. shifts' = [shifts EXCEPT ![s] = new]
        BY <2>3, <3>1, <3>2 DEF ApproveAmendment, TypeOK
      <3>4. new.backfilled = shifts[s].backfilled
        BY <3>2 DEF Shift
      <3>. HIDE DEF new
      <3>. QED BY <3>1, <3>3, <3>4 DEF ShiftsKept, TypeOK
    <2>. QED BY <1>5, <2>1, <2>2, <2>3 DEF GovernanceStep
  <1>6. CASE UNCHANGED vars
    BY <1>0, <1>6 DEF vars, shiftVars
  <1>. QED BY <1>1, <1>2, <1>4, <1>5, <1>6 DEF Next

\* Rows of a draft stay, and a row that is added is newer than all of them.
LEMMA DraftsGrow ==
    ASSUME StationInv, FenceInv, [Next]_vars, NEW s \in DOMAIN drafts
    PROVE  /\ s \in DOMAIN drafts'
           /\ drafts[s].rows \subseteq drafts'[s].rows
           /\ \A x \in drafts[s].rows, y \in drafts'[s].rows :
                 y.rev < x.rev => y \in drafts[s].rows
  <1>. TypeOK
    BY DEF StationInv
  <1>1. CASE DraftsKept
    BY <1>1 DEF DraftsKept, SameDraft
  <1>2. ASSUME NEW t, DraftOpened(t)
        PROVE  s \in DOMAIN drafts' /\ drafts'[s].rows = drafts[s].rows
    BY <1>2 DEF DraftOpened
  <1>3. ASSUME NEW t, DraftClaimed(t)
        PROVE  s \in DOMAIN drafts' /\ drafts'[s].rows = drafts[s].rows
    BY <1>3 DEF DraftClaimed
  <1>4. ASSUME NEW t, NEW y, DraftWritten(t, y), t # s
        PROVE  s \in DOMAIN drafts' /\ drafts'[s].rows = drafts[s].rows
    BY <1>4 DEF DraftWritten
  <1>5. ASSUME NEW y, DraftWritten(s, y)
        PROVE  /\ s \in DOMAIN drafts'
               /\ drafts'[s].rows = drafts[s].rows \cup {y}
               /\ \A x \in drafts[s].rows : ~(y.rev < x.rev)
    <2>1. drafts[s].revision \in Nat /\ y.rev = drafts[s].revision + 1
      BY <1>5, DraftTypes DEF DraftWritten, Draft
    <2>2. \A x \in drafts[s].rows : x.rev \in 2..drafts[s].revision
      BY DEF FenceInv, Fence
    <2>. QED BY <1>5, <2>1, <2>2 DEF DraftWritten
  <1>. QED BY <1>1, <1>2, <1>3, <1>4, <1>5, StepChangesDrafts DEF DraftsChange

\* The rows of the draft of shift s that version v of its report may hold.
Own(s, v) ==
    {x \in drafts[s].rows :
        /\ x.item[1] = "evidence" => v = 1
        /\ x.item[1] = "reading" => ~shifts[s].backfilled}

\* Report r holds its own rows up to some revision of the draft.
Prefix(r) ==
    \A x \in reports[r].rows :
        \/ x.item[1] = "reading" /\ shifts[reports[r].shift].backfilled
        \/ /\ x \in Own(reports[r].shift, reports[r].version)
           /\ \A y \in Own(reports[r].shift, reports[r].version) :
                 y.rev < x.rev => y \in reports[r].rows

\* A report exists, and so do its shift and its draft.
LEMMA ReportLinks ==
    ASSUME StationInv, NEW r \in DOMAIN reports
    PROVE  /\ reports[r].shift \in DOMAIN shifts
           /\ reports[r].shift \in DOMAIN drafts
           /\ reports[r].version \in Nat
           /\ reports[r].version >= 1
           /\ reports[r].rows \subseteq Row
           /\ shifts[reports[r].shift].status # "open"
           /\ shifts[reports[r].shift].current \in DOMAIN reports
  <1>. TypeOK
    BY DEF StationInv
  <1>1. /\ reports[r].shift \in DOMAIN shifts
        /\ shifts[reports[r].shift].current \in DOMAIN reports
    BY DEF StationInv, VersionChain, InChain
  <1>2. reports[r] \in Report
    BY Ids
  <1>3. reports[r].version >= 1
    <2>1. CASE reports[r].version = 1
      BY <2>1
    <2>2. CASE reports[r].version # 1
      <3>1. /\ reports[r].supersedes \in DOMAIN reports
            /\ reports[reports[r].supersedes].version + 1 = reports[r].version
        BY <2>2 DEF StationInv, VersionChain, InChain
      <3>2. reports[reports[r].supersedes] \in Report
        BY <3>1, Ids
      <3>. QED BY <3>1, <3>2 DEF Report
    <2>. QED BY <2>1, <2>2
  <1>. QED BY <1>1, <1>2, <1>3, OpenIsFresh DEF StationInv, Links, Report

\* The items of a row are of the four kinds.
LEMMA RowKinds ==
    ASSUME NEW x \in Row
    PROVE  x.item[1] \in {"reading", "sale", "loss", "evidence"}
  BY DEF Row, Item

\* No step breaks the prefix of a report, not even writes after its submission.
LEMMA PrefixNext ==
    ASSUME StationInv, FenceInv, ReportIsDraftPrefix, [Next]_vars
    PROVE  ReportIsDraftPrefix'
  <1>. TypeOK
    BY DEF StationInv
  <1>. DEFINE Grown(s) == /\ s \in DOMAIN drafts'
                          /\ drafts[s].rows \subseteq drafts'[s].rows
                          /\ \A x \in drafts[s].rows, y \in drafts'[s].rows :
                                y.rev < x.rev => y \in drafts[s].rows
                          /\ shifts'[s].backfilled = shifts[s].backfilled
  <1>1. ASSUME NEW s \in DOMAIN shifts
        PROVE  Grown(s)
    BY DraftsGrow, StepKeepsShifts DEF StationInv, Links, ShiftsKept
  <1>2. \A r \in DOMAIN reports : Prefix(r)
    BY DEF ReportIsDraftPrefix, Prefix, Own
  <1>3. ASSUME NEW r \in DOMAIN reports, SameReport(r)
        PROVE  Prefix(r)'
    <2>. DEFINE s == reports[r].shift
    <2>1. Grown(s) /\ Prefix(r)
      BY <1>1, <1>2, ReportLinks
    <2>. QED BY <1>3, <2>1 DEF SameReport, Prefix, Own
  <1>4. CASE ReportsSame
    BY <1>3, <1>4 DEF ReportsSame, ReportIsDraftPrefix, Prefix, Own
  <1>5. ASSUME NEW d, NEW s, NEW r, Submission(d, s, r)
        PROVE  ReportIsDraftPrefix'
    <2>1. Grown(s)
      BY <1>1, <1>5 DEF Submission
    <2>2. /\ reports'[r].shift = s
          /\ reports'[r].version = 1
          /\ reports'[r].rows = Promoted(s)
      BY <1>5 DEF Submission, FirstReport
    <2>3. drafts[s].rows \subseteq Row
      BY <1>5, DraftTypes DEF Submission, StationInv, Links, Draft
    <2>4. Prefix(r)'
      <3>1. CASE shifts[s].backfilled
        <4>1. Promoted(s) = Carried(s) \cup RowsOf({"sale", "loss", "evidence"}, drafts[s].rows)
          BY <3>1 DEF Promoted
        <4>2. \A x \in Carried(s) : x.item[1] = "reading"
          BY DEF Carried, RowsOf
        <4>3. \A x \in drafts[s].rows :
                 x.item[1] # "reading" => x \in Promoted(s)
          BY <2>3, <4>1, RowKinds DEF RowsOf
        <4>4. \A x \in Promoted(s) :
                 x.item[1] = "reading" \/ (x \in drafts[s].rows /\ x.item[1] # "reading")
          BY <4>1, <4>2 DEF RowsOf
        <4>. QED BY <2>1, <2>2, <3>1, <4>3, <4>4 DEF Prefix, Own
      <3>2. CASE ~shifts[s].backfilled
        <4>1. Promoted(s) = drafts[s].rows
          BY <3>2 DEF Promoted
        <4>. QED BY <2>1, <2>2, <3>2, <4>1 DEF Prefix, Own
      <3>. QED BY <3>1, <3>2
    <2>5. \A x \in DOMAIN reports : Prefix(x)'
      BY <1>3, <1>5 DEF Submission, SameReport
    <2>. QED BY <1>5, <2>4, <2>5 DEF Submission, ReportIsDraftPrefix, Prefix, Own
  <1>6. ASSUME NEW u, NEW a, NEW base, NEW s, NEW new, NEW old, Approval(u, a, base, s, new, old)
        PROVE  ReportIsDraftPrefix'
    <2>1. Grown(s)
      BY <1>1, <1>6 DEF Approval
    <2>2. /\ reports'[new].shift = s
          /\ reports'[new].version = reports[base].version + 1
          /\ reports'[new].rows = Figures(base)
      BY <1>6 DEF Approval, AmendedReport
    <2>3. /\ base \in DOMAIN reports
          /\ reports[base].shift = s
          /\ reports[base].version \in Nat /\ reports[base].version >= 1
          /\ s \in DOMAIN drafts
          /\ Prefix(base)
      BY <1>2, <1>6, ReportLinks DEF Approval
    <2>4. drafts[s].rows \subseteq Row
      BY <2>3, DraftTypes DEF Draft
    <2>5. \A y \in drafts[s].rows :
             y \in reports[base].rows /\ y.item[1] # "evidence" => y \in Figures(base)
      BY <2>4, RowKinds DEF Figures, RowsOf
    <2>6. \A x \in Figures(base) : x \in reports[base].rows /\ x.item[1] # "evidence"
      BY DEF Figures, RowsOf
    <2>7. Prefix(new)'
      BY <2>1, <2>2, <2>3, <2>5, <2>6 DEF Prefix, Own
    <2>8. \A x \in DOMAIN reports : Prefix(x)'
      BY <1>3, <1>6 DEF Approval
    <2>. QED BY <1>6, <2>7, <2>8 DEF Approval, ReportIsDraftPrefix, Prefix, Own
  <1>. QED BY <1>4, <1>5, <1>6, StepChangesReports DEF ReportsChange

\* Reading x was entered in shift t, before s, and stands in its current
\* report; a report of t was acknowledged.
Origin(x, s, t) ==
    /\ t \in DOMAIN shifts
    /\ t < s
    /\ ~shifts[t].backfilled
    /\ x \in drafts[t].rows
    /\ x \in reports[shifts[t].current].rows
    /\ \E a \in DOMAIN acks :
          acks[a].decision = "acked" /\ reports[acks[a].report].shift = t

\* Amendments of the origin of a reading keep it there: a new version takes
\* over all readings of its base.
LEMMA OriginKept ==
    ASSUME StationInv, FenceInv, [Next]_vars, NEW x, x.item[1] = "reading",
           NEW s, NEW t, Origin(x, s, t)
    PROVE  Origin(x, s, t)'
  <1>. TypeOK
    BY DEF StationInv
  <1>1. PICK a \in DOMAIN acks : acks[a].decision = "acked" /\ reports[acks[a].report].shift = t
    BY DEF Origin
  <1>2. acks[a].report \in DOMAIN reports
    BY DEF StationInv, DecisionLedger, InLedger
  <1>3. /\ t \in DOMAIN shifts
        /\ shifts[t].status # "open"
        /\ shifts[t].current \in DOMAIN reports
        /\ reports[shifts[t].current].shift = t
        /\ shifts[t].current # NoId
    BY <1>1, <1>2, ReportLinks, CurrentReport, Ids DEF Origin
  <1>4. /\ t \in DOMAIN shifts'
        /\ ~shifts'[t].backfilled
        /\ x \in drafts'[t].rows
    BY <1>3, StepKeepsShifts, DraftsGrow DEF Origin, ShiftsKept, StationInv, Links
  <1>5. \E b \in DOMAIN acks' :
           acks'[b].decision = "acked" /\ reports'[acks'[b].report].shift = t
    <2>1. /\ a \in DOMAIN acks'
          /\ acks'[a] = [acks[a] EXCEPT !.supersededBy = acks'[a].supersededBy]
      BY StepKeepsDecisions DEF DecisionsKept
    <2>2. acks[a] \in Ack /\ reports[acks[a].report] \in Report
      BY <1>2, Ids
    <2>3. acks'[a].decision = acks[a].decision /\ acks'[a].report = acks[a].report
      BY <2>1, <2>2 DEF Ack
    <2>4. reports'[acks[a].report].shift = t
      <3>1. reports'[acks[a].report] =
                [reports[acks[a].report] EXCEPT !.ack = reports'[acks[a].report].ack]
        BY <1>2, StepKeepsReports DEF ReportsKept
      <3>. QED BY <1>1, <2>2, <3>1 DEF Report
    <2>. QED BY <1>1, <2>1, <2>3, <2>4
  <1>6. x \in reports'[shifts'[t].current].rows
    <2>0. x \in reports[shifts[t].current].rows
      BY DEF Origin
    <2>1. CASE ReportsSame
      BY <1>3, <2>0, <2>1 DEF ReportsSame, SameReport
    <2>2. ASSUME NEW d, NEW o, NEW r, Submission(d, o, r)
          PROVE  x \in reports'[shifts'[t].current].rows
      BY <1>3, <2>0, <2>2 DEF Submission
    <2>3. ASSUME NEW u, NEW b, NEW base, NEW o, NEW new, NEW old,
                 Approval(u, b, base, o, new, old)
          PROVE  x \in reports'[shifts'[t].current].rows
      <3>1. CASE t = o
        <4>1. shifts[t].current = base /\ shifts'[t].current = new
          BY <2>3, <3>1 DEF Approval
        <4>2. reports'[new].rows = Figures(base)
          BY <2>3 DEF Approval, AmendedReport
        <4>. QED BY <2>0, <4>1, <4>2 DEF Figures, RowsOf
      <3>2. CASE t # o
        BY <1>3, <2>0, <2>3, <3>2 DEF Approval, SameReport
      <3>. QED BY <3>1, <3>2
    <2>. QED BY <2>1, <2>2, <2>3, StepChangesReports DEF ReportsChange
  <1>. QED BY <1>4, <1>5, <1>6 DEF Origin

\* What a backfilled report is about to carry has an origin: the last locked
\* shift, or the origin that its own carried reading has.
LEMMA CarriedOrigin ==
    ASSUME StationInv, ReportIsDraftPrefix, CarriedReadingHasOrigin,
           NEW s \in DOMAIN shifts, NEW x \in Carried(s)
    PROVE  x.item[1] = "reading" /\ \E t : Origin(x, s, t)
  <1>. TypeOK
    BY DEF StationInv
  <1>1. x.item[1] = "reading"
    BY DEF Carried, RowsOf
  <1>2. PICK t \in LastLocked(s) : x \in reports[shifts[t].current].rows
    BY DEF Carried, RowsOf
  <1>3. t \in DOMAIN shifts /\ t < s /\ shifts[t].status = "locked"
    BY <1>2 DEF LastLocked
  <1>4. /\ shifts[t].current \in DOMAIN reports
        /\ reports[shifts[t].current].shift = t
        /\ reports[shifts[t].current].ack # NoId
        /\ reports[shifts[t].current].ack \in DOMAIN acks
        /\ acks[reports[shifts[t].current].ack].decision = "acked"
    BY <1>3 DEF StationInv, StatusMatchesDecision, StatusIsRight, Decided
  <1>5. acks[reports[shifts[t].current].ack].report = shifts[t].current
    BY <1>4 DEF StationInv, Links
  <1>6. CASE shifts[t].backfilled
    <2>1. PICK o : Origin(x, t, o)
      BY <1>1, <1>2, <1>4, <1>6 DEF CarriedReadingHasOrigin, Origin
    <2>2. o < s
      BY <1>3, <2>1, Ids DEF Origin
    <2>. QED BY <1>1, <2>1, <2>2 DEF Origin
  <1>7. CASE ~shifts[t].backfilled
    <2>1. x \in drafts[t].rows
      BY <1>1, <1>2, <1>4, <1>7 DEF ReportIsDraftPrefix
    <2>2. Origin(x, s, t)
      BY <1>2, <1>3, <1>4, <1>5, <1>7, <2>1 DEF Origin
    <2>. QED BY <1>1, <2>2
  <1>. QED BY <1>6, <1>7

\* Every carried reading keeps an origin.
LEMMA CarriedNext ==
    ASSUME StationInv, FenceInv, ReportIsDraftPrefix, CarriedReadingHasOrigin, [Next]_vars
    PROVE  CarriedReadingHasOrigin'
  <1>. TypeOK
    BY DEF StationInv
  <1>. DEFINE Traced(r) == \A x \in reports[r].rows :
                 x.item[1] = "reading" /\ shifts[reports[r].shift].backfilled =>
                     \E t : Origin(x, reports[r].shift, t)
  <1>1. \A r \in DOMAIN reports : Traced(r)
    BY DEF CarriedReadingHasOrigin, Origin
  <1>2. SUFFICES ASSUME NEW r \in DOMAIN reports'
                 PROVE  Traced(r)'
    BY DEF CarriedReadingHasOrigin, Origin
  <1>3. \A s \in DOMAIN shifts : shifts'[s].backfilled = shifts[s].backfilled
    BY StepKeepsShifts DEF ShiftsKept
  <1>4. ASSUME r \in DOMAIN reports, SameReport(r)
        PROVE  Traced(r)'
    <2>1. reports[r].shift \in DOMAIN shifts
      BY <1>4, ReportLinks
    <2>. QED BY <1>1, <1>3, <1>4, <2>1, OriginKept DEF SameReport
  <1>5. CASE ReportsSame
    BY <1>4, <1>5 DEF ReportsSame
  <1>6. ASSUME NEW d, NEW s, NEW new, Submission(d, s, new)
        PROVE  Traced(r)'
    <2>1. CASE r \in DOMAIN reports
      BY <1>4, <1>6, <2>1 DEF Submission, SameReport
    <2>2. CASE r = new
      <3>1. /\ s \in DOMAIN shifts
            /\ reports'[r].shift = s
            /\ reports'[r].rows = Promoted(s)
        BY <1>6, <2>2 DEF Submission, FirstReport
      <3>2. shifts[s].backfilled =>
               \A x \in Promoted(s) : x.item[1] = "reading" => x \in Carried(s)
        BY DEF Promoted, RowsOf
      <3>. QED BY <1>3, <3>1, <3>2, CarriedOrigin, OriginKept
    <2>. QED BY <1>6, <2>1, <2>2 DEF Submission
  <1>7. ASSUME NEW u, NEW a, NEW base, NEW s, NEW new, NEW old, Approval(u, a, base, s, new, old)
        PROVE  Traced(r)'
    <2>1. CASE r \in DOMAIN reports
      BY <1>4, <1>7, <2>1 DEF Approval
    <2>2. CASE r = new
      <3>1. /\ s \in DOMAIN shifts
            /\ base \in DOMAIN reports
            /\ reports[base].shift = s
            /\ reports'[r].shift = s
            /\ reports'[r].rows \subseteq reports[base].rows
        BY <1>7, <2>2 DEF Approval, AmendedReport, Figures, RowsOf
      <3>. QED BY <1>1, <1>3, <3>1, OriginKept
    <2>. QED BY <1>7, <2>1, <2>2 DEF Approval
  <1>. QED BY <1>5, <1>6, <1>7, StepChangesReports DEF ReportsChange

-----------------------------------------------------------------------------
(***************************************************************************)
(* Idempotency keys.                                                       *)
(***************************************************************************)

\* The fate of the keys: one per shift and key, and a success names the first
\* report of its shift.  A replay reads the latter from the row.
KeyInv ==
    /\ \A x, y \in idem : x.shift = y.shift /\ x.key = y.key => x = y
    /\ \A x \in idem :
          x.status = "succeeded" =>
              /\ x.report \in DOMAIN reports
              /\ reports[x.report].shift = x.shift
              /\ reports[x.report].version = 1
    /\ \A a \in answers : IdemRow(a, "succeeded", a.report) \in idem

\* A row that has failed is not changed by a second failure.
LEMMA MarkAddsOnly ==
    ASSUME TypeOK, NEW q
    PROVE  \/ MarkedFailed(q) = idem
           \/ /\ IdemRows(q) = {}
              /\ MarkedFailed(q) = idem \cup {IdemRow(q, "failed", NoId)}
  <1>1. CASE IdemRows(q) = {}
    BY <1>1 DEF MarkedFailed
  <1>2. CASE IdemRows(q) # {}
    <2>1. ASSUME NEW row \in idem, row.status # "succeeded"
          PROVE  [row EXCEPT !.status = "failed"] = row
      <3>1. row \in Idem /\ row.status = "failed"
        BY <2>1 DEF TypeOK, Idem
      <3>. QED BY <3>1 DEF Idem
    <2>. QED BY <1>2, <2>1 DEF MarkedFailed
  <1>. QED BY <1>1, <1>2

\* Reports that a key names keep their shift and their version.
LEMMA KeysFollow ==
    ASSUME StationInv, KeyInv, [Next]_vars, UNCHANGED <<idem, answers>>
    PROVE  KeyInv'
  <1>1. ASSUME NEW r \in DOMAIN reports
        PROVE  /\ r \in DOMAIN reports'
               /\ reports'[r].shift = reports[r].shift
               /\ reports'[r].version = reports[r].version
    <2>1. reports[r] \in Report
      BY Ids DEF StationInv
    <2>2. r \in DOMAIN reports' /\ reports'[r] = [reports[r] EXCEPT !.ack = reports'[r].ack]
      BY StepKeepsReports DEF ReportsKept
    <2>. QED BY <2>1, <2>2 DEF Report
  <1>. QED BY <1>1 DEF KeyInv, IdemRow

\* Keys keep one fate through submissions, replays, rollbacks and late marks.
LEMMA KeyNext ==
    ASSUME StationInv, KeyInv, [Next]_vars
    PROVE  KeyInv'
  <1>. TypeOK
    BY DEF StationInv
  <1>1. CASE SubmissionStep
    <2>1. ASSUME NEW d \in Devices, NEW k \in Keys, NEW p \in Payloads, Submit(d, k, p)
          PROVE  KeyInv'
      <3>. DEFINE s == known[d].shift
                  q == [shift |-> s, key |-> k, hash |-> p]
                  r == Len(reports) + 1
                  row == IdemRow(q, "succeeded", r)
      <3>1. Submission(d, s, r)
        BY <2>1, SubmitEffect
      <3>2. /\ r \in DOMAIN reports'
            /\ reports'[r].shift = s
            /\ reports'[r].version = 1
            /\ \A x \in DOMAIN reports : x \in DOMAIN reports' /\ reports'[x] = reports[x]
        BY <3>1 DEF Submission, FirstReport
      <3>3. /\ idem' = idem \cup {row}
            /\ answers' = answers \cup {Success(q, r)}
            /\ \A x \in idem : ~(x.shift = s /\ x.key = k)
        BY <2>1 DEF Submit, IdemRows
      <3>4. row.shift = s /\ row.key = k /\ row.report = r
        BY DEF IdemRow
      <3>5. IdemRow(Success(q, r), "succeeded", Success(q, r).report) = row
        BY DEF IdemRow, Success
      <3>. HIDE DEF row, q
      <3>6. \A x, y \in idem' : x.shift = y.shift /\ x.key = y.key => x = y
        BY <3>3, <3>4 DEF KeyInv
      <3>7. \A x \in idem' :
               x.status = "succeeded" =>
                   /\ x.report \in DOMAIN reports'
                   /\ reports'[x.report].shift = x.shift
                   /\ reports'[x.report].version = 1
        BY <3>2, <3>3, <3>4 DEF KeyInv
      <3>8. \A a \in answers' : IdemRow(a, "succeeded", a.report) \in idem'
        BY <3>3, <3>5 DEF KeyInv
      <3>. QED BY <3>6, <3>7, <3>8 DEF KeyInv, IdemRow
    <2>2. ASSUME NEW q \in Request, SubmitReplay(q)
          PROVE  KeyInv'
      <3>1. PICK row \in IdemRows(q) :
               /\ row.hash = q.hash
               /\ row.status = "succeeded"
               /\ answers' = answers \cup {Success(q, row.report)}
        BY <2>2 DEF SubmitReplay
      <3>2. row \in idem /\ row \in Idem /\ row.shift = q.shift /\ row.key = q.key
        BY <3>1 DEF IdemRows, TypeOK
      <3>3. IdemRow(Success(q, row.report), "succeeded", Success(q, row.report).report) = row
        BY <3>1, <3>2 DEF IdemRow, Success, Idem
      <3>4. UNCHANGED <<idem, reports>>
        BY <2>2 DEF SubmitReplay
      <3>. QED BY <3>1, <3>2, <3>3, <3>4 DEF KeyInv, IdemRow
    <2>3. ASSUME NEW q \in Request, SubmitAborts(q)
          PROVE  KeyInv'
      BY <2>3, KeysFollow DEF SubmitAborts
    <2>4. ASSUME NEW q \in failing, MarkSubmitFailed(q)
          PROVE  KeyInv'
      <3>1. UNCHANGED <<answers, reports>> /\ idem' = MarkedFailed(q)
        BY <2>4 DEF MarkSubmitFailed
      <3>2. CASE MarkedFailed(q) = idem
        BY <3>1, <3>2, KeysFollow
      <3>3. CASE /\ IdemRows(q) = {}
                 /\ MarkedFailed(q) = idem \cup {IdemRow(q, "failed", NoId)}
        <4>. DEFINE row == IdemRow(q, "failed", NoId)
        <4>1. row.shift = q.shift /\ row.key = q.key /\ row.status = "failed"
          BY DEF IdemRow
        <4>2. \A x \in idem : ~(x.shift = q.shift /\ x.key = q.key)
          BY <3>3 DEF IdemRows
        <4>. HIDE DEF row
        <4>3. idem' = idem \cup {row}
          BY <3>1, <3>3 DEF row
        <4>. QED BY <3>1, <4>1, <4>2, <4>3 DEF KeyInv, IdemRow
      <3>. QED BY <3>2, <3>3, MarkAddsOnly
    <2>5. ASSUME NEW q \in failing, MarkIsLost(q)
          PROVE  KeyInv'
      BY <2>5, KeysFollow DEF MarkIsLost
    <2>. QED BY <1>1, <2>1, <2>2, <2>3, <2>4, <2>5 DEF SubmissionStep
  <1>2. CASE GovernanceStep
    <2>1. UNCHANGED <<idem, answers>>
      BY <1>2 DEF GovernanceStep, Acknowledge, RequestAmendment, RejectAmendment, ApproveAmendment,
         AssignRole, RemoveRole, submissionVars
    <2>. QED BY <2>1, KeysFollow
  <1>3. CASE UNCHANGED submissionVars
    BY <1>3, KeysFollow DEF submissionVars
  <1>. QED BY <1>1, <1>2, <1>3 DEF Next, vars

-----------------------------------------------------------------------------
(***************************************************************************)
(* Separation of duties.                                                   *)
(***************************************************************************)

\* A decision once made by the right person stays so: reports and decisions
\* keep who wrote them.
LEMMA SeparationNext ==
    ASSUME StationInv, SeparationOfDuties, [Next]_vars
    PROVE  SeparationOfDuties'
  <1>. TypeOK
    BY DEF StationInv
  <1>. DEFINE Impartial(a) ==
                 /\ reports[acks[a].report].submittedBy # acks[a].by
                 /\ \A x \in reports[acks[a].report].rows :
                       x.item[1] \in {"sale", "loss"} => x.by # acks[a].by
              Separate(a) ==
                 amendments[a].requester \in amendments[a].approver =>
                     amendments[a].status = "approved" /\ amendments[a].breakGlass
  <1>1. ASSUME NEW a \in DOMAIN acks
        PROVE  Impartial(a)'
    <2>1. acks[a].report \in DOMAIN reports
      BY DEF StationInv, DecisionLedger, InLedger
    <2>2. acks[a] \in Ack /\ reports[acks[a].report] \in Report
      BY <2>1, Ids
    <2>3. acks'[a] = [acks[a] EXCEPT !.supersededBy = acks'[a].supersededBy]
      BY StepKeepsDecisions DEF DecisionsKept
    <2>4. acks'[a].report = acks[a].report /\ acks'[a].by = acks[a].by
      BY <2>2, <2>3 DEF Ack
    <2>5. reports'[acks[a].report] =
             [reports[acks[a].report] EXCEPT !.ack = reports'[acks[a].report].ack]
      BY <2>1, StepKeepsReports DEF ReportsKept
    <2>6. /\ reports'[acks[a].report].submittedBy = reports[acks[a].report].submittedBy
          /\ reports'[acks[a].report].rows = reports[acks[a].report].rows
      BY <2>2, <2>5 DEF Report
    <2>. QED BY <2>4, <2>6 DEF SeparationOfDuties
  <1>2. CASE GovernanceStep
    <2>1. ASSUME NEW u \in Users, NEW s \in DOMAIN shifts, NEW decision \in Decisions,
                 Acknowledge(u, s, decision)
          PROVE  SeparationOfDuties'
      <3>. PICK r, a : r = shifts[s].current /\ a = Len(acks) + 1
        OBVIOUS
      <3>1. Acknowledgement(u, s, decision, r, a)
        BY <2>1, AcknowledgeEffect
      <3>2. /\ reports[r].submittedBy # u
            /\ \A x \in reports[r].rows : x.item[1] \in {"sale", "loss"} => x.by # u
            /\ UNCHANGED amendments
        BY <2>1 DEF Acknowledge, CreatedReportData, RowsOf
      <3>3. Impartial(a)'
        BY <3>1, <3>2 DEF Acknowledgement, SameReport
      <3>4. DOMAIN acks' = DOMAIN acks \cup {a}
        BY <3>1 DEF Acknowledgement
      <3>. QED BY <1>1, <3>2, <3>3, <3>4 DEF SeparationOfDuties
    <2>2. ASSUME NEW u \in Users, NEW s \in DOMAIN shifts, NEW target \in Targets,
                 NEW breakGlass \in BOOLEAN, RequestAmendment(u, s, target, breakGlass)
          PROVE  SeparationOfDuties'
      <3>1. AmendmentRequest(s, shifts[s].current, Len(amendments) + 1)
        BY <2>2, RequestEffect
      <3>2. amendments'[Len(amendments) + 1].approver = {}
        BY <2>2, Ids DEF RequestAmendment, TypeOK
      <3>3. UNCHANGED acks
        BY <2>2 DEF RequestAmendment
      <3>. QED BY <1>1, <3>1, <3>2, <3>3 DEF AmendmentRequest, SeparationOfDuties
    <2>3. ASSUME NEW u \in Users, NEW a \in DOMAIN amendments, RejectAmendment(u, a)
          PROVE  SeparationOfDuties'
      <3>1. amendments[a].requester # u /\ UNCHANGED acks
        BY <2>3 DEF RejectAmendment
      <3>. QED BY <1>1, <2>3, <3>1, RejectEffect DEF SameRequest, SeparationOfDuties
    <2>4. ASSUME NEW u \in Users, NEW a \in DOMAIN amendments, ApproveAmendment(u, a)
          PROVE  SeparationOfDuties'
      <3>1. PICK base, s, new, old : Approval(u, a, base, s, new, old)
        BY <2>4, ApproveEffect
      <3>2. amendments[a].requester # u \/ amendments[a].breakGlass
        BY <2>4 DEF ApproveAmendment, MayApprove
      <3>3. /\ DOMAIN amendments' = DOMAIN amendments
            /\ \A b \in DOMAIN amendments : b # a => amendments'[b] = amendments[b]
            /\ amendments'[a].requester = amendments[a].requester
            /\ amendments'[a].breakGlass = amendments[a].breakGlass
            /\ amendments'[a].status = "approved"
            /\ amendments'[a].approver = {u}
        BY <3>1 DEF Approval, SameRequest
      <3>4. \A b \in DOMAIN amendments' : Separate(b)'
        BY <3>2, <3>3 DEF SeparationOfDuties
      <3>5. DOMAIN acks' = DOMAIN acks
        BY <3>1 DEF Approval
      <3>. QED BY <1>1, <3>4, <3>5 DEF SeparationOfDuties
    <2>5. ASSUME NEW change \in RoleChanges,
                 AssignRole(change[1], change[2]) \/ RemoveRole(change[1], change[2])
          PROVE  SeparationOfDuties'
      BY <1>1, <2>5 DEF AssignRole, RemoveRole, SeparationOfDuties
    <2>. QED BY <1>2, <2>1, <2>2, <2>3, <2>4, <2>5 DEF GovernanceStep
  <1>3. CASE UNCHANGED governanceVars
    BY <1>1, <1>3 DEF governanceVars, SeparationOfDuties
  <1>. QED BY <1>2, <1>3 DEF Next, vars

-----------------------------------------------------------------------------
(***************************************************************************)
(* The audit events, kind by kind.                                         *)
(***************************************************************************)

FirstReports == {r \in DOMAIN reports : reports[r].version = 1}
LaterReports == {r \in DOMAIN reports : reports[r].version > 1}
RejectedAmendments == {a \in DOMAIN amendments : amendments[a].status = "rejected"}

\* The events of one kind about these rows.
Events(kind, ids) == {<<kind, i>> : i \in ids}

\* One more row, one more event.
LEMMA EventAdded ==
    ASSUME NEW kind, NEW ids, NEW i
    PROVE  Events(kind, ids \cup {i}) = Events(kind, ids) \cup {<<kind, i>>}
  BY DEF Events

Expected ==
    Events("shift.opened", DOMAIN shifts)
      \cup Events("report.submitted", FirstReports)
      \cup Events("amendment.approved", LaterReports)
      \cup Events("report.acknowledged", DOMAIN acks)
      \cup Events("amendment.requested", DOMAIN amendments)
      \cup Events("amendment.rejected", RejectedAmendments)

\* AuditMatchesTables says that the audit log is this set of events.
LEMMA AuditIsExpected == AuditMatchesTables <=> audit = Expected
  BY DEF AuditMatchesTables, Expected, Events, FirstReports, LaterReports, RejectedAmendments

\* Every operation adds its row and its event in one step.
LEMMA AuditNext ==
    ASSUME StationInv, AuditMatchesTables, [Next]_vars
    PROVE  AuditMatchesTables'
  <1>. TypeOK
    BY DEF StationInv
  <1>. audit = Expected
    BY AuditIsExpected
  <1>. SUFFICES audit' = Expected'
    BY DEF AuditMatchesTables, Expected, Events, FirstReports, LaterReports, RejectedAmendments
  <1>0. ASSUME UNCHANGED <<shifts, reports, acks, amendments, audit>>
        PROVE  audit' = Expected'
    BY <1>0 DEF Expected, FirstReports, LaterReports, RejectedAmendments
  <1>1. ASSUME NEW u \in Users, NEW b \in Backfills, OpenShift(u, b),
               UNCHANGED <<draftVars, submissionVars, governanceVars>>
        PROVE  audit' = Expected'
    <2>1. NewShift(b) \in Shift
      BY BackfillsAssumption DEF NewShift, Shift, ShiftStatuses, ActiveStatuses, NoId
    <2>2. DOMAIN shifts' = DOMAIN shifts \cup {Len(shifts) + 1}
      BY <1>1, <2>1, RowInsert DEF OpenShift, TypeOK
    <2>3. FirstReports' = FirstReports /\ LaterReports' = LaterReports
          /\ DOMAIN acks' = DOMAIN acks /\ DOMAIN amendments' = DOMAIN amendments
          /\ RejectedAmendments' = RejectedAmendments
      BY <1>1 DEF submissionVars, governanceVars, FirstReports, LaterReports, RejectedAmendments
    <2>4. audit' = audit \cup {<<"shift.opened", Len(shifts) + 1>>}
      BY <1>1 DEF OpenShift
    <2>. QED BY <2>2, <2>3, <2>4, EventAdded DEF Expected
  <1>2. CASE DraftStep /\ UNCHANGED <<submissionVars, governanceVars>>
    <2>1. UNCHANGED <<shifts, reports, acks, amendments, audit>>
      BY <1>2, DraftWrites DEF DraftStep, Claim, Heartbeat, Write, ReadDetail, LeaseTick,
         submissionVars, governanceVars
    <2>. QED BY <1>0, <2>1
  <1>3. ASSUME NEW d \in Devices, NEW k \in Keys, NEW p \in Payloads, Submit(d, k, p),
               UNCHANGED governanceVars
        PROVE  audit' = Expected'
    <2>. PICK r : r = Len(reports) + 1
      OBVIOUS
    <2>1. Submission(d, known[d].shift, r)
      BY <1>3, SubmitEffect
    <2>2. /\ reports'[r].version = 1
          /\ DOMAIN reports' = DOMAIN reports \cup {r}
          /\ \A x \in DOMAIN reports : reports'[x] = reports[x]
          /\ DOMAIN shifts' = DOMAIN shifts
      BY <2>1 DEF Submission, FirstReport
    <2>3. FirstReports' = FirstReports \cup {r} /\ LaterReports' = LaterReports
      BY <2>2 DEF FirstReports, LaterReports
    <2>4. DOMAIN acks' = DOMAIN acks /\ DOMAIN amendments' = DOMAIN amendments
          /\ RejectedAmendments' = RejectedAmendments
      BY <1>3 DEF governanceVars, RejectedAmendments
    <2>5. audit' = audit \cup {<<"report.submitted", r>>}
      BY <1>3 DEF Submit
    <2>9. Events("report.submitted", FirstReports') =
              Events("report.submitted", FirstReports) \cup {<<"report.submitted", r>>}
      BY <2>3, EventAdded
    <2>. QED BY <2>2, <2>3, <2>4, <2>5, <2>9 DEF Expected
  <1>4. CASE /\ \/ \E q \in Request : SubmitReplay(q) \/ SubmitAborts(q)
                \/ \E q \in failing : MarkSubmitFailed(q) \/ MarkIsLost(q)
             /\ UNCHANGED governanceVars
    <2>1. UNCHANGED <<shifts, reports, acks, amendments, audit>>
      BY <1>4 DEF SubmitReplay, SubmitAborts, MarkSubmitFailed, MarkIsLost, shiftVars, governanceVars
    <2>. QED BY <1>0, <2>1
  <1>5. ASSUME NEW u \in Users, NEW s \in DOMAIN shifts, NEW decision \in Decisions,
               Acknowledge(u, s, decision)
        PROVE  audit' = Expected'
    <2>. PICK r, a : r = shifts[s].current /\ a = Len(acks) + 1
      OBVIOUS
    <2>1. Acknowledgement(u, s, decision, r, a)
      BY <1>5, AcknowledgeEffect
    <2>2. /\ DOMAIN acks' = DOMAIN acks \cup {a}
          /\ DOMAIN reports' = DOMAIN reports
          /\ \A x \in DOMAIN reports : reports'[x].version = reports[x].version
          /\ DOMAIN shifts' = DOMAIN shifts
      BY <2>1 DEF Acknowledgement, SameReport
    <2>3. FirstReports' = FirstReports /\ LaterReports' = LaterReports
      BY <2>2 DEF FirstReports, LaterReports
    <2>4. DOMAIN amendments' = DOMAIN amendments /\ RejectedAmendments' = RejectedAmendments
      BY <1>5 DEF Acknowledge, RejectedAmendments
    <2>5. audit' = audit \cup {<<"report.acknowledged", a>>}
      BY <1>5 DEF Acknowledge
    <2>9. Events("report.acknowledged", DOMAIN acks') =
              Events("report.acknowledged", DOMAIN acks) \cup {<<"report.acknowledged", a>>}
      BY <2>2, SMT DEF Events
    <2>. QED BY <2>2, <2>3, <2>4, <2>5, <2>9 DEF Expected
  <1>6. ASSUME NEW u \in Users, NEW s \in DOMAIN shifts, NEW target \in Targets,
               NEW breakGlass \in BOOLEAN, RequestAmendment(u, s, target, breakGlass)
        PROVE  audit' = Expected'
    <2>. PICK a : a = Len(amendments) + 1
      OBVIOUS
    <2>1. AmendmentRequest(s, shifts[s].current, a)
      BY <1>6, RequestEffect
    <2>2. /\ DOMAIN amendments' = DOMAIN amendments \cup {a}
          /\ RejectedAmendments' = RejectedAmendments
      BY <2>1 DEF AmendmentRequest, RejectedAmendments
    <2>3. /\ audit' = audit \cup {<<"amendment.requested", a>>}
          /\ UNCHANGED <<shifts, reports, acks>>
      BY <1>6 DEF RequestAmendment, submissionVars
    <2>4. FirstReports' = FirstReports /\ LaterReports' = LaterReports
      BY <2>3 DEF FirstReports, LaterReports
    <2>9. Events("amendment.requested", DOMAIN amendments') =
              Events("amendment.requested", DOMAIN amendments) \cup {<<"amendment.requested", a>>}
      BY <2>2, SMT DEF Events
    <2>. QED BY <2>2, <2>3, <2>4, <2>9 DEF Expected
  <1>7. ASSUME NEW u \in Users, NEW a \in DOMAIN amendments, RejectAmendment(u, a)
        PROVE  audit' = Expected'
    <2>1. /\ DOMAIN amendments' = DOMAIN amendments
          /\ \A b \in DOMAIN amendments : b # a => amendments'[b] = amendments[b]
          /\ amendments'[a].status = "rejected"
      BY <1>7, RejectEffect
    <2>2. RejectedAmendments' = RejectedAmendments \cup {a}
      BY <2>1 DEF RejectedAmendments
    <2>3. /\ audit' = audit \cup {<<"amendment.rejected", a>>}
          /\ UNCHANGED <<shifts, reports, acks>>
      BY <1>7 DEF RejectAmendment, submissionVars
    <2>4. FirstReports' = FirstReports /\ LaterReports' = LaterReports
      BY <2>3 DEF FirstReports, LaterReports
    <2>9. Events("amendment.rejected", RejectedAmendments') = Events("amendment.rejected", RejectedAmendments) \cup {<<"amendment.rejected", a>>}
      BY <2>2, EventAdded
    <2>. QED BY <2>1, <2>2, <2>3, <2>4, <2>9 DEF Expected
  <1>8. ASSUME NEW u \in Users, NEW a \in DOMAIN amendments, ApproveAmendment(u, a)
        PROVE  audit' = Expected'
    <2>. PICK new, base, s, old : /\ new = Len(reports) + 1
                                  /\ Approval(u, a, base, s, new, old)
      BY <1>8, ApproveEffect
    <2>1. /\ base \in DOMAIN reports
          /\ DOMAIN reports' = DOMAIN reports \cup {new}
          /\ \A x \in DOMAIN reports : reports'[x].version = reports[x].version
          /\ reports'[new].version = reports[base].version + 1
          /\ DOMAIN shifts' = DOMAIN shifts
          /\ DOMAIN acks' = DOMAIN acks
      BY DEF Approval, SameReport, AmendedReport
    <2>2. reports'[new].version > 1 /\ reports'[new].version # 1
      BY <2>1, ReportLinks
    <2>3. FirstReports' = FirstReports /\ LaterReports' = LaterReports \cup {new}
      BY <2>1, <2>2 DEF FirstReports, LaterReports
    <2>4. /\ DOMAIN amendments' = DOMAIN amendments
          /\ amendments[a].status = "pending"
          /\ amendments'[a].status = "approved"
          /\ \A b \in DOMAIN amendments : b # a => amendments'[b] = amendments[b]
      BY DEF Approval
    <2>5. RejectedAmendments' = RejectedAmendments
      BY <2>4 DEF RejectedAmendments
    <2>6. audit' = audit \cup {<<"amendment.approved", new>>}
      BY <1>8 DEF ApproveAmendment
    <2>9. Events("amendment.approved", LaterReports') = Events("amendment.approved", LaterReports) \cup {<<"amendment.approved", new>>}
      BY <2>3, EventAdded
    <2>. QED BY <2>1, <2>3, <2>4, <2>5, <2>6, <2>9 DEF Expected
  <1>9. ASSUME NEW change \in RoleChanges,
               AssignRole(change[1], change[2]) \/ RemoveRole(change[1], change[2])
        PROVE  audit' = Expected'
    BY <1>0, <1>9 DEF AssignRole, RemoveRole, shiftVars, submissionVars
  <1>10. CASE UNCHANGED vars
    BY <1>0, <1>10 DEF vars, shiftVars, submissionVars, governanceVars
  <1>11. CASE SubmissionStep /\ UNCHANGED governanceVars
    BY <1>3, <1>4, <1>11 DEF SubmissionStep
  <1>12. CASE GovernanceStep
    BY <1>5, <1>6, <1>7, <1>8, <1>9, <1>12 DEF GovernanceStep
  <1>. QED BY <1>1, <1>2, <1>10, <1>11, <1>12 DEF Next

-----------------------------------------------------------------------------
(***************************************************************************)
(* The theorems about every reachable state.                               *)
(***************************************************************************)

\* What the station records, as one inductive invariant on top of StationInv.
RecordInv ==
    /\ FenceInv
    /\ Revised
    /\ NoDuplicateRow
    /\ ReportIsDraftPrefix
    /\ CarriedReadingHasOrigin
    /\ KeyInv
    /\ SeparationOfDuties
    /\ AuditMatchesTables

\* The empty station has recorded nothing.
LEMMA RecordInit == Init => RecordInv
  <1>. SUFFICES ASSUME Init PROVE RecordInv
    OBVIOUS
  <1>1. /\ shifts = << >> /\ drafts = << >> /\ reports = << >> /\ acks = << >> /\ amendments = << >>
        /\ idem = {} /\ answers = {} /\ audit = {}
    BY DEF Init, ShiftsInit, SubmissionsInit, GovernanceInit
  <1>2. /\ FenceInv /\ Revised /\ NoDuplicateRow /\ ReportIsDraftPrefix
        /\ CarriedReadingHasOrigin /\ KeyInv /\ SeparationOfDuties
    BY <1>1 DEF FenceInv, Revised, NoDuplicateRow, ReportIsDraftPrefix, CarriedReadingHasOrigin,
       KeyInv, SeparationOfDuties
  <1>3. AuditMatchesTables
    BY <1>1 DEF AuditMatchesTables
  <1>. QED BY <1>2, <1>3 DEF RecordInv

\* The invariant of the records holds in every state the station can reach.
THEOREM RecordInvariant == Spec => []RecordInv
  <1>1. StationInv /\ RecordInv /\ [Next]_vars => RecordInv'
    BY FenceNext, NoDuplicateNext, PrefixNext, CarriedNext, KeyNext, SeparationNext, AuditNext
    DEF RecordInv
  <1>. QED BY <1>1, RecordInit, StationInvariant, PTL DEF Spec

\* The claim token and the revision fence the writes of a draft.
THEOREM ClaimsFence == Spec => []FencedRows
  <1>1. RecordInv => FencedRows
    BY DEF RecordInv, FenceInv, Fence, FencedRows
  <1>. QED BY <1>1, RecordInvariant, PTL

\* No retry of a draft write enters a nozzle, a dispenser or a loss twice.
THEOREM RowsEnteredOnce == Spec => []NoDuplicateRow
  <1>1. RecordInv => NoDuplicateRow
    BY DEF RecordInv
  <1>. QED BY <1>1, RecordInvariant, PTL

\* Every report holds a prefix of the draft of its shift.
THEOREM ReportsArePrefixes == Spec => []ReportIsDraftPrefix
  <1>1. RecordInv => ReportIsDraftPrefix
    BY DEF RecordInv
  <1>. QED BY <1>1, RecordInvariant, PTL

\* Every reading a backfilled report carries stands in the current report of
\* the earlier shift it was entered in.
THEOREM CarriedReadingsTraced == Spec => []CarriedReadingHasOrigin
  <1>1. RecordInv => CarriedReadingHasOrigin
    BY DEF RecordInv
  <1>. QED BY <1>1, RecordInvariant, PTL

\* A key has one fate, however submissions, replays and late failure marks
\* overlap.
THEOREM SubmissionIsIdempotent == Spec => []IdempotentSubmit
  <1>1. RecordInv => IdempotentSubmit
    <2>. SUFFICES ASSUME KeyInv PROVE IdempotentSubmit
      BY DEF RecordInv
    <2>1. ASSUME NEW a \in answers
          PROVE  /\ IdemRow(a, "succeeded", a.report) \in idem
                 /\ a.report \in DOMAIN reports
                 /\ reports[a.report].shift = a.shift
                 /\ reports[a.report].version = 1
      <3>. DEFINE row == IdemRow(a, "succeeded", a.report)
      <3>1. row.status = "succeeded" /\ row.report = a.report /\ row.shift = a.shift
        BY DEF IdemRow
      <3>. HIDE DEF row
      <3>2. row \in idem
        BY DEF KeyInv, row
      <3>. QED BY <3>1, <3>2 DEF KeyInv, row
    <2>. QED BY <2>1 DEF KeyInv, IdempotentSubmit
  <1>. QED BY <1>1, RecordInvariant, PTL

\* Nobody ever decided their own report, and their own amendment only under
\* break-glass.
THEOREM DutiesSeparated == Spec => []SeparationOfDuties
  <1>1. RecordInv => SeparationOfDuties
    BY DEF RecordInv
  <1>. QED BY <1>1, RecordInvariant, PTL

\* The audit events are always exactly those of the committed rows.
THEOREM AuditIsComplete == Spec => []AuditMatchesTables
  <1>1. RecordInv => AuditMatchesTables
    BY DEF RecordInv
  <1>. QED BY <1>1, RecordInvariant, PTL

=============================================================================
