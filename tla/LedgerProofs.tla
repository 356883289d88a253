---------------------------- MODULE LedgerProofs ----------------------------
(***************************************************************************)
(* Proof that the station implements the abstract ledger of shifts.  The   *)
(* refinement mapping is Ledger, defined in module Station.                *)
(***************************************************************************)
EXTENDS StationProofs

Entry == [phase : ShiftStatuses, version : Nat]

Version(s) ==
    IF shifts[s].current = NoId THEN 0 ELSE reports[shifts[s].current].version

\* The mapped ledger is a sequence with one typed entry per shift.
LEMMA LedgerType ==
    ASSUME StationInv
    PROVE  /\ Ledger \in Seq(Entry)
           /\ DOMAIN Ledger = DOMAIN shifts
           /\ Len(Ledger) = Len(shifts)
           /\ \A s \in DOMAIN shifts :
                 Ledger[s] = [phase |-> shifts[s].status, version |-> Version(s)]
  <1>. TypeOK
    BY DEF StationInv
  <1>1. ASSUME NEW s \in DOMAIN shifts
        PROVE  Version(s) \in Nat
    BY CurrentReport, Ids DEF Version, Report
  <1>2. ASSUME NEW s \in DOMAIN shifts
        PROVE  [phase |-> shifts[s].status, version |-> Version(s)] \in Entry
    BY <1>1, Ids DEF Entry, Shift
  <1>3. Ledger = [s \in 1..Len(shifts) |-> [phase |-> shifts[s].status, version |-> Version(s)]]
    BY Ids DEF Ledger, Version
  <1>. QED BY <1>2, <1>3, Ids

\* Replacing one entry of the ledger, stated entry by entry.
LEMMA LedgerUpdates ==
    ASSUME StationInv, StationInv', NEW s \in DOMAIN shifts, NEW entry,
           DOMAIN shifts' = DOMAIN shifts,
           Ledger'[s] = entry,
           \A t \in DOMAIN shifts : t # s => Ledger'[t] = Ledger[t]
    PROVE  Ledger' = [Ledger EXCEPT ![s] = entry]
  <1>1. /\ DOMAIN Ledger = DOMAIN shifts
        /\ DOMAIN Ledger' = DOMAIN shifts
    BY DEF Ledger
  <1>2. /\ Ledger = [t \in DOMAIN Ledger |-> Ledger[t]]
        /\ Ledger' = [t \in DOMAIN Ledger' |-> Ledger'[t]]
    BY DEF Ledger
  <1>. QED BY <1>1, <1>2

\* OpenShift is Open.
LEMMA OpenRefines ==
    ASSUME StationInv, StationInv', NEW u \in Users, NEW b \in Backfills, OpenShift(u, b),
           UNCHANGED reports
    PROVE  L!Open
  <1>. DEFINE n == Len(shifts) + 1
              entry == [phase |-> "open", version |-> 0]
  <1>. TypeOK
    BY DEF StationInv
  <1>1. \A t \in DOMAIN Ledger : ~L!Busy(t)
    BY DEF OpenShift, L!Busy, Ledger, Active, ActiveStatuses
  <1>2. NewShift(b).status = "open" /\ NewShift(b).current = NoId /\ NewShift(b) \in Shift
    BY BackfillsAssumption DEF NewShift, Shift, ShiftStatuses, ActiveStatuses, NoId
  <1>3. /\ DOMAIN shifts' = DOMAIN shifts \cup {n}
        /\ n \notin DOMAIN shifts
        /\ \A t \in DOMAIN shifts : shifts'[t] = shifts[t]
        /\ shifts'[n] = NewShift(b)
    BY <1>2, RowInsert DEF OpenShift, TypeOK
  <1>4. /\ Ledger' = [t \in DOMAIN shifts \cup {n} |-> Ledger'[t]]
        /\ Ledger'[n] = entry
        /\ \A t \in DOMAIN shifts : Ledger'[t] = Ledger[t]
    BY <1>2, <1>3 DEF Ledger
  <1>5. /\ Append(Ledger, entry) = [t \in DOMAIN shifts \cup {n} |-> Append(Ledger, entry)[t]]
        /\ Append(Ledger, entry)[n] = entry
        /\ \A t \in DOMAIN shifts : Append(Ledger, entry)[t] = Ledger[t]
    BY LedgerType, Ids
  <1>6. Ledger' = Append(Ledger, entry)
    BY <1>4, <1>5
  <1>. QED BY <1>1, <1>6 DEF L!Open

\* Submit is Submit.
LEMMA SubmitRefines ==
    ASSUME StationInv, StationInv', NEW d \in Devices, NEW k \in Keys, NEW p \in Payloads,
           Submit(d, k, p)
    PROVE  \E s \in DOMAIN Ledger : L!Submit(s)
  <1>1. PICK s, r : Submission(d, s, r)
    BY SubmitEffect
  <1>. USE DEF Submission
  <1>2. DOMAIN Ledger = DOMAIN shifts /\ Ledger[s].phase = "open"
    BY <1>1 DEF Ledger
  <1>3. reports'[r].version = 1 /\ r \in DOMAIN reports' /\ r # NoId
    <2>1. reports'[r].version = 1 /\ r \in DOMAIN reports'
      BY <1>1 DEF FirstReport
    <2>2. reports' \in Seq(Report)
      BY <1>1
    <2>. QED BY <2>1, <2>2 DEF NoId
  <1>4. Ledger'[s] = [phase |-> "awaiting_confirmation", version |-> 1]
    BY <1>1, <1>3 DEF Ledger
  <1>5. ASSUME NEW t \in DOMAIN shifts, t # s
        PROVE  Ledger'[t] = Ledger[t]
    BY <1>1, <1>5, CurrentReport DEF Ledger
  <1>6. Ledger' = [Ledger EXCEPT ![s] = [phase |-> "awaiting_confirmation", version |-> 1]]
    BY <1>1, <1>4, <1>5, LedgerUpdates
  <1>. QED BY <1>1, <1>2, <1>6 DEF L!Submit

\* Acknowledge is Decide.
LEMMA AcknowledgeRefines ==
    ASSUME StationInv, StationInv', NEW u \in Users, NEW s \in DOMAIN shifts,
           NEW decision \in Decisions, Acknowledge(u, s, decision)
    PROVE  L!Decide(s)
  <1>1. PICK r, a : Acknowledgement(u, s, decision, r, a) /\ r = shifts[s].current
    BY AcknowledgeEffect
  <1>. USE DEF Acknowledgement
  <1>2. Ledger[s].phase = "awaiting_confirmation"
    BY <1>1 DEF Ledger
  <1>3. Decided(decision) \in {"locked", "needs_correction"}
    BY DEF Decided
  <1>4. Ledger'[s] = [Ledger[s] EXCEPT !.phase = Decided(decision)]
    BY <1>1 DEF Ledger, SameReport
  <1>5. ASSUME NEW t \in DOMAIN shifts, t # s
        PROVE  Ledger'[t] = Ledger[t]
    BY <1>1, <1>5, CurrentReport DEF Ledger, SameReport
  <1>6. Ledger' = [Ledger EXCEPT ![s] = [Ledger[s] EXCEPT !.phase = Decided(decision)]]
    BY <1>1, <1>4, <1>5, LedgerUpdates
  <1>7. Ledger' = [Ledger EXCEPT ![s].phase = Decided(decision)]
    BY <1>6
  <1>. QED BY <1>2, <1>3, <1>7 DEF L!Decide

\* ApproveAmendment is Amend.
LEMMA ApproveRefines ==
    ASSUME StationInv, StationInv', NEW u \in Users, NEW a \in DOMAIN amendments,
           ApproveAmendment(u, a)
    PROVE  \E s \in DOMAIN Ledger : L!Amend(s)
  <1>1. PICK base, s, new, old : Approval(u, a, base, s, new, old)
    BY ApproveEffect
  <1>. USE DEF Approval
  <1>. TypeOK
    BY DEF StationInv
  <1>2. DOMAIN Ledger = DOMAIN shifts /\ Ledger[s].phase # "open"
    BY <1>1 DEF Ledger
  <1>3. \A t \in DOMAIN Ledger : t # s => ~L!Busy(t)
    BY <1>1 DEF Ledger, L!Busy, Active, ActiveStatuses
  <1>4. Ledger[s].version = reports[base].version
    BY <1>1, Ids DEF Ledger
  <1>5. reports'[new].version = reports[base].version + 1
    BY <1>1 DEF AmendedReport
  <1>6. Ledger'[s] = [phase |-> "awaiting_confirmation", version |-> Ledger[s].version + 1]
    BY <1>1, <1>4, <1>5 DEF Ledger
  <1>7. ASSUME NEW t \in DOMAIN shifts, t # s
        PROVE  Ledger'[t] = Ledger[t]
    BY <1>1, <1>7, CurrentReport DEF Ledger, SameReport
  <1>8. Ledger' = [Ledger EXCEPT ![s] = [phase |-> "awaiting_confirmation",
                                         version |-> Ledger[s].version + 1]]
    BY <1>1, <1>6, <1>7, LedgerUpdates
  <1>. QED BY <1>1, <1>2, <1>3, <1>8 DEF L!Amend

\* Every step of the station is a step of the ledger or changes nothing in it.
LEMMA StepRefines ==
    ASSUME StationInv, StationInv', [Next]_vars
    PROVE  [L!Next]_Ledger
  <1>0. ASSUME UNCHANGED <<shifts, reports>>
        PROVE  Ledger' = Ledger
    BY <1>0 DEF Ledger
  <1>1. CASE \E u \in Users, b \in Backfills :
                OpenShift(u, b) /\ UNCHANGED <<draftVars, submissionVars, governanceVars>>
    BY <1>1, OpenRefines DEF L!Next, submissionVars
  <1>2. CASE DraftStep /\ UNCHANGED <<submissionVars, governanceVars>>
    <2>. TypeOK
      BY DEF StationInv
    <2>1. UNCHANGED <<shifts, reports>>
      BY <1>2, DraftWrites DEF DraftStep, Claim, Heartbeat, Write, ReadDetail, LeaseTick, submissionVars
    <2>. QED BY <1>0, <2>1
  <1>3. CASE SubmissionStep
    <2>1. CASE \E d \in Devices, k \in Keys, p \in Payloads : Submit(d, k, p)
      BY <2>1, SubmitRefines DEF L!Next
    <2>2. CASE \/ \E q \in Request : SubmitReplay(q) \/ SubmitAborts(q)
               \/ \E q \in failing : MarkSubmitFailed(q) \/ MarkIsLost(q)
      <3>1. UNCHANGED <<shifts, reports>>
        BY <2>2 DEF SubmitReplay, SubmitAborts, MarkSubmitFailed, MarkIsLost, shiftVars
      <3>. QED BY <1>0, <3>1
    <2>. QED BY <1>3, <2>1, <2>2 DEF SubmissionStep
  <1>4. CASE GovernanceStep
    <2>1. CASE \E u \in Users, s \in DOMAIN shifts, decision \in Decisions : Acknowledge(u, s, decision)
      <3>1. DOMAIN Ledger = DOMAIN shifts
        BY DEF Ledger
      <3>. QED BY <2>1, <3>1, AcknowledgeRefines DEF L!Next
    <2>2. CASE \E u \in Users, a \in DOMAIN amendments : ApproveAmendment(u, a)
      BY <2>2, ApproveRefines DEF L!Next
    <2>3. CASE \/ \E u \in Users, s \in DOMAIN shifts, target \in Targets, b \in BOOLEAN :
                     RequestAmendment(u, s, target, b)
               \/ \E u \in Users, a \in DOMAIN amendments : RejectAmendment(u, a)
               \/ \E change \in RoleChanges :
                     AssignRole(change[1], change[2]) \/ RemoveRole(change[1], change[2])
      <3>1. UNCHANGED <<shifts, reports>>
        BY <2>3 DEF RequestAmendment, RejectAmendment, AssignRole, RemoveRole, shiftVars, submissionVars
      <3>. QED BY <1>0, <3>1
    <2>. QED BY <1>4, <2>1, <2>2, <2>3 DEF GovernanceStep
  <1>5. CASE UNCHANGED vars
    BY <1>0, <1>5 DEF vars, shiftVars, submissionVars
  <1>. QED BY <1>1, <1>2, <1>3, <1>4, <1>5 DEF Next

\* Every behaviour of the station is a behaviour of the shift ledger: shifts
\* are numbered without gaps, one is worked on at a time, and every version
\* is the successor of the last and is decided at most once.
THEOREM StationImplementsLedger == Spec => ImplementsLedger
  <1>1. Init => L!Init
    BY DEF Init, ShiftsInit, L!Init, Ledger
  <1>2. StationInv /\ StationInv' /\ [Next]_vars => [L!Next]_Ledger
    BY StepRefines
  <1>. QED BY <1>1, <1>2, StationInvariant, PTL DEF Spec, ImplementsLedger, L!Spec

=============================================================================
