--------------------------- MODULE StationProofs ---------------------------
(***************************************************************************)
(* Proofs about the station for every number of users, devices, shifts,    *)
(* claims, keys and amendments.                                            *)
(***************************************************************************)
EXTENDS Station, TLAPS

-----------------------------------------------------------------------------
(***************************************************************************)
(* Tables are sequences: replacing a row and adding one.                   *)
(***************************************************************************)

\* UPDATE of one row keeps the type of a table and its ids.
LEMMA RowUpdate ==
    ASSUME NEW S, NEW table \in Seq(S), NEW i \in DOMAIN table, NEW row \in S
    PROVE  /\ [table EXCEPT ![i] = row] \in Seq(S)
           /\ Len([table EXCEPT ![i] = row]) = Len(table)
           /\ DOMAIN [table EXCEPT ![i] = row] = DOMAIN table
OBVIOUS

\* INSERT of one row keeps the type of a table and adds the next id.
LEMMA RowInsert ==
    ASSUME NEW S, NEW table \in Seq(S), NEW row \in S
    PROVE  /\ Append(table, row) \in Seq(S)
           /\ Len(Append(table, row)) = Len(table) + 1
           /\ DOMAIN Append(table, row) = DOMAIN table \cup {Len(table) + 1}
           /\ Append(table, row)[Len(table) + 1] = row
           /\ \A i \in DOMAIN table : Append(table, row)[i] = table[i]
           /\ Len(table) + 1 \notin DOMAIN table
OBVIOUS

\* The references between the tables, which the types alone do not give: a
\* draft for every shift, the base report of every amendment, and the
\* decision that the acknowledgement head of a report points to.
Links ==
    /\ DOMAIN drafts = DOMAIN shifts
    /\ \A a \in DOMAIN amendments :
          /\ amendments[a].shift \in DOMAIN shifts
          /\ amendments[a].base \in DOMAIN reports
          /\ reports[amendments[a].base].shift = amendments[a].shift
    /\ \A r \in DOMAIN reports :
          reports[r].ack # NoId =>
              reports[r].ack \in DOMAIN acks /\ acks[reports[r].ack].report = r

\* The inductive invariant.
StationInv ==
    /\ TypeOK
    /\ Links
    /\ OneActiveShift
    /\ StatusMatchesDecision
    /\ VersionChain
    /\ DecisionLedger
    /\ PendingIsCurrent
    /\ NoLostAmendment

\* The empty station satisfies the invariant.
LEMMA InvInit == Init => StationInv
  <1>. SUFFICES ASSUME Init PROVE StationInv
    OBVIOUS
  <1>1. TypeOK
    BY InitialRolesAssumption
    DEF Init, ShiftsInit, DraftsInit, SubmissionsInit, GovernanceInit, TypeOK, Knowledge, Nothing, NoId
  <1>. QED
    BY <1>1 DEF Init, ShiftsInit, SubmissionsInit, GovernanceInit, StationInv, Links, OneActiveShift,
       StatusMatchesDecision, VersionChain, DecisionLedger, PendingIsCurrent, NoLostAmendment

\* OpenShift writes rows of the right type.
LEMMA TypeOpenShift ==
    ASSUME TypeOK, NEW u \in Users, NEW b \in Backfills, OpenShift(u, b)
    PROVE  /\ shifts' \in Seq(Shift)
           /\ drafts' \in Seq(Draft)
           /\ audit' \subseteq Event
  <1>1. NewShift(b) \in Shift
    BY BackfillsAssumption DEF NewShift, Shift, ShiftStatuses, ActiveStatuses, NoId
  <1>2. NewDraft(u) \in Draft
    BY DEF NewDraft, Draft, NoId, Row
  <1>3. Len(shifts) + 1 \in Nat
    BY DEF TypeOK
  <1>. QED BY <1>1, <1>2, <1>3 DEF OpenShift, TypeOK, Event

\* Claim writes rows of the right type.
LEMMA TypeClaim ==
    ASSUME TypeOK, NEW d \in Devices, NEW s \in DOMAIN drafts, Claim(d, s)
    PROVE  /\ drafts' \in Seq(Draft)
           /\ issued' \in Nat
           /\ known' \in [Devices -> Knowledge]
  <1>1. UserOf(d) \in Users
    BY DevicesAssumption DEF UserOf
  <1>. DEFINE new == [drafts[s] EXCEPT !.owner = UserOf(d), !.token = issued + 1,
                                       !.lease = LeaseDuration, !.status = "editing"]
  <1>2. drafts[s] \in Draft /\ s \in Nat
    BY DEF TypeOK
  <1>. issued + 1 \in Nat /\ LeaseDuration \in Nat
    BY LeaseAssumption DEF TypeOK
  <1>3. new \in Draft
    BY <1>1, <1>2 DEF Draft
  <1>4. drafts' = [drafts EXCEPT ![s] = new]
    BY <1>2 DEF Claim, TypeOK
  <1>5. drafts' \in Seq(Draft)
    BY <1>3, <1>4, RowUpdate DEF TypeOK
  <1>6. [shift |-> s, token |-> issued + 1, rev |-> drafts[s].revision] \in Knowledge
    BY <1>2 DEF Knowledge, Draft, TypeOK
  <1>7. known' \in [Devices -> Knowledge]
    BY <1>6 DEF Claim, Answer, TypeOK
  <1>. QED BY <1>5, <1>7 DEF Claim, TypeOK

\* Heartbeat writes rows of the right type.
LEMMA TypeHeartbeat ==
    ASSUME TypeOK, NEW d \in Devices, Heartbeat(d)
    PROVE  drafts' \in Seq(Draft)
  <1>. DEFINE s == known[d].shift
              new == [drafts[s] EXCEPT !.lease = LeaseDuration]
  <1>1. s \in DOMAIN drafts /\ drafts[s] \in Draft
    BY DEF Heartbeat, TypeOK
  <1>2. new \in Draft
    BY <1>1, LeaseAssumption DEF Draft
  <1>3. drafts' = [drafts EXCEPT ![s] = new]
    BY <1>1 DEF Heartbeat, TypeOK
  <1>. QED BY <1>1, <1>2, <1>3, RowUpdate DEF TypeOK

\* A draft write adds a row of the right type.
LEMMA TypeWrite ==
    ASSUME TypeOK, NEW d \in Devices, NEW item \in Item, Write(d, item)
    PROVE  /\ drafts' \in Seq(Draft)
           /\ known' \in [Devices -> Knowledge]
  <1>. DEFINE s == known[d].shift
              next == drafts[s].revision + 1
              row == [rev |-> next, item |-> item, by |-> UserOf(d), token |-> known[d].token]
              new == [drafts[s] EXCEPT !.rows = @ \cup {row}, !.revision = next]
  <1>1. s \in DOMAIN drafts /\ drafts[s] \in Draft /\ known[d] \in Knowledge
    BY DEF Write, TypeOK
  <1>2. UserOf(d) \in Users
    BY DevicesAssumption DEF UserOf
  <1>3. next \in Nat /\ row \in Row
    BY <1>1, <1>2 DEF Draft, Knowledge, Row
  <1>4. new \in Draft
    BY <1>1, <1>3 DEF Draft
  <1>5. drafts' = [drafts EXCEPT ![s] = new]
    BY <1>1 DEF Write, TypeOK
  <1>6. [known[d] EXCEPT !.rev = next] \in Knowledge
    BY <1>1, <1>3 DEF Knowledge
  <1>7. known' \in [Devices -> Knowledge]
    BY <1>6 DEF Write, Answer, TypeOK
  <1>. QED BY <1>1, <1>4, <1>5, <1>7, RowUpdate DEF TypeOK

\* Reading a shift tells a device a revision.
LEMMA TypeReadDetail ==
    ASSUME TypeOK, NEW d \in Devices, ReadDetail(d)
    PROVE  known' \in [Devices -> Knowledge]
  <1>. DEFINE s == known[d].shift
  <1>1. drafts[s] \in Draft /\ known[d] \in Knowledge
    BY DEF ReadDetail, TypeOK
  <1>2. [known[d] EXCEPT !.rev = drafts[s].revision] \in Knowledge
    BY <1>1 DEF Knowledge, Draft
  <1>3. known' = [known EXCEPT ![d] = [known[d] EXCEPT !.rev = drafts[s].revision]]
    BY DEF ReadDetail, TypeOK
  <1>. QED BY <1>2, <1>3 DEF TypeOK

\* The passing of time keeps the types.
LEMMA TypeLeaseTick ==
    ASSUME TypeOK, LeaseTick
    PROVE  drafts' \in Seq(Draft)
  <1>1. ASSUME NEW s \in DOMAIN drafts
        PROVE  [drafts[s] EXCEPT !.lease = IF @ > 0 THEN @ - 1 ELSE 0] \in Draft
    <2>1. drafts[s] \in Draft
      BY DEF TypeOK
    <2>2. (IF drafts[s].lease > 0 THEN drafts[s].lease - 1 ELSE 0) \in Nat
      BY <2>1 DEF Draft
    <2>. QED BY <2>1, <2>2 DEF Draft
  <1>2. DOMAIN drafts = 1..Len(drafts) /\ Len(drafts) \in Nat
    BY DEF TypeOK
  <1>. QED BY <1>1, <1>2 DEF LeaseTick

\* The four writes enter an item of their own kind.
LEMMA DraftWrites ==
    ASSUME TypeOK, NEW d \in Devices,
           \/ \E n \in Nozzles : WriteReading(d, n)
           \/ \E p \in Dispensers : WriteSales(d, p)
           \/ \E l \in LossIds : WriteLoss(d, l) \/ StageEvidence(d, l)
    PROVE  \E item \in Item :
              /\ Write(d, item)
              /\ item[1] # "evidence" => item \notin Written(known[d].shift)
  <1>1. ASSUME NEW n \in Nozzles
        PROVE  <<"reading", n>> \in Item
    BY DEF Item
  <1>2. ASSUME NEW p \in Dispensers
        PROVE  <<"sale", p>> \in Item
    BY DEF Item
  <1>3. ASSUME NEW l \in LossIds
        PROVE  <<"loss", l>> \in Item /\ <<"evidence", l>> \in Item
    BY DEF Item
  <1>4. CASE \E n \in Nozzles : WriteReading(d, n)
    BY <1>1, <1>4 DEF WriteReading
  <1>5. CASE \E p \in Dispensers : WriteSales(d, p)
    BY <1>2, <1>5 DEF WriteSales
  <1>6. CASE \E l \in LossIds : WriteLoss(d, l) \/ StageEvidence(d, l)
    BY <1>3, <1>6 DEF WriteLoss, StageEvidence
  <1>. QED BY <1>4, <1>5, <1>6

\* Every step of the draft component keeps the types.
LEMMA TypeDraftStep ==
    ASSUME TypeOK, DraftStep, UNCHANGED <<submissionVars, governanceVars>>
    PROVE  TypeOK'
  <1>. USE DEF submissionVars, governanceVars
  <1>1. ASSUME NEW d \in Devices, NEW s \in DOMAIN drafts, Claim(d, s)
        PROVE  TypeOK'
    BY <1>1, TypeClaim DEF Claim, TypeOK
  <1>2. ASSUME NEW d \in Devices, Heartbeat(d)
        PROVE  TypeOK'
    BY <1>2, TypeHeartbeat DEF Heartbeat, TypeOK
  <1>3. ASSUME NEW d \in Devices, NEW item \in Item, Write(d, item)
        PROVE  TypeOK'
    BY <1>3, TypeWrite DEF Write, TypeOK
  <1>4. ASSUME NEW d \in Devices, ReadDetail(d)
        PROVE  TypeOK'
    BY <1>4, TypeReadDetail DEF ReadDetail, TypeOK
  <1>5. ASSUME LeaseTick
        PROVE  TypeOK'
    BY <1>5, TypeLeaseTick DEF LeaseTick, TypeOK
  <1>. QED BY <1>1, <1>2, <1>3, <1>4, <1>5, DraftWrites DEF DraftStep

-----------------------------------------------------------------------------
(***************************************************************************)
(* Effects: what the operations that change reports and decisions leave in *)
(* the tables, row by row.                                                 *)
(***************************************************************************)

\* Row x of reports keeps everything but its acknowledgement head.
SameReport(x) ==
    /\ reports'[x].shift = reports[x].shift
    /\ reports'[x].version = reports[x].version
    /\ reports'[x].supersedes = reports[x].supersedes
    /\ reports'[x].submittedBy = reports[x].submittedBy
    /\ reports'[x].rows = reports[x].rows
    /\ reports'[x].applied = reports[x].applied

\* Row x of ack_decisions keeps everything; a supersession may be added.
SameDecision(x) ==
    /\ acks'[x].report = acks[x].report
    /\ acks'[x].by = acks[x].by
    /\ acks'[x].decision = acks[x].decision

\* Row x of amendments keeps what the requester wrote.
SameRequest(x) ==
    /\ amendments'[x].shift = amendments[x].shift
    /\ amendments'[x].base = amendments[x].base
    /\ amendments'[x].target = amendments[x].target
    /\ amendments'[x].requester = amendments[x].requester
    /\ amendments'[x].breakGlass = amendments[x].breakGlass
    /\ amendments'[x].hash = amendments[x].hash

\* A current report exists and belongs to its shift.
LEMMA CurrentReport ==
    ASSUME StationInv, NEW s \in DOMAIN shifts, shifts[s].current # NoId
    PROVE  /\ shifts[s].current \in DOMAIN reports
           /\ reports[shifts[s].current].shift = s
           /\ shifts[s].status # "open"
  BY DEF StationInv, StatusMatchesDecision, StatusIsRight

\* Ids are positive.
LEMMA Ids ==
    ASSUME TypeOK
    PROVE  /\ DOMAIN shifts = 1..Len(shifts) /\ Len(shifts) \in Nat
           /\ DOMAIN reports = 1..Len(reports) /\ Len(reports) \in Nat
           /\ DOMAIN acks = 1..Len(acks) /\ Len(acks) \in Nat
           /\ DOMAIN amendments = 1..Len(amendments) /\ Len(amendments) \in Nat
           /\ NoId \notin DOMAIN reports /\ NoId \notin DOMAIN acks
           /\ \A s \in DOMAIN shifts : shifts[s] \in Shift
           /\ \A r \in DOMAIN reports : reports[r] \in Report
           /\ \A a \in DOMAIN acks : acks[a] \in Ack
           /\ \A a \in DOMAIN amendments : amendments[a] \in Amendment
  BY DEF TypeOK, NoId

\* promoteDraftChildren yields report rows.
LEMMA PromotedRows ==
    ASSUME StationInv, NEW s \in DOMAIN shifts
    PROVE  Promoted(s) \subseteq Row
  <1>1. drafts[s] \in Draft
    BY DEF StationInv, TypeOK, Links
  <1>2. ASSUME NEW t \in LastLocked(s)
        PROVE  reports[shifts[t].current].rows \subseteq Row
    <2>1. t \in DOMAIN shifts /\ shifts[t].status = "locked"
      BY DEF LastLocked
    <2>2. shifts[t].current \in DOMAIN reports
      BY <2>1 DEF StationInv, StatusMatchesDecision, StatusIsRight
    <2>. QED BY <2>2, Ids DEF StationInv, Report
  <1>3. Carried(s) \subseteq Row
    BY <1>2 DEF Carried, RowsOf
  <1>. QED BY <1>1, <1>3 DEF Promoted, RowsOf, Draft

\* Shift s gets its first report, r.
Submission(d, s, r) ==
    /\ s \in DOMAIN shifts
    /\ shifts[s].status = "open"
    /\ reports' \in Seq(Report)
    /\ r \notin DOMAIN reports
    /\ DOMAIN reports' = DOMAIN reports \cup {r}
    /\ \A x \in DOMAIN reports : reports'[x] = reports[x]
    /\ reports'[r] = FirstReport(s, UserOf(d))
    /\ shifts' \in Seq(Shift)
    /\ DOMAIN shifts' = DOMAIN shifts
    /\ \A t \in DOMAIN shifts : t # s => shifts'[t] = shifts[t]
    /\ shifts'[s].status = "awaiting_confirmation"
    /\ shifts'[s].current = r
    /\ drafts' \in Seq(Draft)
    /\ DOMAIN drafts' = DOMAIN drafts

\* Submit adds version 1 for a shift that has no report, and nothing else.
LEMMA SubmitEffect ==
    ASSUME StationInv, NEW d \in Devices, NEW k \in Keys, NEW p \in Payloads, Submit(d, k, p)
    PROVE  Submission(d, known[d].shift, Len(reports) + 1)
  <1>. DEFINE s == known[d].shift
              r == Len(reports) + 1
              shift == [shifts[s] EXCEPT !.status = "awaiting_confirmation", !.current = r]
              draft == [drafts[s] EXCEPT !.status = "submitted", !.token = NoId, !.lease = 0]
  <1>. TypeOK
    BY DEF StationInv
  <1>1. s \in DOMAIN shifts /\ s \in DOMAIN drafts /\ shifts[s].status = "open" /\ s \in Nat
    BY Ids DEF Submit, StationInv, Links
  <1>2. FirstReport(s, UserOf(d)) \in Report
    BY <1>1, PromotedRows, DevicesAssumption DEF FirstReport, Report, UserOf, NoId
  <1>3. /\ shifts[s] \in Shift
        /\ drafts[s] \in Draft
    BY <1>1, Ids DEF TypeOK
  <1>4. r \in Nat
    BY Ids
  <1>5. shift \in Shift /\ draft \in Draft
    BY <1>3, <1>4 DEF Shift, Draft, ShiftStatuses, ActiveStatuses, NoId
  <1>6. /\ shifts' = [shifts EXCEPT ![s] = shift]
        /\ drafts' = [drafts EXCEPT ![s] = draft]
        /\ reports' = Append(reports, FirstReport(s, UserOf(d)))
    BY <1>1 DEF Submit, TypeOK
  <1>7. /\ shifts' \in Seq(Shift)
        /\ DOMAIN shifts' = DOMAIN shifts
        /\ drafts' \in Seq(Draft)
        /\ DOMAIN drafts' = DOMAIN drafts
    BY <1>1, <1>5, <1>6, RowUpdate DEF TypeOK
  <1>8. shifts'[s] = shift /\ \A t \in DOMAIN shifts : t # s => shifts'[t] = shifts[t]
    BY <1>1, <1>6 DEF TypeOK
  <1>9. shift.status = "awaiting_confirmation" /\ shift.current = r
    BY <1>3 DEF Shift
  <1>. HIDE DEF shift, draft
  <1>. QED BY <1>1, <1>2, <1>6, <1>7, <1>8, <1>9, RowInsert DEF Submission, TypeOK

\* User u decides report r of shift s in decision a.
Acknowledgement(u, s, decision, r, a) ==
    /\ r \in DOMAIN reports
    /\ reports[r].shift = s
    /\ reports[r].ack = NoId
    /\ shifts[s].status = "awaiting_confirmation"
    /\ acks' \in Seq(Ack)
    /\ a \notin DOMAIN acks /\ a # NoId
    /\ DOMAIN acks' = DOMAIN acks \cup {a}
    /\ \A x \in DOMAIN acks : acks'[x] = acks[x]
    /\ acks'[a].report = r
    /\ acks'[a].by = u
    /\ acks'[a].decision = decision
    /\ acks'[a].supersededBy = NoId
    /\ reports' \in Seq(Report)
    /\ DOMAIN reports' = DOMAIN reports
    /\ \A x \in DOMAIN reports : SameReport(x)
    /\ \A x \in DOMAIN reports : x # r => reports'[x].ack = reports[x].ack
    /\ reports'[r].ack = a
    /\ shifts' \in Seq(Shift)
    /\ DOMAIN shifts' = DOMAIN shifts
    /\ \A t \in DOMAIN shifts : t # s => shifts'[t] = shifts[t]
    /\ shifts'[s].status = Decided(decision)
    /\ shifts'[s].current = r

\* Acknowledge adds a decision on the current, undecided report of a shift.
LEMMA AcknowledgeEffect ==
    ASSUME StationInv, NEW u \in Users, NEW s \in DOMAIN shifts, NEW decision \in Decisions,
           Acknowledge(u, s, decision)
    PROVE  Acknowledgement(u, s, decision, shifts[s].current, Len(acks) + 1)
  <1>. DEFINE r == shifts[s].current
              a == Len(acks) + 1
              ack == [report |-> r, by |-> u, decision |-> decision, supersededBy |-> NoId]
              report == [reports[r] EXCEPT !.ack = a]
              shift == [shifts[s] EXCEPT !.status = Decided(decision)]
  <1>. TypeOK
    BY DEF StationInv
  <1>1. /\ r \in DOMAIN reports
        /\ reports[r].shift = s
        /\ reports[r].ack = NoId
        /\ shifts[s].status = "awaiting_confirmation"
    BY CurrentReport DEF Acknowledge, AwaitsDecision
  <1>2. reports[r] \in Report /\ shifts[s] \in Shift /\ r \in Nat /\ a \in Nat /\ a # NoId
    BY <1>1, Ids DEF NoId
  <1>3. ack \in Ack
    BY <1>2 DEF Ack, NoId
  <1>4. report \in Report
    BY <1>2 DEF Report
  <1>5. shift \in Shift
    BY <1>2 DEF Shift, ShiftStatuses, ActiveStatuses, Decided
  <1>6. /\ acks' = Append(acks, ack)
        /\ reports' = [reports EXCEPT ![r] = report]
        /\ shifts' = [shifts EXCEPT ![s] = shift]
    BY <1>1 DEF Acknowledge, TypeOK
  <1>7. /\ reports' \in Seq(Report)
        /\ DOMAIN reports' = DOMAIN reports
        /\ shifts' \in Seq(Shift)
        /\ DOMAIN shifts' = DOMAIN shifts
    BY <1>1, <1>4, <1>5, <1>6, RowUpdate DEF TypeOK
  <1>8. /\ reports'[r] = report
        /\ \A x \in DOMAIN reports : x # r => reports'[x] = reports[x]
        /\ shifts'[s] = shift
        /\ \A t \in DOMAIN shifts : t # s => shifts'[t] = shifts[t]
    BY <1>1, <1>6 DEF TypeOK
  <1>9. shift.status = Decided(decision) /\ shift.current = r
    BY <1>2 DEF Shift
  <1>11. /\ \A x \in DOMAIN reports : SameReport(x)
         /\ \A x \in DOMAIN reports : x # r => reports'[x].ack = reports[x].ack
         /\ reports'[r].ack = a
    <2>1. /\ SameReport(r)
          /\ reports'[r].ack = a
      BY <1>2, <1>8 DEF SameReport, Report
    <2>. HIDE DEF report
    <2>. QED BY <1>8, <2>1 DEF SameReport
  <1>10. /\ acks' \in Seq(Ack)
         /\ a \notin DOMAIN acks
         /\ DOMAIN acks' = DOMAIN acks \cup {a}
         /\ \A x \in DOMAIN acks : acks'[x] = acks[x]
         /\ acks'[a] = ack
    BY <1>3, <1>6, RowInsert DEF TypeOK
  <1>. HIDE DEF report, shift
  <1>. QED BY <1>1, <1>2, <1>7, <1>8, <1>9, <1>10, <1>11 DEF Acknowledgement

\* A base hash has the type of the hash column.
LEMMA SnapshotType ==
    ASSUME TypeOK, NEW r \in DOMAIN reports
    PROVE  SnapshotHash(r) \in Snapshot
  BY Ids DEF SnapshotHash, Snapshot, Figures, RowsOf, Report

\* Amendment a of report r of shift s becomes pending.
AmendmentRequest(s, r, a) ==
    /\ r \in DOMAIN reports
    /\ reports[r].shift = s
    /\ \A b \in DOMAIN amendments :
          ~(amendments[b].base = r /\ amendments[b].status = "pending")
    /\ amendments' \in Seq(Amendment)
    /\ a \notin DOMAIN amendments
    /\ DOMAIN amendments' = DOMAIN amendments \cup {a}
    /\ \A b \in DOMAIN amendments : amendments'[b] = amendments[b]
    /\ amendments'[a].shift = s
    /\ amendments'[a].base = r
    /\ amendments'[a].status = "pending"
    /\ amendments'[a].hash = SnapshotHash(r)

\* RequestAmendment adds a pending amendment of the current report.
LEMMA RequestEffect ==
    ASSUME StationInv, NEW u \in Users, NEW s \in DOMAIN shifts, NEW target \in Targets,
           NEW breakGlass \in BOOLEAN, RequestAmendment(u, s, target, breakGlass)
    PROVE  AmendmentRequest(s, shifts[s].current, Len(amendments) + 1)
  <1>. DEFINE r == shifts[s].current
              a == Len(amendments) + 1
              amendment == [shift |-> s, base |-> r, status |-> "pending", target |-> target,
                            requester |-> u, approver |-> {}, applied |-> NoId,
                            breakGlass |-> breakGlass, hash |-> SnapshotHash(r)]
  <1>. TypeOK
    BY DEF StationInv
  <1>1. r \in DOMAIN reports /\ reports[r].shift = s
    BY CurrentReport DEF RequestAmendment
  <1>2. r \in Nat /\ s \in Nat /\ NoId \in Nat
    BY <1>1, Ids DEF NoId
  <1>3. target \in AllTargets
    BY TargetsAssumption
  <1>4. amendment \in Amendment
    BY <1>1, <1>2, <1>3, SnapshotType DEF Amendment
  <1>5. amendments' = Append(amendments, amendment)
    BY DEF RequestAmendment
  <1>6. /\ amendments' \in Seq(Amendment)
        /\ a \notin DOMAIN amendments
        /\ DOMAIN amendments' = DOMAIN amendments \cup {a}
        /\ \A b \in DOMAIN amendments : amendments'[b] = amendments[b]
        /\ amendments'[a] = amendment
    BY <1>4, <1>5, RowInsert DEF TypeOK
  <1>7. \A b \in DOMAIN amendments :
           ~(amendments[b].base = r /\ amendments[b].status = "pending")
    BY DEF RequestAmendment, PendingOn
  <1>. QED BY <1>1, <1>6, <1>7 DEF AmendmentRequest

\* RejectAmendment decides one pending amendment and changes no other.
LEMMA RejectEffect ==
    ASSUME StationInv, NEW u \in Users, NEW a \in DOMAIN amendments, RejectAmendment(u, a)
    PROVE  /\ amendments[a].status = "pending"
           /\ amendments' \in Seq(Amendment)
           /\ DOMAIN amendments' = DOMAIN amendments
           /\ \A b \in DOMAIN amendments : b # a => amendments'[b] = amendments[b]
           /\ SameRequest(a)
           /\ amendments'[a].status = "rejected"
           /\ amendments'[a].approver = {u}
  <1>. DEFINE amendment == [amendments[a] EXCEPT !.status = "rejected", !.approver = {u}]
  <1>. TypeOK
    BY DEF StationInv
  <1>1. amendments[a] \in Amendment
    BY Ids
  <1>2. amendment \in Amendment
    BY <1>1 DEF Amendment
  <1>3. amendments' = [amendments EXCEPT ![a] = amendment]
    BY DEF RejectAmendment, TypeOK
  <1>4. /\ amendments' \in Seq(Amendment)
        /\ DOMAIN amendments' = DOMAIN amendments
    BY <1>2, <1>3, RowUpdate DEF TypeOK
  <1>5. /\ amendments'[a] = amendment
        /\ \A b \in DOMAIN amendments : b # a => amendments'[b] = amendments[b]
    BY <1>3 DEF TypeOK
  <1>6. /\ SameRequest(a)
        /\ amendments'[a].status = "rejected"
        /\ amendments'[a].approver = {u}
    BY <1>1, <1>5 DEF Amendment, SameRequest
  <1>. QED BY <1>4, <1>5, <1>6 DEF RejectAmendment

\* Report `new` replaces `base`, whose decision was `old`, for amendment a.
Approval(u, a, base, s, new, old) ==
    /\ s \in DOMAIN shifts
    /\ base \in DOMAIN reports
    /\ reports[base].shift = s
    /\ shifts[s].current = base
    /\ shifts[s].status # "open"
    /\ amendments[a].status = "pending"
    /\ \A t \in DOMAIN shifts : t # s => ~Active(t)
    /\ old # NoId => old \in DOMAIN acks /\ acks[old].report = base
    /\ reports' \in Seq(Report)
    /\ new \notin DOMAIN reports /\ new # NoId
    /\ DOMAIN reports' = DOMAIN reports \cup {new}
    /\ \A x \in DOMAIN reports : SameReport(x)
    /\ \A x \in DOMAIN reports : x # base => reports'[x].ack = reports[x].ack
    /\ reports'[base].ack = NoId
    /\ reports'[new] = AmendedReport(base, a, u)
    /\ acks' \in Seq(Ack)
    /\ DOMAIN acks' = DOMAIN acks
    /\ \A x \in DOMAIN acks : SameDecision(x)
    /\ \A x \in DOMAIN acks : x # old => acks'[x].supersededBy = acks[x].supersededBy
    /\ old # NoId => acks'[old].supersededBy = new
    /\ shifts' \in Seq(Shift)
    /\ DOMAIN shifts' = DOMAIN shifts
    /\ \A t \in DOMAIN shifts : t # s => shifts'[t] = shifts[t]
    /\ shifts'[s].status = "awaiting_confirmation"
    /\ shifts'[s].current = new
    /\ amendments' \in Seq(Amendment)
    /\ DOMAIN amendments' = DOMAIN amendments
    /\ \A b \in DOMAIN amendments : b # a => amendments'[b] = amendments[b]
    /\ SameRequest(a)
    /\ amendments'[a].status = "approved"
    /\ amendments'[a].approver = {u}
    /\ amendments'[a].applied = new

\* ApproveAmendment adds the next version of the current report, supersedes
\* its decision, clears its head and decides one pending amendment.
LEMMA ApproveEffect ==
    ASSUME StationInv, NEW u \in Users, NEW a \in DOMAIN amendments, ApproveAmendment(u, a)
    PROVE  Approval(u, a, amendments[a].base, amendments[a].shift, Len(reports) + 1,
                    reports[amendments[a].base].ack)
  <1>. DEFINE base == amendments[a].base
              s == amendments[a].shift
              new == Len(reports) + 1
              old == reports[base].ack
              cleared == [reports[base] EXCEPT !.ack = NoId]
              shift == [shifts[s] EXCEPT !.current = new, !.status = "awaiting_confirmation"]
              amendment == [amendments[a] EXCEPT !.status = "approved", !.approver = {u},
                                                 !.applied = new]
              table == [reports EXCEPT ![base] = cleared]
  <1>. TypeOK
    BY DEF StationInv
  <1>1. /\ s \in DOMAIN shifts
        /\ base \in DOMAIN reports
        /\ reports[base].shift = s
        /\ old # NoId => old \in DOMAIN acks /\ acks[old].report = base
    BY DEF StationInv, Links
  <1>2. /\ shifts[s].current = base
        /\ amendments[a].status = "pending"
        /\ \A t \in DOMAIN shifts : t # s => ~Active(t)
    BY DEF ApproveAmendment, MayReturn
  <1>3. base # NoId /\ new # NoId /\ new \in Nat /\ NoId \in Nat /\ base \in Nat /\ a \in Nat
    BY <1>1, Ids DEF NoId
  <1>4. shifts[s].status # "open"
    BY <1>1, <1>2, <1>3, CurrentReport
  <1>5. reports[base] \in Report /\ shifts[s] \in Shift /\ amendments[a] \in Amendment
    BY <1>1, Ids
  <1>6. /\ cleared \in Report
        /\ shift \in Shift
        /\ amendment \in Amendment
    <2>1. cleared \in Report
      BY <1>3, <1>5 DEF Report
    <2>2. shift \in Shift
      BY <1>3, <1>5 DEF Shift, ShiftStatuses, ActiveStatuses
    <2>3. amendment \in Amendment
      BY <1>3, <1>5 DEF Amendment
    <2>. QED BY <2>1, <2>2, <2>3
  <1>7. AmendedReport(base, a, u) \in Report
    BY <1>3, <1>5 DEF AmendedReport, Report, Figures, RowsOf
  <1>8. /\ reports' = Append(table, AmendedReport(base, a, u))
        /\ acks' = Superseded(old, new)
        /\ shifts' = [shifts EXCEPT ![s] = shift]
        /\ amendments' = [amendments EXCEPT ![a] = amendment]
    BY <1>1 DEF ApproveAmendment, TypeOK
  <1>9. /\ table \in Seq(Report)
        /\ Len(table) = Len(reports)
        /\ DOMAIN table = DOMAIN reports
        /\ table[base] = cleared
        /\ \A x \in DOMAIN reports : x # base => table[x] = reports[x]
    BY <1>1, <1>6, RowUpdate DEF TypeOK
  <1>10. /\ reports' \in Seq(Report)
         /\ new \notin DOMAIN reports
         /\ DOMAIN reports' = DOMAIN reports \cup {new}
         /\ \A x \in DOMAIN reports : x # base => reports'[x] = reports[x]
         /\ reports'[base] = cleared
         /\ reports'[new] = AmendedReport(base, a, u)
    <2>. HIDE DEF table, cleared
    <2>. QED BY <1>1, <1>7, <1>8, <1>9, RowInsert
  <1>11. /\ acks' \in Seq(Ack)
         /\ DOMAIN acks' = DOMAIN acks
         /\ \A x \in DOMAIN acks : x # old => acks'[x] = acks[x]
         /\ old # NoId => acks'[old] = [acks[old] EXCEPT !.supersededBy = new]
    <2>1. CASE old = NoId
      BY <1>8, <2>1 DEF Superseded, TypeOK
    <2>2. CASE old # NoId
      <3>. DEFINE ack == [acks[old] EXCEPT !.supersededBy = new]
      <3>1. old \in DOMAIN acks /\ acks[old] \in Ack
        BY <1>1, <2>2, Ids
      <3>2. ack \in Ack
        BY <1>3, <3>1 DEF Ack
      <3>3. acks' = [acks EXCEPT ![old] = ack]
        BY <1>8, <2>2, <3>1 DEF Superseded, TypeOK
      <3>4. acks' \in Seq(Ack) /\ DOMAIN acks' = DOMAIN acks
        BY <3>1, <3>2, <3>3, RowUpdate DEF TypeOK
      <3>. QED BY <2>2, <3>1, <3>3, <3>4 DEF TypeOK
    <2>. QED BY <2>1, <2>2
  <1>12. /\ shifts' \in Seq(Shift)
         /\ DOMAIN shifts' = DOMAIN shifts
         /\ \A t \in DOMAIN shifts : t # s => shifts'[t] = shifts[t]
         /\ shifts'[s] = shift
    BY <1>1, <1>6, <1>8, RowUpdate DEF TypeOK
  <1>13. shift.status = "awaiting_confirmation" /\ shift.current = new
    BY <1>5 DEF Shift
  <1>14. /\ amendments' \in Seq(Amendment)
         /\ DOMAIN amendments' = DOMAIN amendments
         /\ \A b \in DOMAIN amendments : b # a => amendments'[b] = amendments[b]
         /\ amendments'[a] = amendment
    BY <1>6, <1>8, RowUpdate DEF TypeOK
  <1>15. /\ SameReport(base)
         /\ reports'[base].ack = NoId
    BY <1>5, <1>10 DEF SameReport, Report
  <1>16. /\ SameRequest(a)
         /\ amendments'[a].status = "approved"
         /\ amendments'[a].approver = {u}
         /\ amendments'[a].applied = new
    BY <1>5, <1>14 DEF Amendment, SameRequest
  <1>17. ASSUME old # NoId
         PROVE  SameDecision(old) /\ acks'[old].supersededBy = new
    <2>1. acks[old] \in Ack
      BY <1>1, <1>17, Ids
    <2>. QED BY <1>11, <1>17, <2>1 DEF Ack, SameDecision
  <1>18. \A x \in DOMAIN reports : SameReport(x)
    BY <1>10, <1>15 DEF SameReport
  <1>19. \A x \in DOMAIN acks : SameDecision(x)
    <2>. SUFFICES ASSUME NEW x \in DOMAIN acks PROVE SameDecision(x)
      OBVIOUS
    <2>1. CASE x = old
      BY <1>17, <2>1, Ids
    <2>2. CASE x # old
      BY <1>11, <2>2 DEF SameDecision
    <2>. QED BY <2>1, <2>2
  <1>20. /\ \A x \in DOMAIN reports : x # base => reports'[x].ack = reports[x].ack
         /\ \A x \in DOMAIN acks : x # old => acks'[x].supersededBy = acks[x].supersededBy
    BY <1>10, <1>11
  <1>. HIDE DEF shift, amendment, cleared
  <1>. QED
    BY <1>1, <1>2, <1>3, <1>4, <1>10, <1>11, <1>12, <1>13, <1>14, <1>15, <1>16, <1>17, <1>18, <1>19,
       <1>20 DEF Approval

-----------------------------------------------------------------------------
(***************************************************************************)
(* Preservation, one lemma per operation.                                  *)
(***************************************************************************)

\* Operations that leave shifts, reports and decisions alone.
LEMMA FrameKeepsInv ==
    ASSUME StationInv, TypeOK', UNCHANGED <<shifts, reports, acks, amendments>>,
           DOMAIN drafts' = DOMAIN drafts
    PROVE  StationInv'
  BY DEF StationInv, Links, OneActiveShift, Active, StatusMatchesDecision, VersionChain,
     InChain, StatusIsRight, DecisionLedger, InLedger, PendingIsCurrent, SnapshotHash, Figures, NoLostAmendment

\* Claims, heartbeats and draft writes keep the invariant.
LEMMA DraftStepKeepsInv ==
    ASSUME StationInv, DraftStep, UNCHANGED <<submissionVars, governanceVars>>
    PROVE  StationInv'
  <1>. TypeOK
    BY DEF StationInv
  <1>1. TypeOK'
    BY TypeDraftStep
  <1>2. DOMAIN drafts' = DOMAIN drafts
    BY DraftWrites DEF DraftStep, Claim, Heartbeat, Write, ReadDetail, LeaseTick, TypeOK
  <1>3. UNCHANGED <<shifts, reports, acks, amendments>>
    BY DraftWrites DEF DraftStep, Claim, Heartbeat, Write, ReadDetail, LeaseTick, submissionVars,
       governanceVars
  <1>. QED BY <1>1, <1>2, <1>3, FrameKeepsInv

\* OpenShift keeps the invariant: the new shift is the only active one.
LEMMA OpenShiftKeepsInv ==
    ASSUME StationInv, NEW u \in Users, NEW b \in Backfills, OpenShift(u, b),
           UNCHANGED <<draftVars, submissionVars, governanceVars>>
    PROVE  StationInv'
  <1>. DEFINE s == Len(shifts) + 1
  <1>. TypeOK
    BY DEF StationInv
  <1>. USE DEF draftVars, submissionVars, governanceVars
  <1>1. TypeOK'
    BY TypeOpenShift DEF TypeOK
  <1>2. /\ NewShift(b) \in Shift
        /\ NewShift(b).status = "open"
        /\ NewShift(b).current = NoId
    BY BackfillsAssumption DEF NewShift, Shift, ShiftStatuses, ActiveStatuses, NoId
  <1>3. /\ DOMAIN shifts' = DOMAIN shifts \cup {s}
        /\ s \notin DOMAIN shifts
        /\ \A t \in DOMAIN shifts : shifts'[t] = shifts[t]
        /\ shifts'[s] = NewShift(b)
    BY <1>2, RowInsert DEF OpenShift, TypeOK
  <1>4. Len(drafts) = Len(shifts)
    BY DEF StationInv, Links, TypeOK
  <1>5. DOMAIN drafts' = DOMAIN shifts'
    BY <1>3, <1>4 DEF OpenShift, TypeOK
  <1>6. Links'
    BY <1>3, <1>5 DEF StationInv, Links
  <1>7. OneActiveShift'
    BY <1>3 DEF OpenShift, Active, OneActiveShift
  <1>8. StatusMatchesDecision'
    BY <1>2, <1>3 DEF StationInv, StatusMatchesDecision, StatusIsRight
  <1>9. VersionChain'
    BY <1>3 DEF StationInv, VersionChain, InChain
  <1>10. DecisionLedger'
    BY DEF StationInv, DecisionLedger, InLedger
  <1>11. PendingIsCurrent'
    BY <1>3 DEF StationInv, PendingIsCurrent, SnapshotHash, Figures
  <1>12. NoLostAmendment'
    BY <1>2, <1>3 DEF StationInv, NoLostAmendment
  <1>. QED BY <1>1, <1>6, <1>7, <1>8, <1>9, <1>10, <1>11, <1>12 DEF StationInv

\* A shift that is open has no report and no amendment.
LEMMA OpenIsFresh ==
    ASSUME StationInv, NEW s \in DOMAIN shifts, shifts[s].status = "open"
    PROVE  /\ \A r \in DOMAIN reports : reports[r].shift # s
           /\ \A a \in DOMAIN amendments : amendments[a].shift # s
  <1>. TypeOK
    BY DEF StationInv
  <1>1. shifts[s].current = NoId
    BY DEF StationInv, StatusMatchesDecision, StatusIsRight
  <1>2. \A r \in DOMAIN reports : reports[r].shift # s
    BY <1>1, Ids DEF StationInv, VersionChain, InChain
  <1>. QED BY <1>2 DEF StationInv, Links

\* Submit keeps the invariant: an open shift has no report yet.
LEMMA SubmitKeepsInv ==
    ASSUME StationInv, NEW d \in Devices, NEW k \in Keys, NEW p \in Payloads, Submit(d, k, p),
           UNCHANGED governanceVars
    PROVE  StationInv'
  <1>. PICK s, r : s = known[d].shift /\ r = Len(reports) + 1
    OBVIOUS
  <1>. TypeOK
    BY DEF StationInv
  <1>. USE DEF governanceVars
  <1>1. Submission(d, s, r)
    BY SubmitEffect
  <1>. USE DEF Submission
  <1>2. /\ \A x \in DOMAIN reports : reports[x].shift # s
        /\ \A a \in DOMAIN amendments : amendments[a].shift # s
    BY <1>1, OpenIsFresh
  <1>3. /\ reports'[r].shift = s
        /\ reports'[r].version = 1
        /\ reports'[r].supersedes = NoId
        /\ reports'[r].ack = NoId
        /\ reports'[r].applied = {}
    BY <1>1 DEF FirstReport
  <1>4. TypeOK'
    <2>1. s \in Nat /\ r \in Nat
      BY <1>1, Ids
    <2>. DEFINE q == [shift |-> s, key |-> k, hash |-> p]
    <2>2. IdemRow(q, "succeeded", r) \in Idem
      BY <2>1 DEF IdemRow, Idem
    <2>3. Success(q, r) \in [shift : Nat, key : Keys, hash : Payloads, report : Nat]
      BY <2>1 DEF Success
    <2>4. <<"report.submitted", r>> \in Event
      BY <2>1 DEF Event
    <2>5. /\ idem' = idem \cup {IdemRow(q, "succeeded", r)}
          /\ answers' = answers \cup {Success(q, r)}
          /\ audit' = audit \cup {<<"report.submitted", r>>}
          /\ UNCHANGED <<issued, known, failing>>
      BY DEF Submit
    <2>. HIDE DEF q
    <2>. QED BY <1>1, <2>2, <2>3, <2>4, <2>5 DEF TypeOK
  <1>5. Links'
    BY <1>1, <1>3 DEF StationInv, Links
  <1>6. OneActiveShift'
    BY <1>1 DEF StationInv, OneActiveShift, Active, ActiveStatuses
  <1>7. StatusMatchesDecision'
    BY <1>1, <1>3 DEF StationInv, StatusMatchesDecision, StatusIsRight
  <1>8. VersionChain'
    <2>. SUFFICES ASSUME NEW x \in DOMAIN reports'
                  PROVE  InChain(x)'
      BY DEF VersionChain
    <2>1. CASE x = r
      BY <1>1, <1>2, <1>3, <2>1 DEF InChain
    <2>2. CASE x # r
      <3>1. x \in DOMAIN reports /\ InChain(x) /\ reports[x].shift # s
        BY <1>1, <1>2, <2>2 DEF StationInv, VersionChain
      <3>2. /\ reports'[x] = reports[x]
            /\ reports'[r].shift = s
            /\ DOMAIN reports' = DOMAIN reports \cup {r}
            /\ \A y \in DOMAIN reports : reports'[y] = reports[y]
            /\ DOMAIN shifts' = DOMAIN shifts
            /\ \A t \in DOMAIN shifts : t # s => shifts'[t] = shifts[t]
        BY <1>1, <1>3, <3>1
      <3>. HIDE DEF Submission
      <3>. QED BY <3>1, <3>2 DEF InChain
    <2>. QED BY <2>1, <2>2
  <1>9. DecisionLedger'
    BY <1>1 DEF StationInv, DecisionLedger, InLedger
  <1>10. PendingIsCurrent'
    BY <1>1, <1>2 DEF StationInv, Links, PendingIsCurrent, SnapshotHash, Figures
  <1>11. NoLostAmendment'
    BY <1>1, <1>2, <1>3 DEF StationInv, StatusMatchesDecision, StatusIsRight, NoLostAmendment
  <1>. QED BY <1>4, <1>5, <1>6, <1>7, <1>8, <1>9, <1>10, <1>11 DEF StationInv

\* Acknowledge keeps the invariant: an undecided current report has no
\* decision that could be active besides the new one.
LEMMA AcknowledgeKeepsInv ==
    ASSUME StationInv, NEW u \in Users, NEW s \in DOMAIN shifts, NEW decision \in Decisions,
           Acknowledge(u, s, decision)
    PROVE  StationInv'
  <1>. PICK r, a : r = shifts[s].current /\ a = Len(acks) + 1
    OBVIOUS
  <1>. TypeOK
    BY DEF StationInv
  <1>1. Acknowledgement(u, s, decision, r, a)
    BY AcknowledgeEffect
  <1>. USE DEF Acknowledgement
  <1>3. \A t \in DOMAIN shifts : shifts'[t].current = shifts[t].current
    BY <1>1
  <1>4. UNCHANGED <<drafts, draftVars, idem, failing, answers, amendments, roles>>
    BY DEF Acknowledge
  <1>5. TypeOK'
    <2>1. <<"report.acknowledged", a>> \in Event
      BY Ids DEF Event
    <2>2. audit' = audit \cup {<<"report.acknowledged", a>>}
      BY DEF Acknowledge
    <2>. QED BY <1>1, <1>4, <2>1, <2>2 DEF TypeOK, draftVars
  <1>6. Links'
    <2>1. DOMAIN drafts' = DOMAIN shifts'
      BY <1>1, <1>4 DEF StationInv, Links
    <2>2. ASSUME NEW b \in DOMAIN amendments'
          PROVE  /\ amendments'[b].shift \in DOMAIN shifts'
                 /\ amendments'[b].base \in DOMAIN reports'
                 /\ reports'[amendments'[b].base].shift = amendments'[b].shift
      <3>1. /\ amendments' = amendments
            /\ amendments[b].shift \in DOMAIN shifts
            /\ amendments[b].base \in DOMAIN reports
            /\ reports[amendments[b].base].shift = amendments[b].shift
        BY <1>4 DEF StationInv, Links
      <3>. QED BY <1>1, <3>1 DEF SameReport
    <2>3. ASSUME NEW x \in DOMAIN reports', reports'[x].ack # NoId
          PROVE  reports'[x].ack \in DOMAIN acks' /\ acks'[reports'[x].ack].report = x
      <3>1. CASE x = r
        BY <1>1, <3>1
      <3>2. CASE x # r
        <4>1. reports'[x].ack = reports[x].ack /\ x \in DOMAIN reports
          BY <1>1, <3>2
        <4>2. reports[x].ack \in DOMAIN acks /\ acks[reports[x].ack].report = x
          BY <2>3, <4>1 DEF StationInv, Links
        <4>. QED BY <1>1, <4>1, <4>2
      <3>. QED BY <3>1, <3>2
    <2>. QED BY <2>1, <2>2, <2>3 DEF Links
  <1>7. OneActiveShift'
    BY <1>1 DEF StationInv, OneActiveShift, Active, ActiveStatuses, Decided
  <1>8. StatusMatchesDecision'
    <2>. SUFFICES ASSUME NEW t \in DOMAIN shifts
                  PROVE  StatusIsRight(t)'
      BY <1>1 DEF StatusMatchesDecision
    <2>1. StatusIsRight(t)
      BY DEF StationInv, StatusMatchesDecision, StatusIsRight
    <2>2. CASE t = s
      BY <1>1, <2>2 DEF StatusIsRight, SameReport, Decided
    <2>3. CASE t # s
      <3>1. shifts[t].current # r
        BY <1>1, <2>1, <2>3, Ids DEF StatusIsRight
      <3>. QED BY <1>1, <2>1, <2>3, <3>1 DEF StatusIsRight, SameReport
    <2>. QED BY <2>2, <2>3
  <1>9. VersionChain'
    <2>. SUFFICES ASSUME NEW x \in DOMAIN reports
                  PROVE  InChain(x)'
      BY <1>1 DEF VersionChain
    <2>1. InChain(x)
      BY DEF StationInv, VersionChain
    <2>. QED BY <1>1, <1>3, <2>1 DEF InChain, SameReport
  <1>10. DecisionLedger'
    <2>1. ASSUME NEW x \in DOMAIN acks, acks[x].report = r
          PROVE  FALSE
      <3>1. acks[x].supersededBy # NoId
        BY <1>1, <2>1, Ids DEF StationInv, DecisionLedger, InLedger
      <3>. DEFINE y == acks[x].supersededBy
      <3>2. y \in DOMAIN reports /\ reports[y].supersedes = r
        BY <2>1, <3>1 DEF StationInv, DecisionLedger, InLedger
      <3>3. reports[y].shift = s /\ reports[y].version = reports[r].version + 1
        <4>1. r \in DOMAIN reports /\ reports[r].shift = s /\ r # NoId
          BY <1>1, Ids
        <4>2. InChain(y)
          BY <3>2 DEF StationInv, VersionChain
        <4>. HIDE DEF y, Acknowledgement
        <4>. QED BY <3>2, <4>1, <4>2 DEF InChain
      <3>4. reports[y].version <= reports[r].version
        BY <3>2, <3>3 DEF StationInv, VersionChain, InChain
      <3>. QED BY <1>1, <3>3, <3>4, Ids DEF Report
    <2>2. ASSUME NEW x \in DOMAIN acks
          PROVE  InLedger(x)'
      <3>1. InLedger(x) /\ acks[x].report # r
        BY <2>1 DEF StationInv, DecisionLedger, InLedger
      <3>. QED BY <1>1, <3>1 DEF InLedger, SameReport
    <2>3. InLedger(a)'
      BY <1>1 DEF InLedger
    <2>. QED BY <1>1, <2>2, <2>3 DEF DecisionLedger
  <1>11. PendingIsCurrent'
    <2>1. ASSUME NEW x \in DOMAIN reports
          PROVE  SnapshotHash(x)' = SnapshotHash(x)
      BY <1>1 DEF SnapshotHash, Figures, RowsOf, SameReport
    <2>2. ASSUME NEW b \in DOMAIN amendments, amendments[b].status = "pending"
          PROVE  /\ amendments[b].shift \in DOMAIN shifts'
                 /\ shifts'[amendments[b].shift].current = amendments[b].base
                 /\ amendments[b].hash = SnapshotHash(amendments[b].base)'
      <3>1. /\ amendments[b].shift \in DOMAIN shifts
            /\ shifts[amendments[b].shift].current = amendments[b].base
            /\ amendments[b].hash = SnapshotHash(amendments[b].base)
        BY <2>2 DEF StationInv, PendingIsCurrent
      <3>2. amendments[b].base \in DOMAIN reports
        BY DEF StationInv, Links
      <3>. QED BY <1>1, <1>3, <1>4, <2>1, <3>1, <3>2
    <2>3. amendments' = amendments
      BY <1>4
    <2>. QED BY <2>2, <2>3 DEF StationInv, PendingIsCurrent
  <1>12. NoLostAmendment'
    BY <1>1, <1>3, <1>4, CurrentReport DEF StationInv, NoLostAmendment, SameReport
  <1>. QED BY <1>5, <1>6, <1>7, <1>8, <1>9, <1>10, <1>11, <1>12 DEF StationInv

\* RequestAmendment keeps the invariant: nothing else is pending on the base.
LEMMA RequestKeepsInv ==
    ASSUME StationInv, NEW u \in Users, NEW s \in DOMAIN shifts, NEW target \in Targets,
           NEW breakGlass \in BOOLEAN, RequestAmendment(u, s, target, breakGlass)
    PROVE  StationInv'
  <1>. PICK r, a : r = shifts[s].current /\ a = Len(amendments) + 1
    OBVIOUS
  <1>. TypeOK
    BY DEF StationInv
  <1>1. AmendmentRequest(s, r, a)
    BY RequestEffect
  <1>. USE DEF AmendmentRequest
  <1>2. UNCHANGED <<shifts, drafts, draftVars, submissionVars, acks, roles>>
    BY DEF RequestAmendment
  <1>. USE DEF submissionVars
  <1>3. TypeOK'
    <2>1. <<"amendment.requested", a>> \in Event
      BY Ids DEF Event
    <2>2. audit' = audit \cup {<<"amendment.requested", a>>}
      BY DEF RequestAmendment
    <2>. QED BY <1>1, <1>2, <2>1, <2>2 DEF TypeOK, draftVars
  <1>4. shifts[s].current = r
    OBVIOUS
  <1>5. Links'
    BY <1>1, <1>2 DEF StationInv, Links
  <1>6. PendingIsCurrent'
    BY <1>1, <1>2, <1>4 DEF StationInv, PendingIsCurrent, SnapshotHash, Figures
  <1>7. NoLostAmendment'
    BY <1>1, <1>2 DEF StationInv, NoLostAmendment
  <1>. QED
    BY <1>2, <1>3, <1>5, <1>6, <1>7 DEF StationInv, OneActiveShift, Active, StatusMatchesDecision,
       VersionChain, InChain, DecisionLedger, InLedger, StatusIsRight

\* RejectAmendment keeps the invariant.
LEMMA RejectKeepsInv ==
    ASSUME StationInv, NEW u \in Users, NEW a \in DOMAIN amendments, RejectAmendment(u, a)
    PROVE  StationInv'
  <1>. TypeOK
    BY DEF StationInv
  <1>1. /\ amendments[a].status = "pending"
        /\ amendments' \in Seq(Amendment)
        /\ DOMAIN amendments' = DOMAIN amendments
        /\ \A b \in DOMAIN amendments : b # a => amendments'[b] = amendments[b]
        /\ SameRequest(a)
        /\ amendments'[a].status = "rejected"
    BY RejectEffect
  <1>2. UNCHANGED <<shifts, drafts, draftVars, submissionVars, acks, roles>>
    BY DEF RejectAmendment
  <1>. USE DEF submissionVars
  <1>3. TypeOK'
    <2>1. <<"amendment.rejected", a>> \in Event
      BY Ids DEF Event
    <2>2. audit' = audit \cup {<<"amendment.rejected", a>>}
      BY DEF RejectAmendment
    <2>. QED BY <1>1, <1>2, <2>1, <2>2 DEF TypeOK, draftVars
  <1>4. \A b \in DOMAIN amendments : SameRequest(b)
    BY <1>1 DEF SameRequest
  <1>5. Links'
    BY <1>1, <1>2, <1>4 DEF StationInv, Links, SameRequest
  <1>6. PendingIsCurrent'
    BY <1>1, <1>2, <1>4 DEF StationInv, PendingIsCurrent, SnapshotHash, Figures,
       SameRequest
  <1>7. NoLostAmendment'
    BY <1>1, <1>2, <1>4 DEF StationInv, NoLostAmendment, SameRequest
  <1>. QED
    BY <1>2, <1>3, <1>5, <1>6, <1>7 DEF StationInv, OneActiveShift, Active, StatusMatchesDecision,
       VersionChain, InChain, DecisionLedger, InLedger, StatusIsRight

\* ApproveAmendment keeps the invariant: all versions of the shift are at most
\* that of the base, so the new one is unique and last.
LEMMA ApproveKeepsInv ==
    ASSUME StationInv, NEW u \in Users, NEW a \in DOMAIN amendments, ApproveAmendment(u, a)
    PROVE  StationInv'
  <1>. PICK base, s, new, old :
          /\ base = amendments[a].base
          /\ s = amendments[a].shift
          /\ new = Len(reports) + 1
          /\ old = reports[base].ack
    OBVIOUS
  <1>. TypeOK
    BY DEF StationInv
  <1>1. Approval(u, a, base, s, new, old)
    BY ApproveEffect
  <1>. USE DEF Approval
  <1>2. /\ reports'[new].shift = s
        /\ reports'[new].version = reports[base].version + 1
        /\ reports'[new].supersedes = base
        /\ reports'[new].applied =
              reports[base].applied \cup {x \in {a} : amendments[x].target \in FigureTargets}
        /\ reports'[new].ack = NoId
    BY <1>1 DEF AmendedReport
  <1>3. UNCHANGED <<drafts, draftVars, idem, failing, answers, roles>>
    BY DEF ApproveAmendment
  <1>4. \A b \in DOMAIN amendments : SameRequest(b)
    BY <1>1 DEF SameRequest
  <1>5. TypeOK'
    <2>1. <<"amendment.approved", new>> \in Event
      BY Ids DEF Event
    <2>2. audit' = audit \cup {<<"amendment.approved", new>>}
      BY DEF ApproveAmendment
    <2>. QED BY <1>1, <1>3, <2>1, <2>2 DEF TypeOK, draftVars
  <1>6. Links'
    <2>1. DOMAIN drafts' = DOMAIN shifts'
      BY <1>1, <1>3 DEF StationInv, Links
    <2>2. ASSUME NEW b \in DOMAIN amendments'
          PROVE  /\ amendments'[b].shift \in DOMAIN shifts'
                 /\ amendments'[b].base \in DOMAIN reports'
                 /\ reports'[amendments'[b].base].shift = amendments'[b].shift
      <3>1. /\ b \in DOMAIN amendments
            /\ amendments[b].shift \in DOMAIN shifts
            /\ amendments[b].base \in DOMAIN reports
            /\ reports[amendments[b].base].shift = amendments[b].shift
        BY <1>1 DEF StationInv, Links
      <3>. QED BY <1>1, <1>4, <3>1 DEF SameReport, SameRequest
    <2>3. ASSUME NEW x \in DOMAIN reports', reports'[x].ack # NoId
          PROVE  reports'[x].ack \in DOMAIN acks' /\ acks'[reports'[x].ack].report = x
      <3>1. x \in DOMAIN reports /\ reports'[x].ack = reports[x].ack
        BY <1>1, <1>2, <2>3
      <3>2. reports[x].ack \in DOMAIN acks /\ acks[reports[x].ack].report = x
        BY <2>3, <3>1 DEF StationInv, Links
      <3>. QED BY <1>1, <3>1, <3>2 DEF SameDecision
    <2>. QED BY <2>1, <2>2, <2>3 DEF Links
  <1>7. OneActiveShift'
    BY <1>1 DEF OneActiveShift, Active
  <1>8. StatusMatchesDecision'
    <2>. SUFFICES ASSUME NEW t \in DOMAIN shifts
                  PROVE  StatusIsRight(t)'
      BY <1>1 DEF StatusMatchesDecision
    <2>1. StatusIsRight(t)
      BY DEF StationInv, StatusMatchesDecision
    <2>2. CASE t = s
      BY <1>1, <1>2, <2>2 DEF StatusIsRight
    <2>3. CASE t # s
      <3>1. shifts[t].current # base
        BY <1>1, <2>1, <2>3, Ids DEF StatusIsRight
      <3>. QED BY <1>1, <2>1, <2>3, <3>1 DEF StatusIsRight, SameReport, SameDecision, Decided
    <2>. QED BY <2>2, <2>3
  <1>9. VersionChain'
    <2>1. ASSUME NEW x \in DOMAIN reports, reports[x].shift = s
          PROVE  reports[x].version <= reports[base].version
      BY <1>1, <2>1 DEF StationInv, VersionChain, InChain
    <2>2. \A x \in DOMAIN reports : reports[x].version \in Nat
      BY Ids DEF Report
    <2>3. ASSUME NEW x \in DOMAIN reports
          PROVE  InChain(x)'
      <3>1. InChain(x)
        BY DEF StationInv, VersionChain
      <3>2. reports'[x].shift = reports[x].shift /\ reports'[x].version = reports[x].version
        BY <1>1 DEF SameReport
      <3>3. ASSUME NEW q \in DOMAIN reports', reports'[q].shift = reports'[x].shift,
                   reports'[q].version = reports'[x].version
            PROVE  q = x
        <4>1. CASE q = new
          BY <1>1, <1>2, <2>1, <2>2, <3>2, <3>3, <4>1
        <4>2. CASE q # new
          BY <1>1, <3>1, <3>2, <3>3, <4>2 DEF SameReport, InChain
        <4>. QED BY <4>1, <4>2
      <3>4. LET last == shifts'[reports'[x].shift].current
            IN  last \in DOMAIN reports' /\ reports'[x].version <= reports'[last].version
        <4>1. CASE reports[x].shift = s
          BY <1>1, <1>2, <2>1, <2>2, <3>2, <4>1
        <4>2. CASE reports[x].shift # s
          BY <1>1, <3>1, <3>2, <4>2 DEF SameReport, InChain
        <4>. QED BY <4>1, <4>2
      <3>5. IF reports'[x].version = 1
            THEN reports'[x].supersedes = NoId
            ELSE /\ reports'[x].supersedes \in DOMAIN reports'
                 /\ reports'[reports'[x].supersedes].shift = reports'[x].shift
                 /\ reports'[reports'[x].supersedes].version + 1 = reports'[x].version
        BY <1>1, <3>1 DEF SameReport, InChain
      <3>6. reports'[x].shift \in DOMAIN shifts'
        BY <1>1, <3>1, <3>2 DEF InChain
      <3>. QED BY <3>3, <3>4, <3>5, <3>6 DEF InChain
    <2>4. InChain(new)'
      <3>1. reports[base].version # 0
        <4>1. ASSUME reports[base].version = 0
              PROVE  FALSE
          <5>1. InChain(base)
            BY <1>1 DEF StationInv, VersionChain
          <5>2. /\ reports[base].supersedes \in DOMAIN reports
                /\ reports[reports[base].supersedes].version + 1 = 0
            BY <4>1, <5>1 DEF InChain
          <5>. QED BY <2>2, <5>2
        <4>. QED BY <4>1
      <3>2. reports'[new].version # 1
        BY <1>1, <1>2, <2>2, <3>1
      <3>3. ASSUME NEW q \in DOMAIN reports', reports'[q].shift = s,
                   reports'[q].version = reports[base].version + 1
            PROVE  q = new
        BY <1>1, <2>1, <2>2, <3>3 DEF SameReport
      <3>4. base \in DOMAIN reports' /\ reports'[base].shift = s
            /\ reports'[base].version = reports[base].version
        BY <1>1 DEF SameReport
      <3>5. reports'[new].version <= reports'[new].version
        BY <1>1, <1>2, <2>2
      <3>. QED BY <1>1, <1>2, <3>2, <3>3, <3>4, <3>5 DEF InChain
    <2>. QED BY <1>1, <2>3, <2>4 DEF VersionChain
  <1>10. DecisionLedger'
    <2>. SUFFICES ASSUME NEW x \in DOMAIN acks
                  PROVE  InLedger(x)'
      BY <1>1 DEF DecisionLedger
    <2>1. InLedger(x)
      BY DEF StationInv, DecisionLedger
    <2>2. acks'[x].report = acks[x].report
      BY <1>1 DEF SameDecision
    <2>3. CASE x = old
      BY <1>1, <1>2, <2>1, <2>2, <2>3, Ids DEF InLedger
    <2>4. CASE x # old
      <3>1. acks'[x].supersededBy = acks[x].supersededBy
        BY <1>1, <2>4
      <3>2. CASE acks[x].supersededBy = NoId
        BY <1>1, <2>1, <2>2, <2>4, <3>1, <3>2 DEF InLedger
      <3>3. CASE acks[x].supersededBy # NoId
        <4>1. /\ acks[x].report \in DOMAIN reports
              /\ acks[x].supersededBy \in DOMAIN reports
              /\ reports[acks[x].supersededBy].supersedes = acks[x].report
              /\ reports[acks[x].report].ack = NoId
          BY <2>1, <3>3 DEF InLedger
        <4>2. reports'[acks[x].supersededBy].supersedes = acks[x].report
          BY <1>1, <4>1 DEF SameReport
        <4>3. reports'[acks[x].report].ack = NoId
          BY <1>1, <4>1
        <4>. QED BY <1>1, <2>2, <3>1, <3>3, <4>1, <4>2, <4>3 DEF InLedger
      <3>. QED BY <3>2, <3>3
    <2>. QED BY <2>3, <2>4
  <1>11. PendingIsCurrent'
    <2>1. ASSUME NEW b \in DOMAIN amendments, amendments'[b].status = "pending"
          PROVE  /\ amendments'[b] = amendments[b]
                 /\ b # a
                 /\ amendments[b].shift \in DOMAIN shifts
                 /\ amendments[b].shift # s
                 /\ shifts[amendments[b].shift].current = amendments[b].base
                 /\ amendments[b].hash = SnapshotHash(amendments[b].base)
                 /\ amendments[b].base \in DOMAIN reports
      <3>1. b # a /\ amendments'[b] = amendments[b]
        BY <1>1, <2>1
      <3>2. /\ amendments[b].shift \in DOMAIN shifts
            /\ shifts[amendments[b].shift].current = amendments[b].base
            /\ amendments[b].hash = SnapshotHash(amendments[b].base)
            /\ amendments[b].base = base => b = a
        BY <1>1, <2>1, <3>1 DEF StationInv, PendingIsCurrent
      <3>. QED BY <1>1, <3>1, <3>2 DEF StationInv, Links
    <2>2. ASSUME NEW x \in DOMAIN reports
          PROVE  SnapshotHash(x)' = SnapshotHash(x)
      BY <1>1 DEF SnapshotHash, Figures, SameReport
    <2>3. ASSUME NEW b \in DOMAIN amendments, amendments'[b].status = "pending",
                 NEW c \in DOMAIN amendments, amendments'[c].status = "pending",
                 amendments'[c].base = amendments'[b].base
          PROVE  c = b
      BY <2>1, <2>3 DEF StationInv, PendingIsCurrent
    <2>. SUFFICES ASSUME NEW b \in DOMAIN amendments, amendments'[b].status = "pending"
                  PROVE  /\ amendments'[b].shift \in DOMAIN shifts'
                         /\ shifts'[amendments'[b].shift].current = amendments'[b].base
                         /\ amendments'[b].hash = SnapshotHash(amendments[b].base)'
      BY <1>1, <2>1, <2>3 DEF PendingIsCurrent
    <2>. QED BY <1>1, <2>1, <2>2
  <1>12. NoLostAmendment'
    <2>. DEFINE Approved(t) == {b \in DOMAIN amendments :
                                  /\ amendments[b].shift = t
                                  /\ amendments[b].status = "approved"
                                  /\ amendments[b].target \in FigureTargets}
                Approved1(t) == {b \in DOMAIN amendments' :
                                  /\ amendments'[b].shift = t
                                  /\ amendments'[b].status = "approved"
                                  /\ amendments'[b].target \in FigureTargets}
    <2>. SUFFICES ASSUME NEW t \in DOMAIN shifts', shifts'[t].current # NoId
                  PROVE  reports'[shifts'[t].current].applied = Approved1(t)
      BY DEF NoLostAmendment
    <2>1. CASE t = s
      <3>1. Approved1(s) = Approved(s) \cup {x \in {a} : amendments[x].target \in FigureTargets}
        BY <1>1, <1>4 DEF SameRequest
      <3>2. reports[base].applied = Approved(s)
        BY <1>1, Ids DEF StationInv, NoLostAmendment
      <3>. QED BY <1>1, <1>2, <2>1, <3>1, <3>2
    <2>2. CASE t # s
      <3>1. Approved1(t) = Approved(t)
        <4>1. amendments'[a].shift # t /\ amendments[a].shift # t
          BY <1>1, <2>2 DEF SameRequest
        <4>. QED BY <1>1, <4>1
      <3>2. reports[shifts[t].current].applied = Approved(t) /\ shifts[t].current \in DOMAIN reports
        BY <1>1, <2>2, CurrentReport DEF StationInv, NoLostAmendment
      <3>. QED BY <1>1, <2>2, <3>1, <3>2 DEF SameReport
    <2>. QED BY <2>1, <2>2
  <1>. QED BY <1>5, <1>6, <1>7, <1>8, <1>9, <1>10, <1>11, <1>12 DEF StationInv

\* Replays, rollbacks and failure marks touch keys and answers only.
LEMMA OtherSubmissionsKeepInv ==
    ASSUME StationInv, UNCHANGED governanceVars,
           \/ \E q \in Request : SubmitReplay(q) \/ SubmitAborts(q)
           \/ \E q \in failing : MarkSubmitFailed(q) \/ MarkIsLost(q)
    PROVE  StationInv'
  <1>. TypeOK
    BY DEF StationInv
  <1>. USE DEF governanceVars, shiftVars, draftVars
  <1>1. ASSUME NEW q \in Request
        PROVE  q.shift \in Nat /\ q.key \in Keys /\ q.hash \in Payloads
    BY MaxShiftsAssumption DEF Request
  <1>2. ASSUME NEW q \in Request, SubmitReplay(q)
        PROVE  TypeOK'
    <2>1. PICK row \in IdemRows(q) : answers' = answers \cup {Success(q, row.report)}
      BY <1>2 DEF SubmitReplay
    <2>2. row \in Idem
      BY <2>1 DEF IdemRows, TypeOK
    <2>3. row.report \in Nat
      BY <2>2 DEF Idem
    <2>4. Success(q, row.report) \in [shift : Nat, key : Keys, hash : Payloads, report : Nat]
      BY <1>1, <2>3 DEF Success
    <2>5. UNCHANGED <<shifts, drafts, audit, issued, known, reports, idem, failing, acks, amendments, roles>>
      BY <1>2 DEF SubmitReplay
    <2>. QED BY <2>1, <2>4, <2>5 DEF TypeOK
  <1>3. ASSUME NEW q \in Request, SubmitAborts(q)
        PROVE  TypeOK'
    BY <1>3 DEF SubmitAborts, TypeOK
  <1>4. ASSUME NEW q \in failing, MarkSubmitFailed(q)
        PROVE  TypeOK'
    <2>1. q \in Request
      BY DEF TypeOK
    <2>2. IdemRow(q, "failed", NoId) \in Idem
      BY <1>1, <2>1 DEF IdemRow, Idem, NoId
    <2>3. ASSUME NEW row \in idem
          PROVE  [row EXCEPT !.status = "failed"] \in Idem /\ row \in Idem
      <3>1. row \in Idem
        BY DEF TypeOK
      <3>. QED BY <3>1 DEF Idem
    <2>4. MarkedFailed(q) \subseteq Idem
      BY <2>2, <2>3 DEF MarkedFailed
    <2>. QED BY <1>4, <2>4 DEF MarkSubmitFailed, TypeOK
  <1>5. ASSUME NEW q \in failing, MarkIsLost(q)
        PROVE  TypeOK'
    BY <1>5 DEF MarkIsLost, TypeOK
  <1>6. TypeOK'
    BY <1>2, <1>3, <1>4, <1>5
  <1>7. UNCHANGED <<shifts, reports, acks, amendments, drafts>>
    BY DEF SubmitReplay, SubmitAborts, MarkSubmitFailed, MarkIsLost
  <1>. QED BY <1>6, <1>7, FrameKeepsInv

\* Role changes touch the roles only.
LEMMA RoleChangesKeepInv ==
    ASSUME StationInv, NEW change \in RoleChanges,
           AssignRole(change[1], change[2]) \/ RemoveRole(change[1], change[2])
    PROVE  StationInv'
  <1>. TypeOK
    BY DEF StationInv
  <1>1. change[1] \in Users /\ change[2] \in Roles
    BY RoleChangesAssumption
  <1>2. roles' \in [Users -> SUBSET Roles]
    <2>1. roles \in [Users -> SUBSET Roles]
      BY DEF TypeOK
    <2>2. \/ roles' = [roles EXCEPT ![change[1]] = @ \cup {change[2]}]
          \/ roles' = [roles EXCEPT ![change[1]] = @ \ {change[2]}]
      BY DEF AssignRole, RemoveRole
    <2>. QED BY <1>1, <2>1, <2>2
  <1>3. UNCHANGED <<shifts, drafts, audit, issued, known, reports, idem, failing, answers, acks, amendments>>
    BY DEF AssignRole, RemoveRole, shiftVars, draftVars, submissionVars
  <1>4. TypeOK'
    BY <1>2, <1>3 DEF TypeOK
  <1>. QED BY <1>3, <1>4, FrameKeepsInv

\* Every step keeps the invariant.
LEMMA InvNext == StationInv /\ [Next]_vars => StationInv'
  <1>. SUFFICES ASSUME StationInv, [Next]_vars
                PROVE  StationInv'
    OBVIOUS
  <1>1. CASE \E u \in Users, b \in Backfills :
                OpenShift(u, b) /\ UNCHANGED <<draftVars, submissionVars, governanceVars>>
    BY <1>1, OpenShiftKeepsInv
  <1>2. CASE DraftStep /\ UNCHANGED <<submissionVars, governanceVars>>
    BY <1>2, DraftStepKeepsInv
  <1>3. CASE SubmissionStep /\ UNCHANGED governanceVars
    BY <1>3, SubmitKeepsInv, OtherSubmissionsKeepInv DEF SubmissionStep
  <1>4. CASE GovernanceStep
    BY <1>4, AcknowledgeKeepsInv, RequestKeepsInv, RejectKeepsInv, ApproveKeepsInv,
       RoleChangesKeepInv DEF GovernanceStep
  <1>5. CASE UNCHANGED vars
    <2>1. TypeOK'
      BY <1>5 DEF StationInv, TypeOK, vars, shiftVars, draftVars, submissionVars, governanceVars
    <2>. QED
      BY <1>5, <2>1, FrameKeepsInv DEF vars, shiftVars, draftVars, submissionVars, governanceVars
  <1>. QED BY <1>1, <1>2, <1>3, <1>4, <1>5 DEF Next

-----------------------------------------------------------------------------
(***************************************************************************)
(* The theorems about every reachable state.                               *)
(***************************************************************************)

\* The inductive invariant holds in every state the station can reach.
THEOREM StationInvariant == Spec => []StationInv
  BY InvInit, InvNext, PTL DEF Spec

\* Every table of the station always holds rows of its type.
THEOREM TypeCorrect == Spec => []TypeOK
  <1>1. StationInv => TypeOK
    BY DEF StationInv
  <1>. QED BY <1>1, StationInvariant, PTL

\* Opening, submitting and approving amendments never leave two shifts of the
\* station active.
THEOREM AtMostOneActive == Spec => []OneActiveShift
  <1>1. StationInv => OneActiveShift
    BY DEF StationInv
  <1>. QED BY <1>1, StationInvariant, PTL

\* The status of a shift always agrees with the decision on its current
\* report.
THEOREM StatusAgrees == Spec => []StatusMatchesDecision
  <1>1. StationInv => StatusMatchesDecision
    BY DEF StationInv
  <1>. QED BY <1>1, StationInvariant, PTL

\* The reports of a shift are always one chain of versions.
THEOREM VersionsChain == Spec => []VersionChain
  <1>1. StationInv => VersionChain
    BY DEF StationInv
  <1>. QED BY <1>1, StationInvariant, PTL

\* Every decision is always the active one of its report or superseded.
THEOREM DecisionsAccounted == Spec => []DecisionLedger
  <1>1. StationInv => DecisionLedger
    BY DEF StationInv
  <1>. QED BY <1>1, StationInvariant, PTL

\* A pending amendment is always based on the current report.
THEOREM PendingStaysCurrent == Spec => []PendingIsCurrent
  <1>1. StationInv => PendingIsCurrent
    BY DEF StationInv
  <1>. QED BY <1>1, StationInvariant, PTL

\* No approved amendment of a figure is ever lost from the current report.
THEOREM AmendmentsKept == Spec => []NoLostAmendment
  <1>1. StationInv => NoLostAmendment
    BY DEF StationInv
  <1>. QED BY <1>1, StationInvariant, PTL

-----------------------------------------------------------------------------
(***************************************************************************)
(* What no step may change.                                                *)
(***************************************************************************)

ReportsKept ==
    \A r \in DOMAIN reports :
        /\ r \in DOMAIN reports'
        /\ reports'[r] = [reports[r] EXCEPT !.ack = reports'[r].ack]

DecisionsKept ==
    \A a \in DOMAIN acks :
        /\ a \in DOMAIN acks'
        /\ acks'[a] = [acks[a] EXCEPT !.supersededBy = acks'[a].supersededBy]

AmendmentsDecidedOnce ==
    \A a \in DOMAIN amendments :
        amendments[a].status # "pending" => amendments'[a] = amendments[a]

\* Reports that agree on all but the head differ in the head only.
LEMMA SameButHead ==
    ASSUME NEW x \in Report, NEW y \in Report,
           y.shift = x.shift, y.version = x.version, y.supersedes = x.supersedes,
           y.submittedBy = x.submittedBy, y.rows = x.rows, y.applied = x.applied
    PROVE  y = [x EXCEPT !.ack = y.ack]
  BY DEF Report

\* Decisions that agree on all but the supersession differ in that only.
LEMMA SameButSupersession ==
    ASSUME NEW x \in Ack, NEW y \in Ack,
           y.report = x.report, y.by = x.by, y.decision = x.decision
    PROVE  y = [x EXCEPT !.supersededBy = y.supersededBy]
  BY DEF Ack

\* A row keeps itself when only its head or its supersession is replaced by
\* the value it has.
LEMMA UnchangedRows ==
    ASSUME TypeOK
    PROVE  /\ \A r \in DOMAIN reports : reports[r] = [reports[r] EXCEPT !.ack = reports[r].ack]
           /\ \A a \in DOMAIN acks :
                 acks[a] = [acks[a] EXCEPT !.supersededBy = acks[a].supersededBy]
  BY Ids, SameButHead, SameButSupersession

\* No step changes a report but its head.
LEMMA StepKeepsReports ==
    ASSUME StationInv, [Next]_vars
    PROVE  ReportsKept
  <1>. TypeOK
    BY DEF StationInv
  <1>. TypeOK'
    BY InvNext DEF StationInv
  <1>0. ASSUME reports' = reports
        PROVE  ReportsKept
    BY <1>0, UnchangedRows DEF ReportsKept
  <1>1. ASSUME DOMAIN reports \subseteq DOMAIN reports', \A x \in DOMAIN reports : SameReport(x)
        PROVE  ReportsKept
    <2>. SUFFICES ASSUME NEW x \in DOMAIN reports
                  PROVE  reports'[x] = [reports[x] EXCEPT !.ack = reports'[x].ack]
      BY <1>1 DEF ReportsKept
    <2>1. reports[x] \in Report /\ reports'[x] \in Report
      BY <1>1 DEF TypeOK
    <2>. QED BY <1>1, <2>1, SameButHead DEF SameReport
  <1>2. ASSUME NEW d \in Devices, NEW k \in Keys, NEW p \in Payloads, Submit(d, k, p)
        PROVE  ReportsKept
    <2>1. PICK s, r : Submission(d, s, r)
      BY <1>2, SubmitEffect
    <2>. QED BY <1>1, <2>1 DEF Submission, SameReport
  <1>3. ASSUME NEW u \in Users, NEW s \in DOMAIN shifts, NEW decision \in Decisions,
               Acknowledge(u, s, decision)
        PROVE  ReportsKept
    <2>1. PICK r, a : Acknowledgement(u, s, decision, r, a)
      BY <1>3, AcknowledgeEffect
    <2>. QED BY <1>1, <2>1 DEF Acknowledgement
  <1>4. ASSUME NEW u \in Users, NEW a \in DOMAIN amendments, ApproveAmendment(u, a)
        PROVE  ReportsKept
    <2>1. PICK base, s, new, old : Approval(u, a, base, s, new, old)
      BY <1>4, ApproveEffect
    <2>. QED BY <1>1, <2>1 DEF Approval
  <1>5. CASE SubmissionStep
    <2>1. CASE \E d \in Devices, k \in Keys, p \in Payloads : Submit(d, k, p)
      BY <1>2, <2>1
    <2>2. CASE \/ \E q \in Request : SubmitReplay(q) \/ SubmitAborts(q)
               \/ \E q \in failing : MarkSubmitFailed(q) \/ MarkIsLost(q)
      BY <1>0, <2>2 DEF SubmitReplay, SubmitAborts, MarkSubmitFailed, MarkIsLost
    <2>. QED BY <1>5, <2>1, <2>2 DEF SubmissionStep
  <1>6. CASE GovernanceStep
    <2>1. ASSUME \/ \E u \in Users, s \in DOMAIN shifts, target \in Targets, b \in BOOLEAN :
                       RequestAmendment(u, s, target, b)
                 \/ \E u \in Users, a \in DOMAIN amendments : RejectAmendment(u, a)
                 \/ \E change \in RoleChanges :
                       AssignRole(change[1], change[2]) \/ RemoveRole(change[1], change[2])
          PROVE  ReportsKept
      BY <1>0, <2>1 DEF RequestAmendment, RejectAmendment, AssignRole, RemoveRole, submissionVars
    <2>. QED BY <1>3, <1>4, <1>6, <2>1 DEF GovernanceStep
  <1>7. CASE UNCHANGED submissionVars
    BY <1>0, <1>7 DEF submissionVars
  <1>. QED BY <1>5, <1>6, <1>7 DEF Next, vars, submissionVars

\* No step changes a decision but its supersession.
LEMMA StepKeepsDecisions ==
    ASSUME StationInv, [Next]_vars
    PROVE  DecisionsKept
  <1>. TypeOK
    BY DEF StationInv
  <1>. TypeOK'
    BY InvNext DEF StationInv
  <1>0. ASSUME acks' = acks
        PROVE  DecisionsKept
    BY <1>0, UnchangedRows DEF DecisionsKept
  <1>1. ASSUME DOMAIN acks \subseteq DOMAIN acks', \A x \in DOMAIN acks : SameDecision(x)
        PROVE  DecisionsKept
    <2>. SUFFICES ASSUME NEW x \in DOMAIN acks
                  PROVE  acks'[x] = [acks[x] EXCEPT !.supersededBy = acks'[x].supersededBy]
      BY <1>1 DEF DecisionsKept
    <2>1. acks[x] \in Ack /\ acks'[x] \in Ack
      BY <1>1 DEF TypeOK
    <2>. QED BY <1>1, <2>1, SameButSupersession DEF SameDecision
  <1>2. ASSUME NEW u \in Users, NEW s \in DOMAIN shifts, NEW decision \in Decisions,
               Acknowledge(u, s, decision)
        PROVE  DecisionsKept
    <2>1. PICK r, a : Acknowledgement(u, s, decision, r, a)
      BY <1>2, AcknowledgeEffect
    <2>. QED BY <1>1, <2>1 DEF Acknowledgement, SameDecision
  <1>3. ASSUME NEW u \in Users, NEW a \in DOMAIN amendments, ApproveAmendment(u, a)
        PROVE  DecisionsKept
    <2>1. PICK base, s, new, old : Approval(u, a, base, s, new, old)
      BY <1>3, ApproveEffect
    <2>. QED BY <1>1, <2>1 DEF Approval
  <1>4. CASE GovernanceStep
    <2>1. ASSUME \/ \E u \in Users, s \in DOMAIN shifts, target \in Targets, b \in BOOLEAN :
                       RequestAmendment(u, s, target, b)
                 \/ \E u \in Users, a \in DOMAIN amendments : RejectAmendment(u, a)
                 \/ \E change \in RoleChanges :
                       AssignRole(change[1], change[2]) \/ RemoveRole(change[1], change[2])
          PROVE  DecisionsKept
      BY <1>0, <2>1 DEF RequestAmendment, RejectAmendment, AssignRole, RemoveRole
    <2>. QED BY <1>2, <1>3, <1>4, <2>1 DEF GovernanceStep
  <1>5. CASE UNCHANGED governanceVars
    BY <1>0, <1>5 DEF governanceVars
  <1>. QED BY <1>4, <1>5 DEF Next, vars, governanceVars

\* No step changes an amendment that was decided.
LEMMA StepKeepsAmendments ==
    ASSUME StationInv, [Next]_vars
    PROVE  AmendmentsDecidedOnce
  <1>0. ASSUME amendments' = amendments
        PROVE  AmendmentsDecidedOnce
    BY <1>0 DEF AmendmentsDecidedOnce
  <1>1. ASSUME NEW u \in Users, NEW s \in DOMAIN shifts, NEW target \in Targets,
               NEW b \in BOOLEAN, RequestAmendment(u, s, target, b)
        PROVE  AmendmentsDecidedOnce
    <2>1. PICK r, a : AmendmentRequest(s, r, a)
      BY <1>1, RequestEffect
    <2>. QED BY <2>1 DEF AmendmentRequest, AmendmentsDecidedOnce
  <1>2. ASSUME NEW u \in Users, NEW a \in DOMAIN amendments, RejectAmendment(u, a)
        PROVE  AmendmentsDecidedOnce
    BY <1>2, RejectEffect DEF AmendmentsDecidedOnce
  <1>3. ASSUME NEW u \in Users, NEW a \in DOMAIN amendments, ApproveAmendment(u, a)
        PROVE  AmendmentsDecidedOnce
    <2>1. PICK base, s, new, old : Approval(u, a, base, s, new, old)
      BY <1>3, ApproveEffect
    <2>. QED BY <2>1 DEF Approval, AmendmentsDecidedOnce
  <1>4. CASE GovernanceStep
    <2>1. ASSUME \/ \E u \in Users, s \in DOMAIN shifts, decision \in Decisions :
                       Acknowledge(u, s, decision)
                 \/ \E change \in RoleChanges :
                       AssignRole(change[1], change[2]) \/ RemoveRole(change[1], change[2])
          PROVE  AmendmentsDecidedOnce
      BY <1>0, <2>1 DEF Acknowledge, AssignRole, RemoveRole
    <2>. QED BY <1>1, <1>2, <1>3, <1>4, <2>1 DEF GovernanceStep
  <1>5. CASE UNCHANGED governanceVars
    BY <1>0, <1>5 DEF governanceVars
  <1>. QED BY <1>4, <1>5 DEF Next, vars, governanceVars

\* No step changes or removes the fate of a key.
LEMMA StepKeepsKeys ==
    ASSUME StationInv, [Next]_vars
    PROVE  idem \subseteq idem'
  <1>. TypeOK
    BY DEF StationInv
  <1>1. ASSUME NEW q \in failing, MarkSubmitFailed(q)
        PROVE  idem \subseteq idem'
    <2>1. ASSUME NEW row \in idem, row.status # "succeeded"
          PROVE  [row EXCEPT !.status = "failed"] = row
      <3>1. row \in Idem /\ row.status = "failed"
        BY <2>1 DEF TypeOK, Idem
      <3>. QED BY <3>1 DEF Idem
    <2>. SUFFICES ASSUME NEW row \in idem
                  PROVE  row \in MarkedFailed(q)
      BY <1>1 DEF MarkSubmitFailed
    <2>. QED BY <2>1 DEF MarkedFailed
  <1>2. CASE SubmissionStep
    <2>1. ASSUME NEW d \in Devices, NEW k \in Keys, NEW p \in Payloads, Submit(d, k, p)
          PROVE  idem \subseteq idem'
      BY <2>1 DEF Submit
    <2>2. ASSUME NEW q \in Request, SubmitReplay(q) \/ SubmitAborts(q)
          PROVE  idem \subseteq idem'
      BY <2>2 DEF SubmitReplay, SubmitAborts
    <2>3. ASSUME NEW q \in failing, MarkIsLost(q)
          PROVE  idem \subseteq idem'
      BY <2>3 DEF MarkIsLost
    <2>. QED BY <1>1, <1>2, <2>1, <2>2, <2>3 DEF SubmissionStep
  <1>3. CASE GovernanceStep
    <2>1. ASSUME NEW u \in Users, NEW s \in DOMAIN shifts, NEW decision \in Decisions,
                 Acknowledge(u, s, decision)
          PROVE  idem' = idem
      BY <2>1 DEF Acknowledge
    <2>2. ASSUME NEW u \in Users, NEW s \in DOMAIN shifts, NEW target \in Targets,
                 NEW b \in BOOLEAN, RequestAmendment(u, s, target, b)
          PROVE  idem' = idem
      BY <2>2 DEF RequestAmendment, submissionVars
    <2>3. ASSUME NEW u \in Users, NEW a \in DOMAIN amendments,
                 RejectAmendment(u, a) \/ ApproveAmendment(u, a)
          PROVE  idem' = idem
      BY <2>3 DEF RejectAmendment, ApproveAmendment, submissionVars
    <2>4. ASSUME NEW change \in RoleChanges,
                 AssignRole(change[1], change[2]) \/ RemoveRole(change[1], change[2])
          PROVE  idem' = idem
      BY <2>4 DEF AssignRole, RemoveRole, submissionVars
    <2>. QED BY <1>3, <2>1, <2>2, <2>3, <2>4 DEF GovernanceStep
  <1>4. CASE UNCHANGED submissionVars
    BY <1>4 DEF submissionVars
  <1>. QED BY <1>2, <1>3, <1>4 DEF Next, vars, submissionVars

\* In every behaviour reports keep their figures, decisions their content,
\* and decided amendments and keys their outcome.
THEOREM ImmutableHistory == Spec => HistoryIsImmutable
  <1>1. StationInv /\ [Next]_vars =>
            [ReportsKept /\ DecisionsKept /\ AmendmentsDecidedOnce /\ idem \subseteq idem']_vars
    BY StepKeepsReports, StepKeepsDecisions, StepKeepsAmendments, StepKeepsKeys
  <1>. QED
    BY <1>1, StationInvariant, PTL
    DEF Spec, HistoryIsImmutable, ReportsKept, DecisionsKept, AmendmentsDecidedOnce

=============================================================================
