----------------------------- MODULE Governance -----------------------------
(***************************************************************************)
(* Acknowledging reports and amending them.  All four operations hold the  *)
(* station row and then the shift, the report or the amendment.            *)
(*                                                                         *)
(* The figures of a report are represented by `rows`, who entered what,    *)
(* and `applied`, the amendments whose values the report carries.          *)
(***************************************************************************)
EXTENDS Submissions

CONSTANTS
    InitialRoles,    \* the roles each user starts with at the station
    RoleChanges,     \* pairs <<user, role>> that administrators change
    Targets,         \* target kinds of the amendments that are requested
    MaxAmendments    \* bound: amendments at the station

Decisions == {"acked", "rejected"}

\* "Owner" stands for Owner and Superadmin.
Roles == {"Supervisor", "Station Admin", "Owner"}

FigureTargets == {"sales_declared", "loss_entry"}
AllTargets == FigureTargets \cup {"delivery", "dip_reading"}

ASSUME InitialRolesAssumption == InitialRoles \in [Users -> SUBSET Roles]
ASSUME RoleChangesAssumption == RoleChanges \subseteq Users \X Roles
ASSUME TargetsAssumption == Targets \subseteq AllTargets
ASSUME AmendmentsAssumption == MaxAmendments \in Nat

VARIABLES
    acks,         \* rows of ack_decisions and ack_supersessions
    amendments    \* rows of amendments

governanceVars == <<acks, amendments, roles>>

GovernanceInit ==
    /\ acks = << >>
    /\ amendments = << >>
    /\ roles = InitialRoles

IsApprover(u) == roles[u] \cap {"Station Admin", "Owner"} # {}

\* The children a report hands on: evidence stays with the base report.
Figures(r) == RowsOf({"reading", "sale", "loss"}, reports[r].rows)

\* reportSnapshotHash: equal hashes stand for equal identity and figures.
SnapshotHash(r) ==
    [report |-> r, version |-> reports[r].version,
     rows |-> Figures(r), applied |-> reports[r].applied]

CreatedNothing(r, u) == FALSE

\* createdReportDataByActor: the authors of sales and losses, not of readings.
CreatedReportData(r, u) ==
    \E x \in RowsOf({"sale", "loss"}, reports[r].rows) : x.by = u

DecidedAs(decision) == IF decision = "acked" THEN "locked" ELSE "rejected"

Decided(decision) == IF decision = "acked" THEN "locked" ELSE "needs_correction"

AwaitsNothing(s) == shifts[s].current # NoId

AwaitsDecision(s) ==
    /\ shifts[s].current # NoId
    /\ shifts[s].status = "awaiting_confirmation"
    /\ reports[shifts[s].current].ack = NoId

Acknowledge(u, s, decision) ==
    LET r == shifts[s].current
        a == Len(acks) + 1
    IN  /\ AwaitsDecision(s)
        /\ IsApprover(u)
        /\ reports[r].submittedBy # u
        /\ ~CreatedReportData(r, u)
        /\ acks' = Append(acks, [report |-> r, by |-> u, decision |-> decision,
                                 supersededBy |-> NoId])
        /\ reports' = [reports EXCEPT ![r].ack = a]
        /\ shifts' = [shifts EXCEPT ![s].status = Decided(decision)]
        /\ audit' = audit \cup {<<"report.acknowledged", a>>}
        /\ UNCHANGED <<drafts, draftVars, idem, failing, answers, amendments, roles>>

PendingOnNone(r) == {}

PendingOn(r) ==
    {a \in DOMAIN amendments : amendments[a].base = r /\ amendments[a].status = "pending"}

MayRequest(u) == "Supervisor" \in roles[u]

RequestAmendment(u, s, target, breakGlass) ==
    LET r == shifts[s].current
        a == Len(amendments) + 1
    IN  /\ a <= MaxAmendments
        /\ r # NoId
        /\ shifts[s].status \in {"locked", "awaiting_confirmation", "needs_correction"}
        /\ MayRequest(u)
        /\ PendingOn(r) = {}
        /\ amendments' = Append(amendments,
                [shift |-> s, base |-> r, status |-> "pending", target |-> target,
                 requester |-> u, approver |-> {}, applied |-> NoId,
                 breakGlass |-> breakGlass, hash |-> SnapshotHash(r)])
        /\ audit' = audit \cup {<<"amendment.requested", a>>}
        /\ UNCHANGED <<shifts, drafts, draftVars, submissionVars, acks, roles>>

RejectTwice(u, a) ==
    /\ IsApprover(u)
    /\ amendments[a].requester # u
    /\ amendments' = [amendments EXCEPT ![a].status = "rejected", ![a].approver = {u}]
    /\ audit' = audit \cup {<<"amendment.rejected", a>>}
    /\ UNCHANGED <<shifts, drafts, draftVars, submissionVars, acks, roles>>

RejectSilently(u, a) ==
    /\ IsApprover(u)
    /\ amendments[a].status = "pending"
    /\ amendments[a].requester # u
    /\ amendments' = [amendments EXCEPT ![a].status = "rejected", ![a].approver = {u}]
    /\ UNCHANGED <<shifts, drafts, draftVars, submissionVars, acks, roles, audit>>

RejectAmendment(u, a) ==
    /\ IsApprover(u)
    /\ amendments[a].status = "pending"
    /\ amendments[a].requester # u
    /\ amendments' = [amendments EXCEPT ![a].status = "rejected",
                                        ![a].approver = {u}]
    /\ audit' = audit \cup {<<"amendment.rejected", a>>}
    /\ UNCHANGED <<shifts, drafts, draftVars, submissionVars, acks, roles>>

\* validateAmendmentItems: only targets among the figures are looked up.
TargetExists(a) ==
    LET kinds == {x.item[1] : x \in Figures(amendments[a].base)}
    IN  /\ amendments[a].target = "sales_declared" => "sale" \in kinds
        /\ amendments[a].target = "loss_entry" => "loss" \in kinds

ForkedReport(base, a, u) ==
    [shift |-> reports[base].shift, version |-> reports[base].version + 1,
     supersedes |-> reports[base].supersedes, submittedBy |-> u, rows |-> Figures(base),
     applied |-> reports[base].applied \cup {a}, ack |-> NoId]

HeadCopied(base, a, u) ==
    [reports[base] EXCEPT !.version = @ + 1, !.supersedes = base, !.submittedBy = u]

OnlyLastAmendment(base, a, u) ==
    [shift |-> reports[base].shift, version |-> reports[base].version + 1,
     supersedes |-> base, submittedBy |-> u, rows |-> Figures(base),
     applied |-> {a}, ack |-> NoId]

WithoutReadings(base, a, u) ==
    [shift |-> reports[base].shift, version |-> reports[base].version + 1,
     supersedes |-> base, submittedBy |-> u,
     rows |-> RowsOf({"sale", "loss"}, reports[base].rows),
     applied |-> reports[base].applied
                    \cup {x \in {a} : amendments[x].target \in FigureTargets},
     ack |-> NoId]

\* copyAmendedReportChildren: the figures of the base with the amended values
\* of sales and losses; items with another target are not applied to anything.
AmendedReport(base, a, u) ==
    [shift |-> reports[base].shift, version |-> reports[base].version + 1,
     supersedes |-> base, submittedBy |-> u, rows |-> Figures(base),
     applied |-> reports[base].applied
                    \cup {x \in {a} : amendments[x].target \in FigureTargets},
     ack |-> NoId]

NothingSuperseded(old, new) == acks

\* ack_supersessions: the decision of the base, when it has one.
Superseded(old, new) ==
    IF old = NoId THEN acks ELSE [acks EXCEPT ![old].supersededBy = new]

AnyShiftMayReturn(s) == TRUE

\* shifts_one_active_per_station for a shift that returns to confirmation.
MayReturn(s) == \A t \in DOMAIN shifts : t # s => ~Active(t)

\* A break-glass request may be approved by its requester.
MayApprove(u, a) ==
    /\ IsApprover(u)
    /\ amendments[a].requester # u \/ amendments[a].breakGlass

(***************************************************************************)
(* The approver becomes submitted_by of the new version.  An active        *)
(* acknowledgement of the base is superseded and its head cleared.         *)
(***************************************************************************)
ApproveAmendment(u, a) ==
    LET base == amendments[a].base
        s == amendments[a].shift
        new == Len(reports) + 1
    IN  /\ MayApprove(u, a)
        /\ amendments[a].status = "pending"
        /\ shifts[s].current = base
        /\ amendments[a].hash = SnapshotHash(base)
        /\ TargetExists(a)
        /\ MayReturn(s)
        /\ reports' = Append([reports EXCEPT ![base].ack = NoId],
                             AmendedReport(base, a, u))
        /\ acks' = Superseded(reports[base].ack, new)
        /\ shifts' = [shifts EXCEPT ![s].current = new,
                                    ![s].status = "awaiting_confirmation"]
        /\ amendments' = [amendments EXCEPT ![a].status = "approved",
                                            ![a].approver = {u},
                                            ![a].applied = new]
        /\ audit' = audit \cup {<<"amendment.approved", new>>}
        /\ UNCHANGED <<drafts, draftVars, idem, failing, answers, roles>>

\* roleCombinationBreaksSeparation
BreaksSeparation(held) ==
    "Supervisor" \in held /\ held \cap {"Station Admin", "Owner"} # {}

(***************************************************************************)
(* Identity administration, by an Owner or Superadmin of the organization  *)
(* who need not belong to this station.  An Owner may also be removed      *)
(* here: the organization may have Owners at other stations.               *)
(***************************************************************************)
AssignRole(u, r) ==
    /\ r \notin roles[u]
    /\ ~BreaksSeparation(roles[u] \cup {r})
    /\ roles' = [roles EXCEPT ![u] = @ \cup {r}]
    /\ UNCHANGED <<shiftVars, draftVars, submissionVars, acks, amendments>>

RemoveRole(u, r) ==
    /\ r \in roles[u]
    /\ roles' = [roles EXCEPT ![u] = @ \ {r}]
    /\ UNCHANGED <<shiftVars, draftVars, submissionVars, acks, amendments>>

GovernanceStep ==
    \/ \E u \in Users, s \in DOMAIN shifts :
         \/ \E decision \in Decisions : Acknowledge(u, s, decision)
         \/ \E target \in Targets, breakGlass \in BOOLEAN :
                RequestAmendment(u, s, target, breakGlass)
    \/ \E u \in Users, a \in DOMAIN amendments :
         RejectAmendment(u, a) \/ ApproveAmendment(u, a)
    \/ \E change \in RoleChanges :
         AssignRole(change[1], change[2]) \/ RemoveRole(change[1], change[2])

=============================================================================
