---------------------------- MODULE Submissions ----------------------------
(***************************************************************************)
(* Submitting a draft under an idempotency key.                            *)
(*                                                                         *)
(* Submit is one transaction: it commits with the key "succeeded" and the  *)
(* first report of the shift, answers with the earlier report (replay),    *)
(* is refused as a conflict (nothing changes, nothing is marked), or rolls *)
(* back with another error.  In the last case a second transaction,        *)
(* markSubmitFailed, runs later; between the two another request may use   *)
(* the same key, and a crash or a cancelled request context may lose it.   *)
(*                                                                         *)
(* A key is "in_progress" only inside the transaction that completes it,   *)
(* so no committed row ever has that status.  The checks that read only    *)
(* figures (meter chain, evidence, thresholds) show here as their two      *)
(* outcomes: the commit or the rollback.                                   *)
(***************************************************************************)
EXTENDS Drafts

CONSTANTS
    Keys,         \* idempotency keys
    Payloads,     \* canonical payloads; equal exactly when their hashes are
    MaxFailing    \* bound: rollbacks waiting for markSubmitFailed

ASSUME FailingAssumption == MaxFailing \in Nat

VARIABLES
    reports,      \* rows of shift_reports with their children and ack_head
    idem,         \* rows of submit_idempotency
    failing,      \* rolled back requests that are not marked failed yet
    answers       \* history of the answers that reported success

submissionVars == <<reports, idem, failing, answers>>

Request == [shift : 1..MaxShifts, key : Keys, hash : Payloads]

SubmissionsInit ==
    /\ reports = << >>
    /\ idem = {}
    /\ failing = {}
    /\ answers = {}

IdemRowsNotFailed(q) ==
    {row \in idem : row.shift = q.shift /\ row.key = q.key /\ row.status # "failed"}

\* At most one row: UNIQUE (org_id, station_id, shift_id, idempotency_key).
IdemRows(q) == {row \in idem : row.shift = q.shift /\ row.key = q.key}

IdemRow(q, status, r) ==
    [shift |-> q.shift, key |-> q.key, hash |-> q.hash,
     status |-> status, report |-> r]

Success(q, r) == [shift |-> q.shift, key |-> q.key, hash |-> q.hash, report |-> r]

RowsOf(kinds, rows) == {x \in rows : x.item[1] \in kinds}

\* The last locked shift before s, as a set of at most one.
LastLocked(s) ==
    LET locked == {t \in DOMAIN shifts : t < s /\ shifts[t].status = "locked"}
    IN  {t \in locked : \A x \in locked : x <= t}

\* A backfilled report takes its meter readings from the last locked shift.
Carried(s) ==
    RowsOf({"reading"}, UNION {reports[shifts[t].current].rows : t \in LastLocked(s)})

PromotedWithoutSales(s) ==
    IF shifts[s].backfilled
    THEN Carried(s) \cup RowsOf({"loss", "evidence"}, drafts[s].rows)
    ELSE RowsOf({"reading", "loss", "evidence"}, drafts[s].rows)

\* promoteDraftChildren: the child rows of the first report.
Promoted(s) ==
    IF shifts[s].backfilled
    THEN Carried(s) \cup RowsOf({"sale", "loss", "evidence"}, drafts[s].rows)
    ELSE drafts[s].rows

\* What promoteDraftChildren insists on besides figures: a source for every
\* carried reading, and loss ids that no report of the station has used.
Promotable(s) ==
    /\ shifts[s].backfilled =>
          \A n \in Nozzles : \E x \in Carried(s) : x.item[2] = n
    /\ \A x \in RowsOf({"loss"}, drafts[s].rows), r \in DOMAIN reports :
          \A y \in reports[r].rows : y.item # x.item

FirstReport(s, u) ==
    [shift |-> s, version |-> 1, supersedes |-> NoId, submittedBy |-> u,
     rows |-> Promoted(s), applied |-> {}, ack |-> NoId]

(***************************************************************************)
(* The commit: the key is new, the shift open, the claim token and the     *)
(* revision current.  The draft's rows become the rows of report version   *)
(* 1, its acknowledgement head is empty, the shift awaits confirmation and *)
(* the draft loses its claim.  The payload's figures are free, so the      *)
(* checks on them can be met.                                              *)
(***************************************************************************)
Submit(d, k, p) ==
    LET s == known[d].shift
        q == [shift |-> s, key |-> k, hash |-> p]
        r == Len(reports) + 1
    IN  /\ s \in DOMAIN shifts
        /\ IdemRows(q) = {}
        /\ shifts[s].status = "open"
        /\ HoldsLease(d, s)
        /\ drafts[s].revision = known[d].rev
        /\ Promotable(s)
        /\ reports' = Append(reports, FirstReport(s, UserOf(d)))
        /\ shifts' = [shifts EXCEPT ![s].status = "awaiting_confirmation",
                                    ![s].current = r]
        /\ drafts' = [drafts EXCEPT ![s].status = "submitted",
                                    ![s].token = NoId,
                                    ![s].lease = 0]
        /\ idem' = idem \cup {IdemRow(q, "succeeded", r)}
        /\ answers' = answers \cup {Success(q, r)}
        /\ audit' = audit \cup {<<"report.submitted", r>>}
        /\ UNCHANGED <<issued, known, failing>>

\* The key succeeded with the same payload: its report is the answer.
SubmitReplay(q) ==
    \E row \in IdemRows(q) :
        /\ row.hash = q.hash
        /\ row.status = "succeeded"
        /\ answers' = answers \cup {Success(q, row.report)}
        /\ UNCHANGED <<shiftVars, draftVars, reports, idem, failing>>

\* Any error that is not ErrIdempotencyConflict: disabled scope, an invalid
\* figure, a deadlock or a lost connection.
SubmitAborts(q) ==
    /\ q.shift \in DOMAIN shifts
    /\ Cardinality(failing) < MaxFailing
    /\ failing' = failing \cup {q}
    /\ UNCHANGED <<shiftVars, draftVars, reports, idem, answers>>

\* What markSubmitFailed leaves in the table for request q.
MarkedFailed(q) ==
    IF IdemRows(q) = {}
    THEN idem \cup {IdemRow(q, "failed", NoId)}
    ELSE {IF row \in IdemRows(q) /\ row.hash = q.hash /\ row.status # "succeeded"
          THEN [row EXCEPT !.status = "failed"]
          ELSE row : row \in idem}

MarkSubmitFailed(q) ==
    /\ q \in failing
    /\ failing' = failing \ {q}
    /\ idem' = MarkedFailed(q)
    /\ UNCHANGED <<shiftVars, draftVars, reports, answers>>

\* The process stops, or the request context is cancelled, before the mark; or
\* the mark fails, as the victim of a deadlock or on the unique key.
MarkIsLost(q) ==
    /\ q \in failing
    /\ failing' = failing \ {q}
    /\ UNCHANGED <<shiftVars, draftVars, reports, idem, answers>>

SubmissionStep ==
    \/ \E d \in Devices, k \in Keys, p \in Payloads : Submit(d, k, p)
    \/ \E q \in Request : SubmitReplay(q) \/ SubmitAborts(q)
    \/ \E q \in failing : MarkSubmitFailed(q) \/ MarkIsLost(q)

=============================================================================
