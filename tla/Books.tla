------------------------------- MODULE Books -------------------------------
(***************************************************************************)
(* The figures a station's shifts are checked and measured by: the meter   *)
(* of one nozzle, the policy revisions a submission freezes, and alerts.   *)
(*                                                                         *)
(* What happens to shifts is taken from ShiftLedger, which module Station  *)
(* implements.  Meter values count in the smallest unit of the meter;      *)
(* decimals are exact in the code (big.Rat), so integers stand for them.   *)
(* A reading is never changed by an amendment, which copies it.            *)
(***************************************************************************)
EXTENDS Integers, Sequences, FiniteSets

CONSTANTS
    Modulus,            \* the meter counts 0 .. Modulus - 1
    Price,              \* Rupiah for Unit meter units
    Unit,
    MaxRupiah,          \* 99999999999999
    Declared,           \* cash and cashless amounts a supervisor may declare
    Finalized,          \* numbers of finalized evidence files of one loss
    Thresholds,         \* values of threshold revisions: rollover, variance
    DefaultThreshold,   \* the revision made when there is none
    RuleThreshold,      \* threshold of the variance rule
    Window,             \* 24 hours
    Creators,           \* CreateRevision calls at work at once
    Workloads,          \* sets of operations that are asked for together
    MaxShifts, MaxFewShifts,        \* bounds; the second without "mark"
    MaxVersions, MaxRevisions, MaxTime

\* "mark" sets resets and baselines, "loss" reports a loss and brings in
\* evidence policies; the others are as they read.
Operations == {"meter", "mark", "backfill", "policy", "loss", "alert", "amend"}

ASSUME BooksAssumption ==
    /\ {Modulus, Price, Unit} \subseteq Nat \ {0}
    /\ {MaxRupiah, RuleThreshold, Window, MaxShifts, MaxFewShifts,
        MaxVersions, MaxRevisions, MaxTime} \subseteq Nat
    /\ MaxFewShifts <= MaxShifts
    /\ Declared \subseteq Nat /\ Finalized \subseteq Nat
    /\ Thresholds \subseteq [rollover : Nat, variance : Nat]
    /\ DefaultThreshold \in [rollover : Nat, variance : Nat]
    /\ Workloads \subseteq SUBSET Operations

VARIABLES
    ledger,      \* shifts and reports, see ShiftLedger
    books,       \* what else is known of each shift
    revisions,   \* threshold and evidence policy revisions, as inserted
    creating,    \* CreateRevision calls between their check and the insert
    marks,       \* meter resets and baselines of the nozzle
    enabled,     \* alert_rules.enabled of the two rules of the station
    alerts,      \* alert_events, as inserted
    evaluated,   \* history: nothing happened since the last evaluation
    now,
    workload     \* the operations of this behaviour; it never changes

vars == <<ledger, books, revisions, creating, marks, enabled, alerts,
          evaluated, now, workload>>

Ledger == INSTANCE ShiftLedger

NoReading == [start |-> -1, end |-> -1, delta |-> 0, sale |-> 0, source |-> 0]
NoLoss == -1
NoRequest == [kind |-> "none"]

Init ==
    /\ Ledger!Init
    /\ books = << >>
    /\ revisions = << >>
    /\ creating = [c \in Creators |-> NoRequest]
    /\ marks = [resets |-> {}, baseline |-> {}]
    /\ enabled = [rule \in {"starvation", "variance"} |-> TRUE]
    /\ alerts = << >>
    /\ evaluated = FALSE
    /\ now = 0
    /\ workload \in Workloads

Shifts == DOMAIN ledger
Locked(s) == ledger[s].phase = "locked"

\* The last shift before s that is locked now, as a set.
LockedBefore(s) ==
    {p \in 1..(s - 1) : Locked(p) /\ \A q \in (p + 1)..(s - 1) : ~Locked(q)}

-----------------------------------------------------------------------------
(* Meters                                                                  *)

Rolls(start, end) == end < start

\* CalculateMeterDelta, when the range and the rollover are accepted.
MeterDelta(start, end) ==
    IF Rolls(start, end) THEN Modulus - start + end ELSE end - start

MeterAcceptedUnlimited(start, end, rollover) ==
    {start, end} \subseteq 0..(Modulus - 1)

MeterAccepted(start, end, rollover) ==
    /\ {start, end} \subseteq 0..(Modulus - 1)
    /\ Rolls(start, end) => MeterDelta(start, end) <= rollover

\* CalculateExpectedSaleRupiah rounds half up and refuses to overflow.
ExpectedSale(liters) ==
    LET product == liters * Price IN
    product \div Unit + IF 2 * (product % Unit) >= Unit THEN 1 ELSE 0

PredecessorEnd(s) == {books[p].reading.end : p \in LockedBefore(s)} \ {-1}

RequiredStartFirstOnly(s) ==
    LET reset == {r.value : r \in {m \in marks.resets : m.shift = s}} IN
    IF reset # {} THEN reset
    ELSE {b.value : b \in {m \in marks.baseline : m.from <= s}}

\* ValidateMeterStart with meterContinuity: a reset of this shift, else the
\* baseline from this shift on, else the end of the last locked shift.
RequiredStart(s) ==
    LET reset    == {r.value : r \in {m \in marks.resets : m.shift = s}}
        baseline == {b.value : b \in {m \in marks.baseline : m.from <= s}} IN
    IF reset # {} THEN reset
    ELSE IF baseline # {} THEN baseline
    ELSE PredecessorEnd(s)

StartAccepted(s, start) == RequiredStart(s) \subseteq {start}

\* A row of dispenser_readings; `source` is the shift it is carried from.
Reading(start, end) ==
    [start |-> start, end |-> end, delta |-> MeterDelta(start, end),
     sale |-> ExpectedSale(MeterDelta(start, end)), source |-> 0]

\* The readings a submission of s may promote under a rollover limit: the one
\* entered, none, or for a backfilled shift the one carried forward.
EnteredReadings(s, rollover) ==
    {r \in {Reading(start, end) : start, end \in 0..(Modulus - 1)} :
        /\ StartAccepted(s, r.start)
        /\ MeterAccepted(r.start, r.end, rollover)
        /\ r.sale <= MaxRupiah}

CarriedReadings(s) ==
    {[books[p].reading EXCEPT !.source = p] :
        p \in {q \in LockedBefore(s) : books[q].reading # NoReading}}

Readings(s, rollover) ==
    IF books[s].backfilled THEN CarriedReadings(s)
    ELSE {NoReading} \cup IF "meter" \in workload
                          THEN EnteredReadings(s, rollover) ELSE {}

-----------------------------------------------------------------------------
(* Policies                                                                *)

InForceOldest(kind) ==
    LET valid == {i \in DOMAIN revisions :
                    revisions[i].kind = kind /\ ~revisions[i].disabled
                      /\ revisions[i].from <= now} IN
    {i \in valid : \A j \in valid : revisions[i].from <= revisions[j].from}

\* Resolution at submission: not disabled, valid by now, the station's own
\* before the organization's, then the latest.  Equal ones are in rev_id
\* order, which is random.
InForce(kind) ==
    LET valid == {i \in DOMAIN revisions :
                    /\ revisions[i].kind = kind
                    /\ ~revisions[i].disabled
                    /\ revisions[i].from <= now}
        own   == {i \in valid : revisions[i].level = "station"}
        level == IF own # {} THEN own ELSE valid IN
    {i \in level : \A j \in level : revisions[j].from <= revisions[i].from}

EvidenceSatisfiedByDefault(mode, minimum, finalized) ==
    mode = "opsional" \/ finalized >= minimum

\* ValidateEvidence for the loss of a shift.  A submission never claims an
\* exception, so "opsional" without evidence is refused as well.
EvidenceSatisfied(mode, minimum, finalized) ==
    CASE mode = "wajib"    -> minimum # 0 /\ finalized >= minimum
      [] mode = "opsional" -> finalized > 0

\* The threshold revision a submission freezes; a new one when there is none.
ThresholdChoices ==
    IF InForce("threshold") = {} THEN {Len(revisions) + 1} ELSE InForce("threshold")

\* The evidence revisions a submission may freeze, 0 when there is none in
\* force.  A revision must list evidence types even when there is no loss.
EvidenceChoices ==
    IF InForce("evidence") = {} THEN {0}
    ELSE {i \in InForce("evidence") : revisions[i].types # {}}

\* validateStagedEvidence, for every loss and every type of the policy.
EvidenceAccepted(i, finalized) ==
    i # 0 /\ finalized # NoLoss =>
        \A minimum \in revisions[i].types :
            EvidenceSatisfied(revisions[i].value.mode, minimum, finalized)

\* `types` holds the minimum count of each evidence type.
NewRevision(kind, policy, level, from, disabled, value) ==
    [kind |-> kind, policy |-> policy, level |-> level, from |-> from,
     disabled |-> disabled, types |-> {}, value |-> value]

\* Calls that hold the station row FOR UPDATE.
Creating == {c \in Creators : creating[c] # NoRequest}
StationIsFree == \A c \in Creating : creating[c].level # "station"

Duplicates(r) ==
    {i \in DOMAIN revisions :
        /\ revisions[i].kind = r.kind
        /\ revisions[i].policy = r.policy
        /\ revisions[i].level = r.level
        /\ revisions[i].from = r.from}

CheckRevisionUnlocked(c, r) ==
    /\ creating[c] = NoRequest
    /\ Len(revisions) + Cardinality(Creating) < MaxRevisions
    /\ Duplicates(r) = {}
    /\ creating' = [creating EXCEPT ![c] = r]
    /\ UNCHANGED <<ledger, books, revisions, marks, enabled, alerts, evaluated,
                   now, workload>>

\* CreateRevision up to the duplicate count.  Only a revision of the station
\* locks anything.  A superseded revision only bounds valid_from from below.
CheckRevision(c, r) ==
    /\ creating[c] = NoRequest
    /\ Len(revisions) + Cardinality(Creating) < MaxRevisions
    /\ (r.level = "station" => StationIsFree)
    /\ Duplicates(r) = {}
    /\ creating' = [creating EXCEPT ![c] = r]
    /\ UNCHANGED <<ledger, books, revisions, marks, enabled, alerts, evaluated,
                   now, workload>>

InsertRevisionInPlace(c) ==
    /\ creating[c] # NoRequest
    /\ Len(revisions) < MaxRevisions
    /\ revisions' = Append(
         [i \in DOMAIN revisions |->
            IF /\ revisions[i].kind = creating[c].kind
               /\ revisions[i].level = creating[c].level
            THEN [revisions[i] EXCEPT !.disabled = TRUE] ELSE revisions[i]],
         creating[c])
    /\ creating' = [creating EXCEPT ![c] = NoRequest]
    /\ UNCHANGED <<ledger, books, marks, enabled, alerts, evaluated, now, workload>>

\* The insert and the commit.
InsertRevision(c) ==
    /\ creating[c] # NoRequest
    /\ Len(revisions) < MaxRevisions
    /\ revisions' = Append(revisions, creating[c])
    /\ creating' = [creating EXCEPT ![c] = NoRequest]
    /\ UNCHANGED <<ledger, books, marks, enabled, alerts, evaluated, now, workload>>

\* No code of the server writes evidence_policy_types: an operator does.
AddTypes(i, minimum) ==
    /\ revisions[i].kind = "evidence" /\ revisions[i].types = {}
    /\ revisions' = [revisions EXCEPT ![i].types = {minimum}]
    /\ UNCHANGED <<ledger, books, creating, marks, enabled, alerts, evaluated,
                   now, workload>>

-----------------------------------------------------------------------------
(* Shifts                                                                  *)

OpenShift(backfilled) ==
    /\ Len(ledger) < IF "mark" \in workload THEN MaxShifts ELSE MaxFewShifts
    /\ StationIsFree
    /\ Ledger!Open
    /\ books' = Append(books,
         [opened |-> now, backfilled |-> backfilled, reading |-> NoReading,
          threshold |-> 0, evidence |-> 0, finalized |-> NoLoss,
          known |-> 0, at |-> 0, after |-> {}])
    /\ evaluated' = FALSE
    /\ UNCHANGED <<revisions, creating, marks, enabled, alerts, now, workload>>

Distance(a, b) == IF a < b THEN b - a ELSE a - b

\* evaluateVarianceAlerts: above the policy's and above the rule's threshold.
VarianceFires(sale, declared, variance) ==
    /\ Distance(sale, declared) > variance
    /\ enabled["variance"]
    /\ Distance(sale, declared) > RuleThreshold

Alert(rule, s, type, about) ==
    [rule |-> rule, shift |-> s, type |-> type, about |-> about]

\* Submit: freeze the threshold policy, or make the default one, and the
\* evidence policy; promote the reading and the loss; fire the variance alert.
\* `known`, `at` and `after` are history: how many revisions there were, when
\* it was, and which shifts were locked.
Submit(s, declared, finalized) ==
    /\ StationIsFree
    /\ Ledger!Submit(s)
    /\ \E i \in ThresholdChoices, e \in EvidenceChoices :
         LET isNew == i > Len(revisions)
             value == IF isNew THEN DefaultThreshold ELSE revisions[i].value IN
         /\ EvidenceAccepted(e, finalized)
         /\ (isNew => Len(revisions) < MaxRevisions)
         /\ revisions' = IF isNew
              THEN Append(revisions, NewRevision("threshold", "default",
                             "organization", now, FALSE, value))
              ELSE revisions
         /\ \E reading \in Readings(s, value.rollover) :
              /\ books' = [books EXCEPT ![s] =
                   [@ EXCEPT !.reading = reading, !.threshold = i, !.evidence = e,
                             !.finalized = finalized, !.known = Len(revisions'),
                             !.at = now, !.after = {p \in 1..(s - 1) : Locked(p)}]]
              /\ alerts' = IF VarianceFires(reading.sale, declared, value.variance)
                           THEN Append(alerts, Alert("variance", s, "fired", 1))
                           ELSE alerts
    /\ evaluated' = FALSE
    /\ UNCHANGED <<creating, marks, enabled, now, workload>>

\* An acknowledgement or a rejection; an amendment.
Decide(s) ==
    /\ StationIsFree
    /\ Ledger!Decide(s)
    /\ evaluated' = FALSE
    /\ UNCHANGED <<books, revisions, creating, marks, enabled, alerts, now, workload>>

Amend(s) ==
    /\ StationIsFree
    /\ ledger[s].version < MaxVersions
    /\ Ledger!Amend(s)
    /\ evaluated' = FALSE
    /\ UNCHANGED <<books, revisions, creating, marks, enabled, alerts, now, workload>>

\* meter_reset_events and nozzle_baseline_revisions.
Reset(s, value) == [shift |-> s, value |-> value]
Baseline(s, value) == [from |-> s, value |-> value]

\* Resets and baselines are set up outside this code: an approved reset names
\* a shift, a baseline the number of the first shift it is for.
Mark(s, value) ==
    /\ marks.resets = {} /\ marks.baseline = {}
    /\ \/ /\ s \in Shifts
          /\ marks' = [marks EXCEPT !.resets = {Reset(s, value)}]
       \/ marks' = [marks EXCEPT !.baseline = {Baseline(s, value)}]
    /\ UNCHANGED <<ledger, books, revisions, creating, enabled, alerts, evaluated,
                   now, workload>>

-----------------------------------------------------------------------------
(* Alerts                                                                  *)

Has(rule, s, type) ==
    \E i \in DOMAIN alerts : alerts[i].rule = rule /\ alerts[i].shift = s
                               /\ alerts[i].type = type

OverdueLate(s) ==
    /\ ledger[s].phase \in {"open", "awaiting_confirmation"}
    /\ now - books[s].opened > Window

\* opened_at is not after the cutoff.
Overdue(s) ==
    /\ ledger[s].phase \in {"open", "awaiting_confirmation"}
    /\ now - books[s].opened >= Window

ToFireAgain(s) == enabled["starvation"] /\ Overdue(s)

ToFireLate(s) ==
    /\ enabled["starvation"] /\ OverdueLate(s)
    /\ ~Has("starvation", s, "fired")

\* EvaluateStarvation fires once per shift, for the hour it was opened in...
ToFire(s) ==
    /\ enabled["starvation"] /\ Overdue(s)
    /\ ~Has("starvation", s, "fired")

\* ... and clears what fired, whether or not the rule is still enabled.
ToClear(s) ==
    /\ Locked(s)
    /\ Has("starvation", s, "fired") /\ ~Has("starvation", s, "cleared")

SortedEvents(events) ==
    CHOOSE q \in [1..Cardinality(events) -> events] :
        \A i, j \in DOMAIN q : i < j => q[i].shift < q[j].shift

\* The run of the scheduler, which holds all shifts and rules it looks at.
EvaluateStarvation ==
    /\ alerts' = alerts \o SortedEvents(
         {Alert("starvation", s, "fired", 0) : s \in {t \in Shifts : ToFire(t)}}
           \cup
         {Alert("starvation", s, "cleared", 0) : s \in {t \in Shifts : ToClear(t)}})
    /\ evaluated' = TRUE
    /\ UNCHANGED <<ledger, books, revisions, creating, marks, enabled, now, workload>>

\* Rules are set up outside this code.
SwitchRule(rule) ==
    /\ enabled' = [enabled EXCEPT ![rule] = ~@]
    /\ evaluated' = FALSE
    /\ UNCHANGED <<ledger, books, revisions, creating, marks, alerts, now, workload>>

Tick ==
    /\ now < MaxTime
    /\ now' = now + 1
    /\ evaluated' = FALSE
    /\ UNCHANGED <<ledger, books, revisions, creating, marks, enabled, alerts,
                   workload>>

-----------------------------------------------------------------------------

\* The requests the service lets through: six decimals, or a mode.
Requested ==
    LET Of(kind, values) ==
          {NewRevision(kind, "own", level, from, disabled, value) :
             level \in {"station", "organization"}, from \in 0..MaxTime,
             disabled \in BOOLEAN, value \in values} IN
    Of("threshold", Thresholds)
      \cup Of("evidence", {[mode |-> m] : m \in {"wajib", "opsional"}})

\* POST of a policy revision.
PolicyStep(c) ==
    \/ /\ "policy" \in workload
       /\ \E r \in Requested :
            (r.kind = "evidence" => "loss" \in workload) /\ CheckRevision(c, r)
    \/ InsertRevision(c)

Losses == {NoLoss} \cup IF "loss" \in workload THEN Finalized ELSE {}
Amounts == {0} \cup IF "alert" \in workload THEN Declared ELSE {}

Next ==
    \/ OpenShift(FALSE)
    \/ "backfill" \in workload /\ OpenShift(TRUE)
    \/ \E s \in Shifts :
         \/ \E declared \in Amounts, finalized \in Losses :
              Submit(s, declared, finalized)
         \/ Decide(s)
         \/ "amend" \in workload /\ Amend(s)
    \/ "mark" \in workload /\ \E s \in 1..MaxShifts, value \in 0..(Modulus - 1) :
                                Mark(s, value)
    \/ \E c \in Creators : PolicyStep(c)
    \/ \E i \in DOMAIN revisions, minimum \in Finalized : AddTypes(i, minimum)
    \/ "alert" \in workload /\ EvaluateStarvation
    \/ "alert" \in workload /\ \E rule \in DOMAIN enabled : SwitchRule(rule)
    \/ workload \cap {"alert", "policy"} # {} /\ Tick

Spec == Init /\ [][Next]_vars

-----------------------------------------------------------------------------
(* Properties                                                              *)

\* Rows keep their columns, and a carried reading always comes from an earlier
\* shift: what a submission copies is never its own figures.
TypeOK ==
    /\ Len(ledger) = Len(books) /\ Len(ledger) <= MaxShifts
    /\ \A s \in Shifts :
         /\ books[s].reading.start \in -1..(Modulus - 1)
         /\ books[s].reading.source < s
         /\ books[s].threshold \in 0..Len(revisions)
         /\ books[s].evidence \in 0..Len(revisions)
    /\ Len(revisions) <= MaxRevisions
    /\ \A c \in Creators : creating[c] # NoRequest => creating[c] \in Requested
    /\ \A i \in DOMAIN alerts : alerts[i].shift \in Shifts

\* A locked shift starts where the last shift locked before it ended
\* (meter_chain_conflict), unless a reset or a baseline says otherwise, or the
\* shift before it was decided or amended since: a rejected shift is skipped,
\* and its correction may later be locked with figures that overlap the next.
ChainBreaksOnlyOverSkipped ==
    \A s \in Shifts : \A p \in LockedBefore(s) :
        LET a == books[p].reading  b == books[s].reading IN
        (Locked(s) /\ NoReading \notin {a, b} /\ b.source = 0) =>
            \/ b.start = a.end
            \/ \E q \in p..(s - 1) : (q \in books[s].after) # Locked(q)
            \/ \E m \in marks.resets : m.shift = s
            \/ \E m \in marks.baseline : m.from <= s

\* What a submitted reading measures is the distance on the circle of the
\* meter; a rollover longer than the frozen policy allows is never in the
\* books, whatever revisions are added or disabled later; and the expected
\* sale is the price of that distance to the nearest Rupiah.
DeltaIsCircular ==
    \A s \in Shifts :
        LET r == books[s].reading IN
        r # NoReading =>
            /\ (r.start + r.delta) % Modulus = r.end
            /\ r.delta \in 0..(Modulus - 1)
            /\ (r.source = 0 /\ r.end < r.start) =>
                 r.delta <= revisions[books[s].threshold].value.rollover
            /\ r.sale <= MaxRupiah
            /\ Distance(r.sale * Unit, r.delta * Price) * 2 <= Unit

\* The revisions a report is bound to were in force at its submission: no
\* revision of that kind known then, valid then and not disabled was closer to
\* the station or later.  A report is bound to none only if there was none.
PolicyWasInForce ==
    \A s \in Shifts : \A kind \in {"threshold", "evidence"} :
        ledger[s].phase # "open" =>
            LET Rank(r) == (IF r.level = "station" THEN MaxTime + 1 ELSE 0) + r.from
                valid == {i \in 1..books[s].known :
                            /\ revisions[i].kind = kind /\ ~revisions[i].disabled
                            /\ revisions[i].from <= books[s].at}
                mine  == books[s][kind] IN
            /\ (mine = 0 <=> valid = {})
            /\ (mine # 0 => /\ mine \in valid
                            /\ \A i \in valid :
                                 Rank(revisions[i]) <= Rank(revisions[mine]))

\* No loss is reported with less evidence than the frozen policy asks for,
\* and none at all without evidence: neither mode of a policy allows that, as
\* a submission has no way to claim an exception.
LossesAreEvidenced ==
    \A s \in Shifts :
        (books[s].evidence # 0 /\ books[s].finalized # NoLoss) =>
            LET policy == revisions[books[s].evidence] IN
            /\ policy.types # {} /\ books[s].finalized > 0
            /\ policy.value.mode = "wajib" =>
                 \A minimum \in policy.types : books[s].finalized >= minimum

\* Two revisions of one policy and station never start at the same moment,
\* however their requests interleave (policy_overlap).  Revisions of the
\* organization may: the count of duplicates is made without any lock.
StationRevisionsDistinct ==
    \A i, j \in DOMAIN revisions :
        ( /\ i # j
          /\ revisions[i].kind = revisions[j].kind
          /\ revisions[i].policy = revisions[j].policy
          /\ {revisions[i].level, revisions[j].level} = {"station"} )
        => revisions[i].from # revisions[j].from

\* An evaluation leaves every overdue shift with an alert, and every alert of
\* a locked shift cleared.  Only a shift that was locked before and amended
\* since is overdue with all its alerts cleared: it never gets another one.
OverdueIsAlerted ==
    evaluated =>
        \A s \in Shifts :
            /\ (/\ enabled["starvation"]
                /\ ledger[s].phase \in {"open", "awaiting_confirmation"}
                /\ now >= books[s].opened + Window) =>
                  /\ Has("starvation", s, "fired")
                  /\ (Has("starvation", s, "cleared") => ledger[s].version > 1)
            /\ (Locked(s) /\ Has("starvation", s, "fired")) =>
                  Has("starvation", s, "cleared")

\* Repeating an evaluation never duplicates an event, and a clearing event
\* always follows the event it clears.
AlertsAreUnique ==
    \A i \in DOMAIN alerts :
        /\ \A j \in DOMAIN alerts : i # j => alerts[i] # alerts[j]
        /\ alerts[i].type = "cleared" =>
             \E j \in 1..(i - 1) : alerts[j] = [alerts[i] EXCEPT !.type = "fired"]

\* A submitted shift is final: no decision, amendment, later submission or
\* revision rewrites its figures, what it was judged by or the revisions it is
\* bound to, evidence types included; and no alert is taken back.
SubmittedIsFinal ==
    [][/\ \A s \in Shifts :
             ledger[s].phase # "open" =>
                /\ s \in Shifts' /\ ledger'[s].phase # "open"
                /\ books'[s] = books[s]
                /\ \A i \in {books[s].threshold, books[s].evidence} \ {0} :
                      revisions'[i] = revisions[i]
       /\ \A i \in DOMAIN alerts : i \in DOMAIN alerts' /\ alerts'[i] = alerts[i]
      ]_vars

=============================================================================
