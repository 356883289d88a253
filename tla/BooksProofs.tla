----------------------------- MODULE BooksProofs -----------------------------
(***************************************************************************)
(* Proofs about Books: the meter chain, the frozen policies, the evidence  *)
(* of losses, concurrent revisions and the alerts, for any meter, price,   *)
(* policies and numbers of shifts, revisions and creators.                 *)
(*                                                                         *)
(* The invariant says of each shift what was true when it was submitted,   *)
(* in terms of rows that no later step changes: revisions only grow, and   *)
(* the reading of a submitted shift is final.                              *)
(***************************************************************************)
EXTENDS Books, FiniteSetTheorems, FunctionTheorems, WellFoundedInduction, TLAPS

\* The columns of every table.
Entry == [phase : {"open", "awaiting_confirmation", "locked", "needs_correction"},
          version : Nat]

ReadingRow == [start : Int, end : Int, delta : Int, sale : Int, source : Nat]

Book ==
    [opened : Nat, backfilled : BOOLEAN, reading : ReadingRow, threshold : Nat,
     evidence : Nat, finalized : Int, known : Nat, at : Nat, after : SUBSET Nat]

ThresholdValue == [rollover : Nat, variance : Nat]
EvidenceValue == [mode : {"wajib", "opsional"}]

RevisionOf(kind, values) ==
    [kind : {kind}, policy : {"own", "default"}, level : {"station", "organization"},
     from : 0..MaxTime, disabled : BOOLEAN, types : SUBSET Nat, value : values]

Revision == RevisionOf("threshold", ThresholdValue) \cup RevisionOf("evidence", EvidenceValue)

\* A variance alert is never cleared.
AlertRow ==
    [rule : {"starvation"}, shift : Nat, type : {"fired", "cleared"}, about : {0}]
      \cup [rule : {"variance"}, shift : Nat, type : {"fired"}, about : {1}]

Marks ==
    [resets : SUBSET [shift : Nat, value : Nat],
     baseline : SUBSET [from : Nat, value : Nat]]

\* What every variable holds.
Typed ==
    /\ ledger \in Seq(Entry)
    /\ books \in Seq(Book)
    /\ revisions \in Seq(Revision)
    /\ creating \in [Creators -> Requested \cup {NoRequest}]
    /\ marks \in Marks
    /\ enabled \in [{"starvation", "variance"} -> BOOLEAN]
    /\ alerts \in Seq(AlertRow)
    /\ evaluated \in BOOLEAN
    /\ now \in 0..MaxTime
    /\ workload \in Workloads

\* A shift has a version once it is submitted.
LedgerInv ==
    \A s \in Shifts :
        IF ledger[s].phase = "open" THEN ledger[s].version = 0 ELSE ledger[s].version > 0

\* At most one request for the station is at work, and nothing like it was
\* inserted since its duplicates were counted.
RevisionsInv ==
    /\ StationRevisionsDistinct
    /\ \A c, d \in Creators :
         ( /\ c # d /\ creating[c] # NoRequest /\ creating[d] # NoRequest
           /\ creating[c].level = "station" ) => creating[d].level # "station"
    /\ \A c \in Creators :
         creating[c] # NoRequest /\ creating[c].level = "station"
           => Duplicates(creating[c]) = {}

\* The meter shows what it can show, and DeltaIsCircular for one shift.
ReadingOK(s) ==
    LET r == books[s].reading IN
    r # NoReading =>
        /\ r.start \in 0..(Modulus - 1) /\ r.end \in 0..(Modulus - 1)
        /\ (r.start + r.delta) % Modulus = r.end
        /\ r.delta \in 0..(Modulus - 1)
        /\ books[s].threshold # 0
        /\ (r.source = 0 /\ r.end < r.start) =>
             r.delta <= revisions[books[s].threshold].value.rollover
        /\ r.sale <= MaxRupiah
        /\ Distance(r.sale * Unit, r.delta * Price) * 2 <= Unit

\* PolicyWasInForce for one kind: of the first `known` revisions, `mine` was
\* the one in force at a time.
Rank(r) == (IF r.level = "station" THEN MaxTime + 1 ELSE 0) + r.from

Valid(kind, known, at) ==
    {i \in 1..known : /\ revisions[i].kind = kind /\ ~revisions[i].disabled
                      /\ revisions[i].from <= at}

WasInForce(kind, mine, known, at) ==
    /\ mine = 0 <=> Valid(kind, known, at) = {}
    /\ mine # 0 => /\ mine \in Valid(kind, known, at)
                   /\ \A i \in Valid(kind, known, at) :
                        Rank(revisions[i]) <= Rank(revisions[mine])

PolicyOK(s) ==
    /\ books[s].known <= Len(revisions)
    /\ ledger[s].phase # "open" =>
         /\ WasInForce("threshold", books[s].threshold, books[s].known, books[s].at)
         /\ WasInForce("evidence", books[s].evidence, books[s].known, books[s].at)

\* LossesAreEvidenced for one shift.
LossOK(s) ==
    (books[s].evidence # 0 /\ books[s].finalized # NoLoss) =>
        LET policy == revisions[books[s].evidence] IN
        /\ policy.types # {} /\ books[s].finalized > 0
        /\ policy.value.mode = "wajib" =>
             \A minimum \in policy.types : books[s].finalized >= minimum

\* What a shift was submitted after was submitted before, so its reading is
\* final, and the start was its end unless a mark said otherwise.
ChainOK(s) ==
    LET b == books[s].reading
        after == books[s].after IN
    /\ \A p \in after : p \in 1..(s - 1) /\ ledger[p].phase # "open"
    /\ (b # NoReading /\ b.source = 0) =>
         \A p \in after :
           \/ \E q \in (p + 1)..(s - 1) : q \in after
           \/ books[p].reading = NoReading
           \/ b.start = books[p].reading.end
           \/ \E m \in marks.resets : m.shift = s
           \/ \E m \in marks.baseline : m.from <= s

\* A shift is sound as it was submitted.
ShiftOK(s) == ReadingOK(s) /\ PolicyOK(s) /\ LossOK(s) /\ ChainOK(s)

ShiftsInv == \A s \in Shifts : ShiftOK(s)

\* Every alert is of a shift; a variance alert of a submitted one; a cleared
\* one of a shift that was locked, and may have been amended since.
AlertsInv ==
    /\ AlertsAreUnique
    /\ \A i \in DOMAIN alerts : alerts[i].shift \in Shifts
    /\ \A s \in Shifts :
         /\ Has("variance", s, "fired") => ledger[s].phase # "open"
         /\ Has("starvation", s, "cleared") =>
              ledger[s].version > 1 \/ Locked(s)

\* The inductive invariant.
BooksInv ==
    /\ Typed /\ TypeOK /\ LedgerInv /\ RevisionsInv /\ ShiftsInv
    /\ AlertsInv /\ OverdueIsAlerted

-----------------------------------------------------------------------------
(* Numbers and finite sets                                                 *)

\* A non-empty set of natural numbers has a least member.
LEMMA LeastNumber ==
    ASSUME NEW T \in SUBSET Nat, T # {}
    PROVE  \E m \in T : \A n \in T : m <= n
  <1>1. IsWellFoundedOn(OpToRel(<, Nat), Nat)
    BY NatLessThanWellFounded
  <1>2. PICK m \in T : \A n \in T : <<n, m>> \notin OpToRel(<, Nat)
    BY <1>1, WFMin
  <1>3. \A n \in T : ~(n < m)
    BY <1>2 DEF OpToRel
  <1>. QED
    BY <1>3

\* Among rows with a bounded date there is a latest.
LEMMA LatestExists ==
    ASSUME NEW S, S # {}, NEW from, NEW max \in Nat, \A i \in S : from[i] \in 0..max
    PROVE  \E i \in S : \A j \in S : from[j] <= from[i]
  <1>. DEFINE T == {max - from[i] : i \in S}
  <1>1. T \in SUBSET Nat /\ T # {}
    OBVIOUS
  <1>2. PICK m \in T : \A n \in T : m <= n
    BY <1>1, LeastNumber
  <1>3. PICK i \in S : m = max - from[i]
    BY <1>2
  <1>4. ASSUME NEW j \in S
        PROVE  from[j] <= from[i]
    <2>1. max - from[j] \in T
      OBVIOUS
    <2>2. m <= max - from[j]
      BY <1>2, <2>1
    <2>. QED
      BY <1>3, <2>2
  <1>. QED
    BY <1>4

\* An event per shift, with shifts up to a number, can be sorted by shift.
SortableUpTo(n) ==
    \A E : ( /\ \A e \in E : e.shift \in 1..n
             /\ \A e, f \in E : e.shift = f.shift => e = f )
           => /\ IsFiniteSet(E)
              /\ \E q \in [1..Cardinality(E) -> E] :
                   \A i, j \in DOMAIN q : i < j => q[i].shift < q[j].shift

\* No events at all are sorted.
LEMMA SortableNone == SortableUpTo(0)
  <1>. SUFFICES ASSUME NEW E, \A e \in E : e.shift \in 1..0
                PROVE  /\ IsFiniteSet(E)
                       /\ \E q \in [1..Cardinality(E) -> E] :
                            \A i, j \in DOMAIN q : i < j => q[i].shift < q[j].shift
    BY DEF SortableUpTo
  <1>1. E = {}
    OBVIOUS
  <1>2. IsFiniteSet(E) /\ Cardinality(E) = 0
    BY <1>1, FS_EmptySet
  <1>3. [i \in 1..0 |-> i] \in [1..0 -> E]
    OBVIOUS
  <1>4. \A i, j \in DOMAIN [k \in 1..0 |-> k] :
          i < j => [k \in 1..0 |-> k][i].shift < [k \in 1..0 |-> k][j].shift
    OBVIOUS
  <1>. QED
    BY <1>2, <1>3, <1>4

\* The event of the last shift goes to the end.
LEMMA SortableNext ==
    ASSUME NEW n \in Nat, SortableUpTo(n)
    PROVE  SortableUpTo(n + 1)
  <1>. SUFFICES ASSUME NEW E, \A e \in E : e.shift \in 1..(n + 1),
                       \A e, f \in E : e.shift = f.shift => e = f
                PROVE  /\ IsFiniteSet(E)
                       /\ \E q \in [1..Cardinality(E) -> E] :
                            \A i, j \in DOMAIN q : i < j => q[i].shift < q[j].shift
    BY DEF SortableUpTo
  <1>1. CASE \A e \in E : e.shift # n + 1
    <2>1. \A e \in E : e.shift \in 1..n
      BY <1>1
    <2>. QED
      BY <2>1 DEF SortableUpTo
  <1>2. ASSUME NEW l \in E, l.shift = n + 1
        PROVE  /\ IsFiniteSet(E)
               /\ \E q \in [1..Cardinality(E) -> E] :
                    \A i, j \in DOMAIN q : i < j => q[i].shift < q[j].shift
    <2>. DEFINE D == E \ {l}
    <2>1. \A e \in D : e.shift \in 1..n
      BY <1>2
    <2>2. /\ IsFiniteSet(D)
          /\ \E q \in [1..Cardinality(D) -> D] :
               \A i, j \in DOMAIN q : i < j => q[i].shift < q[j].shift
      BY <2>1 DEF SortableUpTo
    <2>3. E = D \cup {l} /\ l \notin D
      OBVIOUS
    <2>4. PICK c : c = Cardinality(D)
      OBVIOUS
    <2>. HIDE DEF D
    <2>5. c \in Nat /\ IsFiniteSet(E) /\ Cardinality(E) = c + 1
      <3>1. c \in Nat
        BY <2>2, <2>4, FS_CardinalityType
      <3>2. IsFiniteSet(D \cup {l}) /\ Cardinality(D \cup {l}) = c + 1
        BY <2>2, <2>3, <2>4, FS_AddElement
      <3>. QED
        BY <2>3, <3>1, <3>2
    <2>6. PICK q \in [1..c -> D] :
            \A i, j \in DOMAIN q : i < j => q[i].shift < q[j].shift
      BY <2>2, <2>4
    <2>7. PICK z : z = [i \in 1..(c + 1) |-> IF i = c + 1 THEN l ELSE q[i]]
      OBVIOUS
    <2>8. \A i \in 1..c : q[i] \in E /\ q[i].shift \in 1..n
      BY <2>1, <2>3, <2>6
    <2>9. z \in [1..(c + 1) -> E] /\ z[c + 1] = l /\ \A i \in 1..c : z[i] = q[i]
      BY <1>2, <2>5, <2>7, <2>8
    <2>10. ASSUME NEW i \in 1..(c + 1), NEW j \in 1..(c + 1), i < j
           PROVE  z[i].shift < z[j].shift
      <3>1. i \in 1..c
        BY <2>5, <2>10
      <3>2. CASE j = c + 1
        BY <1>2, <2>8, <2>9, <3>1, <3>2
      <3>3. CASE j # c + 1
        <4>1. j \in 1..c
          BY <2>5, <3>3
        <4>. QED
          BY <2>6, <2>9, <2>10, <3>1, <4>1
      <3>. QED
        BY <3>2, <3>3
    <2>. QED
      BY <2>5, <2>9, <2>10
  <1>. QED
    BY <1>1, <1>2

\* By the least number for which it would fail.
LEMMA Sortable == \A n \in Nat : SortableUpTo(n)
  <1>. DEFINE T == {n \in Nat : ~SortableUpTo(n)}
  <1>1. ASSUME T # {}
        PROVE  FALSE
    <2>1. PICK m \in T : \A n \in T : m <= n
      BY <1>1, LeastNumber
    <2>2. m # 0
      BY <2>1, SortableNone
    <2>3. PICK k \in Nat : m = k + 1
      BY <2>2
    <2>4. SortableUpTo(k)
      BY <2>1, <2>3
    <2>. QED
      BY <2>3, <2>4, SortableNext
  <1>. QED
    BY <1>1

\* SortedEvents is an enumeration without repetition.
LEMMA SortedEventsEnumerate ==
    ASSUME NEW E, NEW n \in Nat, \A e \in E : e.shift \in 1..n,
           \A e, f \in E : e.shift = f.shift => e = f
    PROVE  /\ SortedEvents(E) \in Seq(E)
           /\ \A i, j \in 1..Len(SortedEvents(E)) :
                i # j => SortedEvents(E)[i] # SortedEvents(E)[j]
           /\ \A e \in E : \E i \in 1..Len(SortedEvents(E)) : SortedEvents(E)[i] = e
  <1>1. /\ IsFiniteSet(E)
        /\ \E q \in [1..Cardinality(E) -> E] :
             \A i, j \in DOMAIN q : i < j => q[i].shift < q[j].shift
    BY Sortable DEF SortableUpTo
  <1>2. PICK c \in Nat : c = Cardinality(E)
    BY <1>1, FS_CardinalityType
  <1>3. PICK q : q = SortedEvents(E)
    OBVIOUS
  <1>4. q \in [1..c -> E] /\ \A i, j \in DOMAIN q : i < j => q[i].shift < q[j].shift
    BY <1>1, <1>2, <1>3 DEF SortedEvents
  <1>5. q \in Seq(E) /\ Len(q) = c
    BY <1>4
  <1>6. ASSUME NEW i \in 1..c, NEW j \in 1..c, i # j
        PROVE  q[i] # q[j]
    <2>1. q[i].shift \in Nat /\ q[j].shift \in Nat
      BY <1>4
    <2>2. CASE i < j
      BY <1>4, <2>1, <2>2
    <2>3. CASE j < i
      BY <1>4, <2>1, <2>3
    <2>. QED
      BY <1>6, <2>2, <2>3
  <1>7. q \in Injection(1..c, E)
    BY <1>4, <1>6 DEF Injection, IsInjective
  <1>8. IsFiniteSet(1..c) /\ Cardinality(1..c) = c
    BY FS_Interval
  <1>9. q \in Surjection(1..c, E)
    BY <1>1, <1>2, <1>7, <1>8, FS_Injection
  <1>10. \A e \in E : \E i \in 1..c : q[i] = e
    BY <1>9 DEF Surjection
  <1>. QED
    BY <1>3, <1>5, <1>6, <1>10

\* A number below the modulus is its own remainder, also after one turn.
LEMMA Remainders ==
    ASSUME NEW m \in Nat \ {0}, NEW e \in 0..(m - 1)
    PROVE  e % m = e /\ (m + e) % m = e
  OBVIOUS

\* A number is its quotient and its remainder.
LEMMA DivisionWithRemainder ==
    ASSUME NEW u \in Nat \ {0}, NEW p \in Nat
    PROVE  p \div u \in Nat /\ p % u \in 0..(u - 1) /\ p = u * (p \div u) + (p % u)
  <1>1. p = u * (p \div u) + (p % u)
    OBVIOUS
  <1>2. p % u \in 0..(u - 1)
    OBVIOUS
  <1>3. p \div u \in Nat
    OBVIOUS
  <1>. QED
    BY <1>1, <1>2, <1>3

\* Rounding half up is off by half a unit at most.
LEMMA RoundsToNearest ==
    ASSUME NEW liters \in Nat
    PROVE  /\ ExpectedSale(liters) \in Nat
           /\ Distance(ExpectedSale(liters) * Unit, liters * Price) * 2 <= Unit
  <1>1. PICK u \in Nat \ {0} : u = Unit
    BY BooksAssumption
  <1>2. PICK p \in Nat : p = liters * Price
    BY BooksAssumption
  <1>3. PICK d \in Nat, m \in 0..(u - 1) : d = p \div u /\ m = p % u /\ p = u * d + m
    BY DivisionWithRemainder
  <1>4. PICK f \in {0, 1} : f = IF 2 * m >= u THEN 1 ELSE 0
    OBVIOUS
  <1>5. ExpectedSale(liters) = d + f
    BY <1>1, <1>2, <1>3, <1>4 DEF ExpectedSale
  <1>6. PICK h \in Nat : h = u * d /\ p = h + m
    BY <1>3
  <1>7. CASE f = 1
    <2>1. (d + f) * u = h + u
      BY <1>6, <1>7
    <2>2. Distance(h + u, p) = u - m
      BY <1>6 DEF Distance
    <2>3. 2 * m >= u
      BY <1>4, <1>7
    <2>4. (u - m) * 2 <= u
      BY <2>3
    <2>. QED
      BY <1>1, <1>2, <1>5, <2>1, <2>2, <2>4
  <1>8. CASE f = 0
    <2>1. (d + f) * u = h
      BY <1>6, <1>8
    <2>2. Distance(h, p) = m
      BY <1>6 DEF Distance
    <2>3. m * 2 <= u
      BY <1>4, <1>8
    <2>. QED
      BY <1>1, <1>2, <1>5, <2>1, <2>2, <2>3
  <1>. QED
    BY <1>7, <1>8

-----------------------------------------------------------------------------
(* Rows                                                                    *)

\* Every shift has its entry and its book; rows have their columns.
LEMMA Rows ==
    ASSUME Typed, TypeOK
    PROVE  /\ Len(ledger) \in Nat /\ Shifts = 1..Len(ledger)
           /\ DOMAIN books = Shifts /\ Len(books) = Len(ledger)
           /\ Len(revisions) \in Nat /\ DOMAIN revisions = 1..Len(revisions)
           /\ Len(alerts) \in Nat /\ DOMAIN alerts = 1..Len(alerts)
           /\ \A s \in Shifts : ledger[s] \in Entry /\ books[s] \in Book
           /\ \A i \in DOMAIN revisions : revisions[i] \in Revision
           /\ \A i \in DOMAIN alerts : alerts[i] \in AlertRow
           /\ now \in 0..MaxTime /\ now \in Nat
  <1>. USE DEF Typed, Shifts
  <1>1. Len(ledger) \in Nat /\ Shifts = 1..Len(ledger)
    OBVIOUS
  <1>2. DOMAIN books = Shifts /\ Len(books) = Len(ledger)
    BY DEF TypeOK
  <1>3. Len(revisions) \in Nat /\ DOMAIN revisions = 1..Len(revisions)
    OBVIOUS
  <1>4. Len(alerts) \in Nat /\ DOMAIN alerts = 1..Len(alerts)
    OBVIOUS
  <1>5. \A s \in Shifts : ledger[s] \in Entry
    OBVIOUS
  <1>6. \A s \in Shifts : books[s] \in Book
    BY <1>2
  <1>7. \A i \in DOMAIN revisions : revisions[i] \in Revision
    OBVIOUS
  <1>8. \A i \in DOMAIN alerts : alerts[i] \in AlertRow
    OBVIOUS
  <1>9. now \in 0..MaxTime /\ now \in Nat
    BY BooksAssumption
  <1>. HIDE DEF Typed, Shifts
  <1>. QED
    BY <1>1, <1>2, <1>3, <1>4, <1>5, <1>6, <1>7, <1>8, <1>9

\* The columns of a revision.
LEMMA RevisionColumns ==
    ASSUME NEW r \in Revision
    PROVE  /\ r.kind \in {"threshold", "evidence"}
           /\ r.level \in {"station", "organization"}
           /\ r.from \in 0..MaxTime /\ r.disabled \in BOOLEAN
           /\ r.types \subseteq Nat
           /\ r.kind = "threshold" => r.value \in ThresholdValue
           /\ r.kind = "evidence" => r.value \in EvidenceValue
  BY DEF Revision, RevisionOf

\* What is requested is a revision without evidence types.
LEMMA RequestedRevisions ==
    ASSUME NEW r \in Requested
    PROVE  r \in Revision /\ r # NoRequest
  <1>1. PICK level \in {"station", "organization"}, from \in 0..MaxTime,
             disabled \in BOOLEAN :
          \/ \E value \in Thresholds :
               r = NewRevision("threshold", "own", level, from, disabled, value)
          \/ \E value \in {[mode |-> m] : m \in {"wajib", "opsional"}} :
               r = NewRevision("evidence", "own", level, from, disabled, value)
    BY DEF Requested
  <1>2. ASSUME NEW value \in ThresholdValue
        PROVE  /\ NewRevision("threshold", "own", level, from, disabled, value)
                    \in RevisionOf("threshold", ThresholdValue)
               /\ NewRevision("threshold", "own", level, from, disabled, value).kind
                    = "threshold"
    BY DEF NewRevision, RevisionOf
  <1>3. ASSUME NEW value \in EvidenceValue
        PROVE  /\ NewRevision("evidence", "own", level, from, disabled, value)
                    \in RevisionOf("evidence", EvidenceValue)
               /\ NewRevision("evidence", "own", level, from, disabled, value).kind
                    = "evidence"
    BY DEF NewRevision, RevisionOf
  <1>4. Thresholds \subseteq ThresholdValue
    BY BooksAssumption DEF ThresholdValue
  <1>5. {[mode |-> m] : m \in {"wajib", "opsional"}} \subseteq EvidenceValue
    BY DEF EvidenceValue
  <1>6. NoRequest.kind = "none"
    BY DEF NoRequest
  <1>7. r \in Revision /\ r.kind \in {"threshold", "evidence"}
    BY <1>1, <1>2, <1>3, <1>4, <1>5 DEF Revision
  <1>. QED
    BY <1>6, <1>7

\* The default threshold is a revision of the organization.
LEMMA DefaultRevision ==
    ASSUME Typed
    PROVE  LET r == NewRevision("threshold", "default", "organization", now, FALSE,
                                DefaultThreshold) IN
           /\ r \in Revision /\ r.kind = "threshold" /\ r.level = "organization"
           /\ r.from = now /\ ~r.disabled /\ r.value = DefaultThreshold
  <1>1. DefaultThreshold \in ThresholdValue /\ now \in 0..MaxTime
    BY BooksAssumption DEF ThresholdValue, Typed
  <1>. QED
    BY <1>1 DEF NewRevision, Revision, RevisionOf

\* Revisions are added, and get their evidence types once.
RevisionsGrow ==
    /\ revisions' \in Seq(Revision)
    /\ Len(revisions) <= Len(revisions')
    /\ \A i \in DOMAIN revisions :
         /\ revisions'[i].kind = revisions[i].kind
         /\ revisions'[i].policy = revisions[i].policy
         /\ revisions'[i].level = revisions[i].level
         /\ revisions'[i].from = revisions[i].from
         /\ revisions'[i].disabled = revisions[i].disabled
         /\ revisions'[i].value = revisions[i].value
         /\ revisions[i].types # {} => revisions'[i].types = revisions[i].types

\* Shifts are added, and none is open again once it was submitted; a locked
\* one stays so unless it is amended.
LedgerGrows ==
    /\ ledger' \in Seq(Entry)
    /\ Len(ledger) <= Len(ledger')
    /\ \A s \in Shifts :
         /\ ledger[s].phase # "open" => ledger'[s].phase # "open"
         /\ ledger[s].version <= ledger'[s].version
         /\ Locked(s) => ledger'[s].phase = "locked" \/ ledger'[s].version > 1

\* Marks are added only.
MarksGrow == marks.resets \subseteq marks'.resets /\ marks.baseline \subseteq marks'.baseline

\* The old revisions stay when one is appended.
LEMMA RevisionAdded ==
    ASSUME Typed, TypeOK, NEW r \in Revision, revisions' = Append(revisions, r)
    PROVE  /\ RevisionsGrow
           /\ Len(revisions') = Len(revisions) + 1
           /\ \A i \in DOMAIN revisions : revisions'[i] = revisions[i]
           /\ revisions'[Len(revisions) + 1] = r
  <1>1. revisions \in Seq(Revision) /\ Len(revisions) \in Nat
    BY DEF Typed
  <1>2. /\ revisions' \in Seq(Revision)
        /\ Len(revisions') = Len(revisions) + 1
        /\ \A i \in DOMAIN revisions : revisions'[i] = revisions[i]
        /\ revisions'[Len(revisions) + 1] = r
    BY <1>1
  <1>. QED
    BY <1>1, <1>2 DEF RevisionsGrow

\* No change is the least growth, of revisions ...
LEMMA RevisionsUnchanged ==
    ASSUME Typed, UNCHANGED revisions
    PROVE  RevisionsGrow
  BY DEF Typed, RevisionsGrow

\* ... and of the ledger.
LEMMA LedgerUnchanged ==
    ASSUME Typed, TypeOK, UNCHANGED ledger
    PROVE  LedgerGrows
  <1>1. \A s \in Shifts : ledger[s].version \in Nat
    BY Rows DEF Entry
  <1>. QED
    BY <1>1 DEF Typed, LedgerGrows, Locked

\* One shift gets another entry.
LEMMA EntryUpdated ==
    ASSUME Typed, TypeOK, NEW s \in Shifts, NEW x \in Entry,
           ledger' = [ledger EXCEPT ![s] = x]
    PROVE  /\ ledger' \in Seq(Entry) /\ Len(ledger') = Len(ledger)
           /\ Shifts' = Shifts
           /\ \A t \in Shifts : ledger'[t] = IF t = s THEN x ELSE ledger[t]
  <1>1. ledger \in Seq(Entry) /\ s \in DOMAIN ledger
    BY DEF Typed, Shifts
  <1>. QED
    BY <1>1 DEF Shifts

-----------------------------------------------------------------------------
(* What was true of a shift at its submission stays true                   *)

\* Which of the first revisions were valid at a time does not change.
LEMMA ValidLasts ==
    ASSUME Typed, TypeOK, RevisionsGrow, NEW known \in Nat, known <= Len(revisions),
           NEW at, NEW kind
    PROVE  /\ Valid(kind, known, at)' = Valid(kind, known, at)
           /\ \A i \in 1..known : Rank(revisions[i])' = Rank(revisions[i])
  <1>1. 1..known \subseteq DOMAIN revisions
    BY Rows
  <1>2. \A i \in 1..known :
          /\ revisions'[i].kind = revisions[i].kind
          /\ revisions'[i].level = revisions[i].level
          /\ revisions'[i].from = revisions[i].from
          /\ revisions'[i].disabled = revisions[i].disabled
    BY <1>1 DEF RevisionsGrow
  <1>. QED
    BY <1>2 DEF Valid, Rank

\* What was in force then was in force for good.
LEMMA WasInForceLasts ==
    ASSUME Typed, TypeOK, RevisionsGrow, NEW known \in Nat, known <= Len(revisions),
           NEW at, NEW kind, NEW mine, WasInForce(kind, mine, known, at)
    PROVE  WasInForce(kind, mine, known, at)'
  <1>1. Valid(kind, known, at)' = Valid(kind, known, at)
    BY ValidLasts
  <1>2. \A i \in 1..known : Rank(revisions[i])' = Rank(revisions[i])
    BY ValidLasts
  <1>3. Valid(kind, known, at) \subseteq 1..known
    BY DEF Valid
  <1>. QED
    BY <1>1, <1>2, <1>3 DEF WasInForce

\* A reading stays within the limit of its frozen threshold.
LEMMA ReadingLasts ==
    ASSUME Typed, TypeOK, RevisionsGrow, NEW s \in Shifts, ReadingOK(s),
           books'[s] = books[s]
    PROVE  ReadingOK(s)'
  <1>. SUFFICES ASSUME books[s].reading # NoReading
                PROVE  ReadingOK(s)'
    BY DEF ReadingOK
  <1>1. books[s].threshold # 0
    BY DEF ReadingOK
  <1>2. books[s].threshold \in DOMAIN revisions
    BY <1>1, Rows DEF TypeOK
  <1>3. revisions'[books[s].threshold].value = revisions[books[s].threshold].value
    BY <1>2 DEF RevisionsGrow
  <1>. QED
    BY <1>3 DEF ReadingOK

\* The frozen policies of a shift stay the ones that were in force.
LEMMA PolicyLasts ==
    ASSUME Typed, TypeOK, RevisionsGrow, NEW s \in Shifts, PolicyOK(s),
           books'[s] = books[s],
           ledger'[s].phase # "open" => ledger[s].phase # "open"
    PROVE  PolicyOK(s)'
  <1>1. PICK k \in Nat : k = books[s].known
    BY Rows DEF Book
  <1>2. PICK t, e, a : t = books[s].threshold /\ e = books[s].evidence /\ a = books[s].at
    OBVIOUS
  <1>3. k <= Len(revisions) /\ Len(revisions') \in Nat /\ Len(revisions) <= Len(revisions')
    BY <1>1 DEF PolicyOK, RevisionsGrow
  <1>4. k <= Len(revisions')
    BY <1>3, Rows
  <1>5. ASSUME ledger'[s].phase # "open"
        PROVE  /\ WasInForce("threshold", t, k, a)'
               /\ WasInForce("evidence", e, k, a)'
    <2>1. WasInForce("threshold", t, k, a) /\ WasInForce("evidence", e, k, a)
      BY <1>1, <1>2, <1>5 DEF PolicyOK
    <2>. QED
      BY <1>3, <2>1, WasInForceLasts
  <1>. QED
    BY <1>1, <1>2, <1>4, <1>5 DEF PolicyOK, WasInForce, Valid, Rank

\* The evidence types of a frozen policy are final once there are some.
LEMMA LossLasts ==
    ASSUME Typed, TypeOK, RevisionsGrow, NEW s \in Shifts, LossOK(s),
           books'[s] = books[s]
    PROVE  LossOK(s)'
  <1>. SUFFICES ASSUME books[s].evidence # 0, books[s].finalized # NoLoss
                PROVE  LossOK(s)'
    BY DEF LossOK
  <1>1. books[s].evidence \in DOMAIN revisions
    BY Rows DEF TypeOK
  <1>2. revisions[books[s].evidence].types # {}
    BY DEF LossOK
  <1>3. /\ revisions'[books[s].evidence].value = revisions[books[s].evidence].value
        /\ revisions'[books[s].evidence].types = revisions[books[s].evidence].types
    BY <1>1, <1>2 DEF RevisionsGrow
  <1>. QED
    BY <1>3 DEF LossOK

\* The books of the submitted shifts before s stay as well.
LEMMA ChainLasts ==
    ASSUME Typed, TypeOK, LedgerGrows, MarksGrow, NEW s \in Shifts, ChainOK(s),
           books'[s] = books[s],
           \A p \in Shifts : ledger[p].phase # "open" => books'[p] = books[p]
    PROVE  ChainOK(s)'
  <1>1. ASSUME NEW p \in books[s].after
        PROVE  /\ p \in 1..(s - 1) /\ p \in Shifts
               /\ ledger[p].phase # "open" /\ ledger'[p].phase # "open"
               /\ books'[p] = books[p]
    <2>1. p \in 1..(s - 1) /\ ledger[p].phase # "open"
      BY DEF ChainOK
    <2>2. p \in Shifts
      BY <2>1, Rows
    <2>. QED
      BY <2>1, <2>2 DEF LedgerGrows
  <1>2. /\ \A m \in marks.resets : m \in marks'.resets
        /\ \A m \in marks.baseline : m \in marks'.baseline
    BY DEF MarksGrow
  <1>. QED
    BY <1>1, <1>2 DEF ChainOK

\* A shift whose book stays as it is stays sound.
LEMMA ShiftLasts ==
    ASSUME Typed, TypeOK, RevisionsGrow, LedgerGrows, MarksGrow,
           NEW s \in Shifts, ShiftOK(s), books'[s] = books[s],
           ledger'[s].phase # "open" => ledger[s].phase # "open",
           \A p \in Shifts : ledger[p].phase # "open" => books'[p] = books[p]
    PROVE  ShiftOK(s)'
  BY ReadingLasts, PolicyLasts, LossLasts, ChainLasts DEF ShiftOK

\* No book changes and no shift is submitted.
LEMMA ShiftsLast ==
    ASSUME BooksInv, RevisionsGrow, LedgerGrows, MarksGrow, UNCHANGED books,
           Len(ledger') = Len(ledger),
           \A s \in Shifts : ledger'[s].phase # "open" => ledger[s].phase # "open"
    PROVE  ShiftsInv'
  <1>. Typed /\ TypeOK /\ ShiftsInv
    BY DEF BooksInv
  <1>1. Shifts' = Shifts
    BY DEF Typed, LedgerGrows, Shifts
  <1>2. ASSUME NEW s \in Shifts
        PROVE  ShiftOK(s)'
    BY ShiftLasts DEF ShiftsInv
  <1>. QED
    BY <1>1, <1>2 DEF ShiftsInv

\* The alerts stay, the ledger goes on.
LEMMA AlertsLast ==
    ASSUME BooksInv, LedgerGrows, UNCHANGED alerts
    PROVE  AlertsInv'
  <1>. Typed /\ TypeOK /\ AlertsInv
    BY DEF BooksInv
  <1>1. Shifts \subseteq Shifts'
    BY DEF Typed, LedgerGrows, Shifts
  <1>2. AlertsAreUnique'
    BY DEF AlertsInv, AlertsAreUnique
  <1>3. \A i \in DOMAIN alerts : alerts[i].shift \in Shifts
    BY DEF AlertsInv
  <1>4. ASSUME NEW s \in Shifts', NEW rule, NEW type, Has(rule, s, type)
        PROVE  s \in Shifts
    BY <1>3, <1>4 DEF Has
  <1>5. ASSUME NEW s \in Shifts'
        PROVE  /\ Has("variance", s, "fired") => ledger'[s].phase # "open"
               /\ Has("starvation", s, "cleared") =>
                    ledger'[s].version > 1 \/ ledger'[s].phase = "locked"
    <2>1. ASSUME NEW rule, NEW type, Has(rule, s, type)
          PROVE  /\ s \in Shifts
                 /\ ledger[s].version \in Nat /\ ledger'[s].version \in Nat
      <3>1. s \in Shifts
        BY <1>4, <2>1
      <3>2. ledger[s] \in Entry /\ ledger'[s] \in Entry
        BY <3>1, Rows DEF LedgerGrows, Shifts
      <3>. QED
        BY <3>1, <3>2 DEF Entry
    <2>2. Has("variance", s, "fired") => ledger'[s].phase # "open"
      BY <2>1 DEF AlertsInv, LedgerGrows
    <2>3. ASSUME Has("starvation", s, "cleared")
          PROVE  ledger'[s].version > 1 \/ ledger'[s].phase = "locked"
      <3>1. s \in Shifts /\ ledger[s].version \in Nat /\ ledger'[s].version \in Nat
        BY <2>1, <2>3
      <3>2. ledger[s].version > 1 \/ Locked(s)
        BY <2>3, <3>1 DEF AlertsInv
      <3>3. /\ ledger[s].version <= ledger'[s].version
            /\ Locked(s) => ledger'[s].phase = "locked" \/ ledger'[s].version > 1
        BY <3>1 DEF LedgerGrows
      <3>. QED
        BY <3>1, <3>2, <3>3
    <2>. QED
      BY <2>2, <2>3
  <1>6. \A s \in Shifts' : /\ Has("variance", s, "fired")' <=> Has("variance", s, "fired")
                           /\ Has("starvation", s, "cleared")' <=> Has("starvation", s, "cleared")
    BY DEF Has
  <1>. QED
    BY <1>1, <1>2, <1>3, <1>5, <1>6 DEF AlertsInv, Locked

\* The revisions and the requests for them stay.
LEMMA RevisionsStay ==
    ASSUME BooksInv, UNCHANGED <<revisions, creating>>
    PROVE  RevisionsInv'
  BY DEF BooksInv, RevisionsInv, StationRevisionsDistinct, Duplicates

-----------------------------------------------------------------------------
(* Revisions                                                               *)

\* A step that leaves shifts, books and alerts alone.
LEMMA PolicyKeeps ==
    ASSUME BooksInv, RevisionsGrow, Len(revisions') <= MaxRevisions, RevisionsInv',
           creating' \in [Creators -> Requested \cup {NoRequest}],
           UNCHANGED <<ledger, books, marks, enabled, alerts, evaluated, now, workload>>
    PROVE  BooksInv'
  <1>. Typed /\ TypeOK /\ LedgerInv /\ OverdueIsAlerted
    BY DEF BooksInv
  <1>1. LedgerGrows /\ MarksGrow
    BY LedgerUnchanged DEF MarksGrow
  <1>2. Typed'
    BY DEF Typed, RevisionsGrow
  <1>3. TypeOK'
    <2>1. Len(revisions) \in Nat /\ Len(revisions') \in Nat
          /\ Len(revisions) <= Len(revisions')
      BY Rows DEF RevisionsGrow
    <2>2. \A s \in Shifts : /\ books[s].threshold \in 0..Len(revisions')
                            /\ books[s].evidence \in 0..Len(revisions')
      BY <2>1 DEF TypeOK
    <2>3. Shifts' = Shifts /\ Requested' = Requested
      BY DEF Shifts, Requested
    <2>4. \A c \in Creators : creating'[c] # NoRequest => creating'[c] \in Requested
      OBVIOUS
    <2>. QED
      BY <2>2, <2>3, <2>4 DEF TypeOK
  <1>4. LedgerInv'
    BY DEF LedgerInv, Shifts, Locked
  <1>5. ShiftsInv'
    BY <1>1, ShiftsLast
  <1>6. AlertsInv'
    BY <1>1, AlertsLast
  <1>7. OverdueIsAlerted'
    BY DEF OverdueIsAlerted, Shifts, Has, Locked
  <1>. QED
    BY <1>2, <1>3, <1>4, <1>5, <1>6, <1>7 DEF BooksInv

\* The check of a request for the station waits for any other to finish.
LEMMA CheckRevisionKeeps ==
    ASSUME BooksInv, NEW c \in Creators, NEW r \in Requested, CheckRevision(c, r)
    PROVE  BooksInv'
  <1>. Typed /\ TypeOK /\ RevisionsInv
    BY DEF BooksInv
  <1>1. /\ creating' = [creating EXCEPT ![c] = r]
        /\ creating \in [Creators -> Requested \cup {NoRequest}]
        /\ r.level = "station" => StationIsFree
        /\ Duplicates(r) = {}
        /\ UNCHANGED revisions
    BY DEF CheckRevision, Typed
  <1>2. creating' \in [Creators -> Requested \cup {NoRequest}]
    BY <1>1
  <1>3. \A d \in Creators : creating'[d] = IF d = c THEN r ELSE creating[d]
    BY <1>1
  <1>4. r.level = "station" =>
          \A d \in Creators : creating[d] # NoRequest => creating[d].level # "station"
    BY <1>1 DEF StationIsFree, Creating
  <1>5. ASSUME NEW d \in Creators, NEW e \in Creators, d # e,
               creating'[d] # NoRequest, creating'[e] # NoRequest,
               creating'[d].level = "station"
        PROVE  creating'[e].level # "station"
    <2>1. CASE d = c
      BY <1>3, <1>4, <1>5, <2>1
    <2>2. CASE d # c /\ e = c
      BY <1>3, <1>4, <1>5, <2>2
    <2>3. CASE d # c /\ e # c
      BY <1>3, <1>5, <2>3 DEF RevisionsInv
    <2>. QED
      BY <2>1, <2>2, <2>3
  <1>6. ASSUME NEW d \in Creators, creating'[d] # NoRequest,
               creating'[d].level = "station"
        PROVE  (Duplicates(creating[d]) = {})'
    <2>1. PICK x : x = creating'[d]
      OBVIOUS
    <2>2. Duplicates(x) = {}
      BY <1>1, <1>3, <1>6, <2>1 DEF RevisionsInv
    <2>. QED
      BY <1>1, <2>1, <2>2 DEF Duplicates
  <1>7. StationRevisionsDistinct'
    BY <1>1 DEF RevisionsInv, StationRevisionsDistinct
  <1>8. RevisionsInv'
    BY <1>5, <1>6, <1>7 DEF RevisionsInv
  <1>9. RevisionsGrow /\ Len(revisions') <= MaxRevisions
    BY <1>1, RevisionsUnchanged DEF TypeOK
  <1>. QED
    BY <1>2, <1>8, <1>9, PolicyKeeps DEF CheckRevision

\* What was counted holds when the request of the station is inserted.
LEMMA InsertRevisionKeeps ==
    ASSUME BooksInv, NEW c \in Creators, InsertRevision(c)
    PROVE  BooksInv'
  <1>. Typed /\ TypeOK /\ RevisionsInv
    BY DEF BooksInv
  <1>1. /\ creating[c] # NoRequest /\ Len(revisions) < MaxRevisions
        /\ creating' = [creating EXCEPT ![c] = NoRequest]
        /\ creating \in [Creators -> Requested \cup {NoRequest}]
    BY DEF InsertRevision, Typed
  <1>2. PICK r \in Revision : r = creating[c]
    BY <1>1, RequestedRevisions
  <1>3. revisions' = Append(revisions, r)
    BY <1>2 DEF InsertRevision
  <1>4. PICK n \in Nat : n = Len(revisions) + 1
    BY Rows
  <1>5. /\ RevisionsGrow /\ Len(revisions') = n
        /\ \A i \in DOMAIN revisions : revisions'[i] = revisions[i]
        /\ revisions'[n] = r
    BY <1>3, <1>4, RevisionAdded
  <1>6. DOMAIN revisions' = DOMAIN revisions \cup {n}
    BY <1>4, <1>5, Rows DEF RevisionsGrow
  <1>7. creating' \in [Creators -> Requested \cup {NoRequest}]
    BY <1>1
  <1>8. \A d \in Creators : creating'[d] = IF d = c THEN NoRequest ELSE creating[d]
    BY <1>1
  <1>9. r.level = "station" => Duplicates(r) = {}
    BY <1>1, <1>2 DEF RevisionsInv
  <1>10. StationRevisionsDistinct'
    <2>1. SUFFICES ASSUME NEW i \in DOMAIN revisions', NEW j \in DOMAIN revisions',
                          i # j, revisions'[i].kind = revisions'[j].kind,
                          revisions'[i].policy = revisions'[j].policy,
                          revisions'[i].level = "station",
                          revisions'[j].level = "station",
                          revisions'[i].from = revisions'[j].from
                   PROVE  FALSE
      BY DEF StationRevisionsDistinct
    <2>2. CASE i = n
      <3>1. j \in DOMAIN revisions
        BY <1>6, <2>1, <2>2
      <3>2. j \in Duplicates(r)
        BY <1>5, <2>1, <2>2, <3>1 DEF Duplicates
      <3>. QED
        BY <1>5, <1>9, <2>1, <2>2, <3>2
    <2>3. CASE j = n
      <3>1. i \in DOMAIN revisions
        BY <1>6, <2>1, <2>3
      <3>2. i \in Duplicates(r)
        BY <1>5, <2>1, <2>3, <3>1 DEF Duplicates
      <3>. QED
        BY <1>5, <1>9, <2>1, <2>3, <3>2
    <2>4. CASE i # n /\ j # n
      BY <1>5, <1>6, <2>1, <2>4 DEF RevisionsInv, StationRevisionsDistinct
    <2>. QED
      BY <2>2, <2>3, <2>4
  <1>11. ASSUME NEW d \in Creators, creating'[d] # NoRequest,
                creating'[d].level = "station"
         PROVE  (Duplicates(creating[d]) = {})'
    <2>1. PICK x : x = creating'[d]
      OBVIOUS
    <2>2. d # c /\ x = creating[d]
      BY <1>8, <1>11, <2>1
    <2>3. Duplicates(x) = {}
      BY <1>11, <2>1, <2>2 DEF RevisionsInv
    <2>4. r.level # "station"
      BY <1>1, <1>2, <1>11, <2>1, <2>2 DEF RevisionsInv
    <2>5. \A i \in DOMAIN revisions' :
            ~(/\ revisions'[i].kind = x.kind /\ revisions'[i].policy = x.policy
              /\ revisions'[i].level = x.level /\ revisions'[i].from = x.from)
      BY <1>5, <1>6, <1>11, <2>1, <2>3, <2>4 DEF Duplicates
    <2>. QED
      BY <2>1, <2>5 DEF Duplicates
  <1>12. RevisionsInv'
    <2>1. \A d, e \in Creators :
         ( /\ d # e /\ creating'[d] # NoRequest /\ creating'[e] # NoRequest
           /\ creating'[d].level = "station" ) => creating'[e].level # "station"
      BY <1>8 DEF RevisionsInv
    <2>. QED
      BY <1>10, <1>11, <2>1 DEF RevisionsInv
  <1>13. Len(revisions') <= MaxRevisions
    BY <1>1, <1>4, <1>5, Rows, BooksAssumption
  <1>. QED
    BY <1>5, <1>7, <1>12, <1>13, PolicyKeeps DEF InsertRevision

\* Only a revision without types gets some, and no loss relies on it.
LEMMA AddTypesKeeps ==
    ASSUME BooksInv, NEW i \in DOMAIN revisions, NEW minimum \in Finalized,
           AddTypes(i, minimum)
    PROVE  BooksInv'
  <1>. Typed /\ TypeOK /\ RevisionsInv
    BY DEF BooksInv
  <1>1. PICK y \in Revision : y = revisions[i]
    BY Rows
  <1>2. minimum \in Nat
    BY BooksAssumption
  <1>3. PICK x \in Revision : x = [y EXCEPT !.types = {minimum}]
    BY <1>2 DEF Revision, RevisionOf
  <1>4. /\ x.kind = y.kind /\ x.policy = y.policy /\ x.level = y.level
        /\ x.from = y.from /\ x.disabled = y.disabled /\ x.value = y.value
    BY <1>3 DEF Revision, RevisionOf
  <1>5. y.types = {} /\ revisions' = [revisions EXCEPT ![i] = x]
    BY <1>1, <1>3 DEF AddTypes
  <1>6. revisions \in Seq(Revision)
    BY DEF Typed
  <1>7. /\ revisions' \in Seq(Revision) /\ Len(revisions') = Len(revisions)
        /\ DOMAIN revisions' = DOMAIN revisions
        /\ \A j \in DOMAIN revisions : revisions'[j] = IF j = i THEN x ELSE revisions[j]
    BY <1>5, <1>6
  <1>8. RevisionsGrow
    BY <1>1, <1>4, <1>5, <1>7, Rows DEF RevisionsGrow
  <1>9. RevisionsInv'
    <2>1. \A j \in DOMAIN revisions :
            /\ revisions'[j].kind = revisions[j].kind
            /\ revisions'[j].policy = revisions[j].policy
            /\ revisions'[j].level = revisions[j].level
            /\ revisions'[j].from = revisions[j].from
      BY <1>8 DEF RevisionsGrow
    <2>2. UNCHANGED creating
      BY DEF AddTypes
    <2>3. StationRevisionsDistinct'
      <3>1. SUFFICES ASSUME NEW j \in DOMAIN revisions, NEW k \in DOMAIN revisions,
                            j # k, revisions'[j].kind = revisions'[k].kind,
                            revisions'[j].policy = revisions'[k].policy,
                            revisions'[j].level = "station",
                            revisions'[k].level = "station"
                     PROVE  revisions'[j].from # revisions'[k].from
        BY <1>7 DEF StationRevisionsDistinct
      <3>. QED
        BY <2>1, <3>1 DEF RevisionsInv, StationRevisionsDistinct
    <2>4. ASSUME NEW r
          PROVE  Duplicates(r)' = Duplicates(r)
      BY <1>7, <2>1 DEF Duplicates
    <2>5. ASSUME NEW c \in Creators, creating[c] # NoRequest,
                 creating[c].level = "station"
          PROVE  (Duplicates(creating[c]) = {})'
      <3>1. PICK x2 : x2 = creating[c]
        OBVIOUS
      <3>2. Duplicates(x2)' = {}
        BY <2>4, <2>5, <3>1 DEF RevisionsInv
      <3>. QED
        BY <2>2, <3>1, <3>2 DEF Duplicates
    <2>. QED
      BY <2>2, <2>3, <2>5 DEF RevisionsInv
  <1>10. Len(revisions') <= MaxRevisions
    BY <1>7 DEF TypeOK
  <1>11. creating' \in [Creators -> Requested \cup {NoRequest}]
    BY DEF AddTypes, Typed
  <1>. QED
    BY <1>8, <1>9, <1>10, <1>11, PolicyKeeps DEF AddTypes

-----------------------------------------------------------------------------
(* Surroundings                                                            *)

\* A step of the marks, the rules or the clock.
LEMMA SurroundingsKeep ==
    ASSUME BooksInv, UNCHANGED <<ledger, books, revisions, creating, alerts, workload>>,
           MarksGrow,
           marks' \in Marks,
           enabled' \in [{"starvation", "variance"} -> BOOLEAN],
           evaluated' \in BOOLEAN, now' \in 0..MaxTime,
           evaluated' => evaluated /\ UNCHANGED <<enabled, now>>
    PROVE  BooksInv'
  <1>. Typed /\ TypeOK /\ LedgerInv /\ OverdueIsAlerted
    BY DEF BooksInv
  <1>1. LedgerGrows /\ RevisionsGrow
    BY LedgerUnchanged, RevisionsUnchanged
  <1>2. Typed'
    <2>1. Requested' = Requested
      BY DEF Requested
    <2>. QED
      BY <2>1 DEF Typed
  <1>3. TypeOK'
    BY DEF TypeOK, Shifts, Requested
  <1>4. LedgerInv'
    BY DEF LedgerInv, Shifts, Locked
  <1>5. ShiftsInv'
    BY <1>1, ShiftsLast
  <1>6. AlertsInv' /\ RevisionsInv'
    BY <1>1, AlertsLast, RevisionsStay
  <1>7. OverdueIsAlerted'
    BY DEF OverdueIsAlerted, Shifts, Has, Locked
  <1>. QED
    BY <1>2, <1>3, <1>4, <1>5, <1>6, <1>7 DEF BooksInv

\* A reset or a baseline can only excuse a break of the chain.
LEMMA MarkKeeps ==
    ASSUME BooksInv, NEW s \in 1..MaxShifts, NEW value \in 0..(Modulus - 1),
           Mark(s, value)
    PROVE  BooksInv'
  <1>. Typed
    BY DEF BooksInv
  <1>1. s \in Nat /\ value \in Nat
    BY BooksAssumption
  <1>2. marks.resets = {} /\ marks.baseline = {}
    BY DEF Mark
  <1>3. MarksGrow
    BY <1>2 DEF MarksGrow
  <1>4. marks' \in Marks
    <2>1. /\ {Reset(s, value)} \subseteq [shift : Nat, value : Nat]
          /\ {Baseline(s, value)} \subseteq [from : Nat, value : Nat]
      BY <1>1 DEF Reset, Baseline
    <2>2. PICK m \in Marks : m = marks
      BY DEF Typed
    <2>3. PICK R \in SUBSET [shift : Nat, value : Nat] : R = {Reset(s, value)}
      BY <2>1
    <2>4. PICK B \in SUBSET [from : Nat, value : Nat] : B = {Baseline(s, value)}
      BY <2>1
    <2>5. CASE marks' = [m EXCEPT !.resets = R]
      BY <2>5 DEF Marks
    <2>6. CASE marks' = [m EXCEPT !.baseline = B]
      BY <2>6 DEF Marks
    <2>. QED
      BY <2>2, <2>3, <2>4, <2>5, <2>6 DEF Mark
  <1>5. /\ enabled' \in [{"starvation", "variance"} -> BOOLEAN]
        /\ evaluated' \in BOOLEAN /\ now' \in 0..MaxTime
    BY DEF Mark, Typed
  <1>. QED
    BY <1>3, <1>4, <1>5, SurroundingsKeep DEF Mark

\* Switching a rule ends what the last evaluation showed.
LEMMA SwitchRuleKeeps ==
    ASSUME BooksInv, NEW rule \in DOMAIN enabled, SwitchRule(rule)
    PROVE  BooksInv'
  <1>. Typed
    BY DEF BooksInv
  <1>1. enabled' \in [{"starvation", "variance"} -> BOOLEAN]
    BY DEF SwitchRule, Typed
  <1>2. MarksGrow
    BY DEF SwitchRule, MarksGrow
  <1>. QED
    BY <1>1, <1>2, SurroundingsKeep DEF SwitchRule, Typed

\* So does the clock.
LEMMA TickKeeps ==
    ASSUME BooksInv, Tick
    PROVE  BooksInv'
  <1>. Typed
    BY DEF BooksInv
  <1>1. now' \in 0..MaxTime
    BY BooksAssumption DEF Tick, Typed
  <1>2. MarksGrow
    BY DEF Tick, MarksGrow
  <1>. QED
    BY <1>1, <1>2, SurroundingsKeep DEF Tick, Typed

-----------------------------------------------------------------------------
(* Shifts                                                                  *)

\* A step that is no evaluation keeps nothing of the last one.
LEMMA NotEvaluated ==
    ASSUME evaluated' = FALSE
    PROVE  OverdueIsAlerted'
  BY DEF OverdueIsAlerted

\* A new shift is open and has no figures yet.
LEMMA OpenShiftKeeps ==
    ASSUME BooksInv, NEW backfilled \in BOOLEAN, OpenShift(backfilled)
    PROVE  BooksInv'
  <1>. Typed /\ TypeOK /\ LedgerInv /\ ShiftsInv
    BY DEF BooksInv
  <1>. UNCHANGED <<revisions, creating, marks, enabled, alerts, now, workload>>
       /\ evaluated' = FALSE
    BY DEF OpenShift
  <1>1. PICK x \in Entry : x = [phase |-> "open", version |-> 0]
    BY DEF Entry
  <1>2. PICK b \in Book : b = [opened |-> now, backfilled |-> backfilled,
          reading |-> NoReading, threshold |-> 0, evidence |-> 0,
          finalized |-> NoLoss, known |-> 0, at |-> 0, after |-> {}]
    <2>1. NoReading \in ReadingRow /\ NoLoss \in Int /\ now \in Nat
      BY Rows DEF NoReading, ReadingRow, NoLoss
    <2>. QED
      BY <2>1 DEF Book
  <1>3. ledger' = Append(ledger, x) /\ books' = Append(books, b)
    BY <1>1, <1>2 DEF OpenShift, Ledger!Open
  <1>4. Len(ledger) < MaxShifts
    BY Rows, BooksAssumption DEF OpenShift
  <1>5. PICK n \in Nat : n = Len(ledger) + 1
    BY Rows
  <1>6. /\ ledger' \in Seq(Entry) /\ Len(ledger') = n
        /\ ledger'[n] = x /\ \A s \in Shifts : ledger'[s] = ledger[s]
    BY <1>3, <1>5 DEF Typed, Shifts
  <1>7. /\ books' \in Seq(Book) /\ Len(books') = n
        /\ books'[n] = b /\ \A s \in Shifts : books'[s] = books[s]
    BY <1>3, <1>5, Rows DEF Typed
  <1>8. Shifts' = Shifts \cup {n} /\ n \notin Shifts /\ n > 0
    BY <1>5, <1>6, Rows DEF Shifts
  <1>9. LedgerGrows
    <2>1. \A s \in Shifts : ledger[s].version \in Nat
      BY Rows DEF Entry
    <2>. QED
      BY <1>5, <1>6, <2>1, Rows DEF LedgerGrows, Locked
  <1>10. RevisionsGrow /\ MarksGrow
    BY RevisionsUnchanged DEF MarksGrow
  <1>11. Typed'
    <2>1. Requested' = Requested
      BY DEF Requested
    <2>. QED
      BY <1>6, <1>7, <2>1 DEF Typed
  <1>12. TypeOK'
    <2>1. b.reading = NoReading /\ b.threshold = 0 /\ b.evidence = 0
      BY <1>2
    <2>2. /\ NoReading.start \in -1..(Modulus - 1) /\ NoReading.source = 0
          /\ 0 \in 0..Len(revisions)
      BY BooksAssumption, Rows DEF NoReading
    <2>3. \A s \in Shifts' :
            /\ books'[s].reading.start \in -1..(Modulus - 1)
            /\ books'[s].reading.source < s
            /\ books'[s].threshold \in 0..Len(revisions)
            /\ books'[s].evidence \in 0..Len(revisions)
      BY <1>7, <1>8, <2>1, <2>2 DEF TypeOK
    <2>4. Len(ledger') = Len(books') /\ Len(ledger') <= MaxShifts
      BY <1>4, <1>5, <1>6, <1>7, Rows, BooksAssumption
    <2>5. /\ \A c \in Creators : creating[c] # NoRequest => creating[c] \in Requested
          /\ \A i \in DOMAIN alerts : alerts[i].shift \in Shifts'
          /\ Len(revisions) <= MaxRevisions
      BY <1>8 DEF TypeOK
    <2>6. Requested' = Requested
      BY DEF Requested
    <2>. QED
      BY <2>3, <2>4, <2>5, <2>6 DEF TypeOK
  <1>13. LedgerInv'
    BY <1>1, <1>6, <1>8 DEF LedgerInv, Locked
  <1>14. ShiftsInv'
    <2>1. ASSUME NEW s \in Shifts
          PROVE  ShiftOK(s)'
      BY <1>6, <1>7, <1>9, <1>10, ShiftLasts DEF ShiftsInv
    <2>2. /\ b.reading = NoReading /\ b.evidence = 0 /\ b.known = 0 /\ b.after = {}
          /\ x.phase = "open"
      BY <1>1, <1>2
    <2>3. ReadingOK(n)' /\ LossOK(n)' /\ ChainOK(n)'
      BY <1>7, <2>2 DEF ReadingOK, LossOK, ChainOK
    <2>4. PolicyOK(n)'
      BY <1>6, <1>7, <2>2, Rows DEF PolicyOK
    <2>. QED
      BY <1>8, <2>1, <2>3, <2>4 DEF ShiftsInv, ShiftOK
  <1>15. AlertsInv' /\ RevisionsInv' /\ OverdueIsAlerted'
    BY <1>9, AlertsLast, RevisionsStay, NotEvaluated
  <1>. QED
    BY <1>11, <1>12, <1>13, <1>14, <1>15 DEF BooksInv

\* A decision or an amendment changes the entry of a submitted shift only.
LEMMA EntryKeeps ==
    ASSUME BooksInv, NEW s \in Shifts, NEW x \in Entry, evaluated' = FALSE,
           ledger' = [ledger EXCEPT ![s] = x],
           UNCHANGED <<books, revisions, creating, marks, enabled, alerts, now, workload>>,
           ledger[s].phase # "open", x.phase # "open",
           ledger[s].version <= x.version, x.version > 0,
           Locked(s) => x.version > 1
    PROVE  BooksInv'
  <1>. Typed /\ TypeOK /\ LedgerInv
    BY DEF BooksInv
  <1>1. /\ ledger' \in Seq(Entry) /\ Len(ledger') = Len(ledger)
        /\ Shifts' = Shifts
        /\ \A t \in Shifts : ledger'[t] = IF t = s THEN x ELSE ledger[t]
    BY EntryUpdated
  <1>2. LedgerGrows
    <2>1. \A t \in Shifts : ledger[t].version \in Nat
      BY Rows DEF Entry
    <2>. QED
      BY <1>1, <2>1, Rows DEF LedgerGrows, Locked
  <1>3. RevisionsGrow /\ MarksGrow
    BY RevisionsUnchanged DEF MarksGrow
  <1>4. Requested' = Requested
    BY DEF Requested
  <1>5. Typed'
    BY <1>1, <1>4 DEF Typed
  <1>6. TypeOK'
    BY <1>1, <1>4 DEF TypeOK
  <1>7. LedgerInv'
    BY <1>1 DEF LedgerInv, Locked
  <1>8. ShiftsInv'
    BY <1>1, <1>2, <1>3, ShiftsLast
  <1>9. AlertsInv' /\ RevisionsInv' /\ OverdueIsAlerted'
    BY <1>2, AlertsLast, RevisionsStay, NotEvaluated
  <1>. QED
    BY <1>5, <1>6, <1>7, <1>8, <1>9 DEF BooksInv

\* A decision keeps the version.
LEMMA DecideKeeps ==
    ASSUME BooksInv, NEW s \in Shifts, Decide(s)
    PROVE  BooksInv'
  <1>. Typed /\ TypeOK /\ LedgerInv
    BY DEF BooksInv
  <1>1. PICK y \in Entry : y = ledger[s]
    BY Rows
  <1>2. /\ ledger[s].phase = "awaiting_confirmation" /\ evaluated' = FALSE
        /\ UNCHANGED <<books, revisions, creating, marks, enabled, alerts, now, workload>>
    BY DEF Decide, Ledger!Decide
  <1>3. PICK phase \in {"locked", "needs_correction"} :
          ledger' = [ledger EXCEPT ![s].phase = phase]
    BY DEF Decide, Ledger!Decide
  <1>4. PICK x \in Entry : x = [y EXCEPT !.phase = phase]
    BY DEF Entry
  <1>5. x.phase = phase /\ x.version = y.version /\ y.version \in Nat
    BY <1>4 DEF Entry
  <1>6. ledger' = [ledger EXCEPT ![s] = x]
    BY <1>1, <1>3, <1>4 DEF Shifts
  <1>7. y.version > 0
    BY <1>1, <1>2 DEF LedgerInv
  <1>8. ~Locked(s)
    BY <1>2 DEF Locked
  <1>9. /\ ledger[s].phase # "open" /\ x.phase # "open"
        /\ ledger[s].version <= x.version /\ x.version > 0
    BY <1>1, <1>2, <1>5, <1>7
  <1>. QED
    BY <1>2, <1>6, <1>8, <1>9, EntryKeeps

\* An amendment is at least version 2, so it explains a cleared alert.
LEMMA AmendKeeps ==
    ASSUME BooksInv, NEW s \in Shifts, Amend(s)
    PROVE  BooksInv'
  <1>. Typed /\ TypeOK /\ LedgerInv
    BY DEF BooksInv
  <1>1. PICK y \in Entry : y = ledger[s]
    BY Rows
  <1>2. /\ ledger[s].phase # "open" /\ evaluated' = FALSE
        /\ UNCHANGED <<books, revisions, creating, marks, enabled, alerts, now, workload>>
    BY DEF Amend, Ledger!Amend
  <1>3. y.version \in Nat /\ y.version > 0
    BY <1>1, <1>2 DEF LedgerInv, Entry
  <1>. PICK v \in Nat : v = y.version + 1
    BY <1>3
  <1>4. PICK x \in Entry : x = [phase |-> "awaiting_confirmation", version |-> v]
    BY DEF Entry
  <1>5. x.phase = "awaiting_confirmation" /\ x.version = y.version + 1
    BY <1>4
  <1>6. ledger' = [ledger EXCEPT ![s] = x]
    BY <1>1, <1>4 DEF Amend, Ledger!Amend, Shifts
  <1>7. /\ x.phase # "open" /\ ledger[s].version <= x.version
        /\ x.version > 0 /\ x.version > 1
    BY <1>1, <1>3, <1>5
  <1>. QED
    BY <1>2, <1>6, <1>7, EntryKeeps

-----------------------------------------------------------------------------
(* Submissions: the policies                                               *)

\* The revisions in force are valid, none if none is valid, and nothing valid
\* is closer to the station or later.
LEMMA InForceIsBest ==
    ASSUME Typed, TypeOK, NEW kind
    PROVE  /\ InForce(kind) \subseteq Valid(kind, Len(revisions), now)
           /\ InForce(kind) = {} => Valid(kind, Len(revisions), now) = {}
           /\ \A i \in InForce(kind), j \in Valid(kind, Len(revisions), now) :
                Rank(revisions[j]) <= Rank(revisions[i])
  <1>. DEFINE valid == Valid(kind, Len(revisions), now)
              own   == {i \in valid : revisions[i].level = "station"}
              level == IF own # {} THEN own ELSE valid
  <1>1. InForce(kind) = {i \in level : \A j \in level :
                                          revisions[j].from <= revisions[i].from}
    BY Rows DEF InForce, Valid
  <1>2. ASSUME NEW i \in valid
        PROVE  /\ revisions[i].from \in 0..MaxTime
               /\ revisions[i].level \in {"station", "organization"}
    BY Rows, RevisionColumns DEF Valid
  <1>3. level \subseteq valid /\ (level = {} => valid = {}) /\ MaxTime \in Nat
    BY BooksAssumption
  <1>4. ASSUME level # {}
        PROVE  InForce(kind) # {}
    <2>. DEFINE from == [i \in level |-> revisions[i].from]
    <2>1. \A i \in level : from[i] \in 0..MaxTime /\ from[i] = revisions[i].from
      BY <1>2, <1>3
    <2>. HIDE DEF from, level
    <2>2. PICK i \in level : \A j \in level : from[j] <= from[i]
      BY <1>3, <1>4, <2>1, LatestExists
    <2>. QED
      BY <1>1, <2>1, <2>2
  <1>5. ASSUME NEW i \in InForce(kind), NEW j \in valid
        PROVE  Rank(revisions[j]) <= Rank(revisions[i])
    <2>1. /\ i \in valid /\ i \in level
          /\ \A k \in level : revisions[k].from <= revisions[i].from
      BY <1>1, <1>3
    <2>2. /\ revisions[i].from \in 0..MaxTime /\ revisions[j].from \in 0..MaxTime
          /\ MaxTime \in Nat
      BY <1>2, <1>3, <2>1
    <2>3. CASE own # {}
      <3>1. revisions[i].level = "station"
        BY <2>1, <2>3
      <3>2. CASE revisions[j].level = "station"
        <4>1. j \in level
          BY <2>3, <3>2
        <4>2. revisions[j].from <= revisions[i].from
          BY <2>1, <4>1
        <4>. QED
          BY <2>2, <3>1, <3>2, <4>2 DEF Rank
      <3>3. CASE revisions[j].level # "station"
        BY <2>2, <3>1, <3>3 DEF Rank
      <3>. QED
        BY <3>2, <3>3
    <2>4. CASE own = {}
      <3>1. j \in level /\ revisions[i].level # "station"
            /\ revisions[j].level # "station"
        BY <2>1, <2>4
      <3>2. revisions[j].from <= revisions[i].from
        BY <2>1, <3>1
      <3>. QED
        BY <2>2, <3>1, <3>2 DEF Rank
    <2>. QED
      BY <2>3, <2>4
  <1>6. InForce(kind) \subseteq valid
    BY <1>1, <1>3
  <1>. QED
    BY <1>3, <1>4, <1>5, <1>6

\* The choices of a submission, with the revisions it leaves.
FreezesThreshold(i, value) ==
    /\ i \in ThresholdChoices
    /\ value = IF i > Len(revisions) THEN DefaultThreshold ELSE revisions[i].value
    /\ i > Len(revisions) => Len(revisions) < MaxRevisions
    /\ revisions' = IF i > Len(revisions)
         THEN Append(revisions, NewRevision("threshold", "default",
                        "organization", now, FALSE, value))
         ELSE revisions

\* The threshold a submission freezes was in force, also if it is the default
\* it has just made.
LEMMA ThresholdFrozen ==
    ASSUME BooksInv, NEW i, NEW value, FreezesThreshold(i, value)
    PROVE  /\ RevisionsGrow /\ Len(revisions') \in Nat
           /\ Len(revisions') <= MaxRevisions
           /\ i \in 1..Len(revisions') /\ revisions'[i].value = value
           /\ value \in ThresholdValue
           /\ \A j \in DOMAIN revisions : revisions'[j] = revisions[j]
           /\ \A j \in DOMAIN revisions' \ DOMAIN revisions :
                /\ revisions'[j].level = "organization"
                /\ revisions'[j].kind = "threshold"
           /\ \A k \in Nat, t \in Nat :
                k = Len(revisions') /\ t = now => WasInForce("threshold", i, k, t)'
  <1>. Typed /\ TypeOK
    BY DEF BooksInv
  <1>. PICK n \in Nat : n = Len(revisions)
    BY Rows
  <1>. PICK t \in Nat : t = now
    BY Rows
  <1>1. CASE InForce("threshold") # {}
    <2>1. i \in InForce("threshold")
      BY <1>1 DEF FreezesThreshold, ThresholdChoices
    <2>2. i \in Valid("threshold", n, t)
      BY <2>1, InForceIsBest
    <2>3. i \in 1..n /\ revisions[i].kind = "threshold"
      BY <2>2 DEF Valid
    <2>4. revisions' = revisions /\ value = revisions[i].value
      <3>1. ~(i > Len(revisions))
        BY <2>3
      <3>. QED
        BY <3>1 DEF FreezesThreshold
    <2>5. revisions[i] \in Revision
      BY <2>3, Rows
    <2>6. value \in ThresholdValue
      BY <2>3, <2>4, <2>5, RevisionColumns
    <2>7. WasInForce("threshold", i, n, t)
      BY <2>1, <2>2, <2>3, InForceIsBest DEF WasInForce
    <2>8. RevisionsGrow
      BY <2>4, RevisionsUnchanged
    <2>9. WasInForce("threshold", i, n, t)'
      BY <2>7, <2>8, WasInForceLasts
    <2>. QED
      BY <2>3, <2>4, <2>6, <2>8, <2>9 DEF TypeOK
  <1>2. CASE InForce("threshold") = {}
    <2>1. i = n + 1
      BY <1>2 DEF FreezesThreshold, ThresholdChoices
    <2>2. Valid("threshold", n, t) = {}
      BY <1>2, InForceIsBest
    <2>3. PICK r \in Revision :
            /\ r = NewRevision("threshold", "default", "organization", now, FALSE,
                               DefaultThreshold)
            /\ r.kind = "threshold" /\ r.level = "organization"
            /\ r.from = now /\ ~r.disabled /\ r.value = DefaultThreshold
      BY DefaultRevision
    <2>. r.from \in Nat /\ r.from = t /\ r.level = "organization"
      BY <2>3
    <2>4. revisions' = Append(revisions, r) /\ value = DefaultThreshold /\ n < MaxRevisions
      <3>1. i > Len(revisions)
        BY <2>1
      <3>2. value = DefaultThreshold /\ n < MaxRevisions
        BY <3>1 DEF FreezesThreshold
      <3>. QED
        BY <2>3, <3>1, <3>2 DEF FreezesThreshold
    <2>5. /\ RevisionsGrow /\ Len(revisions') = n + 1
          /\ \A j \in DOMAIN revisions : revisions'[j] = revisions[j]
          /\ revisions'[n + 1] = r
      BY <2>4, RevisionAdded
    <2>6. value \in ThresholdValue
      BY <2>4, BooksAssumption DEF ThresholdValue
    <2>7. DOMAIN revisions' = DOMAIN revisions \cup {n + 1}
      BY <2>5, Rows DEF RevisionsGrow
    <2>8. PICK k \in Nat : k = n + 1
      OBVIOUS
    <2>9. Valid("threshold", n, t)' = {}
      BY <2>2, <2>5, ValidLasts
    <2>10. Valid("threshold", k, t)' = {k}
      <3>1. k \in Valid("threshold", k, t)'
        <4>1. revisions'[k] = r
          BY <2>5, <2>8
        <4>2. k \in 1..k /\ r.from <= t
          BY <2>8
        <4>. QED
          BY <2>3, <4>1, <4>2 DEF Valid
      <3>2. ASSUME NEW j \in Valid("threshold", k, t)', j # k
            PROVE  FALSE
        <4>1. j \in Valid("threshold", n, t)'
          BY <2>8, <3>2 DEF Valid
        <4>. QED
          BY <2>9, <4>1
      <3>. QED
        BY <3>1, <3>2
    <2>11. Rank(revisions'[k]) <= Rank(revisions'[k])
      <3>1. revisions'[k] = r
        BY <2>5, <2>8
      <3>2. Rank(r) \in Nat
        BY DEF Rank
      <3>. QED
        BY <3>1, <3>2
    <2>12. WasInForce("threshold", k, k, t)'
      BY <2>8, <2>10, <2>11 DEF WasInForce, Rank
    <2>13. /\ k = Len(revisions') /\ i = k /\ k \in 1..k
           /\ revisions'[i].value = value
      <3>1. k = Len(revisions') /\ i = k /\ revisions'[i] = r
        BY <2>1, <2>5, <2>8
      <3>2. k \in 1..k
        BY <2>8
      <3>. QED
        BY <2>3, <2>4, <3>1, <3>2
    <2>14. Len(revisions') <= MaxRevisions
      BY <2>4, <2>8, <2>13, BooksAssumption
    <2>15. \A j \in DOMAIN revisions' \ DOMAIN revisions : revisions'[j] = r
      BY <2>5, <2>7
    <2>. QED
      BY <2>3, <2>5, <2>6, <2>12, <2>13, <2>14, <2>15
  <1>. QED
    BY <1>1, <1>2

\* The evidence policy a submission freezes was in force, also among the
\* revisions it leaves: what it may add is a threshold.
LEMMA EvidenceFrozen ==
    ASSUME BooksInv, NEW i, NEW value, FreezesThreshold(i, value),
           NEW e \in EvidenceChoices
    PROVE  /\ e \in 0..Len(revisions')
           /\ e # 0 => /\ revisions[e] \in Revision /\ revisions[e].kind = "evidence"
                       /\ revisions[e].types # {} /\ revisions'[e] = revisions[e]
           /\ \A k \in Nat, t \in Nat :
                k = Len(revisions') /\ t = now => WasInForce("evidence", e, k, t)'
  <1>. Typed /\ TypeOK
    BY DEF BooksInv
  <1>. PICK n \in Nat : n = Len(revisions)
    BY Rows
  <1>. PICK k \in Nat : k = Len(revisions')
    BY ThresholdFrozen
  <1>. PICK t \in Nat : t = now
    BY Rows
  <1>1. RevisionsGrow /\ n <= k /\ DOMAIN revisions = 1..n /\ DOMAIN revisions' = 1..k
    BY Rows, ThresholdFrozen DEF RevisionsGrow
  <1>2. /\ \A j \in 1..n : revisions'[j] = revisions[j]
        /\ \A j \in 1..k : j \notin 1..n => revisions'[j].kind = "threshold"
    BY <1>1, ThresholdFrozen
  <1>3. Valid("evidence", k, t)' = Valid("evidence", n, t)'
    BY <1>1, <1>2 DEF Valid
  <1>4. e \in 0..n /\ WasInForce("evidence", e, n, t)
        /\ (e # 0 => e \in Valid("evidence", n, t) /\ revisions[e].types # {})
    <2>1. CASE InForce("evidence") = {}
      <3>1. e = 0
        BY <2>1 DEF EvidenceChoices
      <3>2. Valid("evidence", n, t) = {}
        BY <2>1, InForceIsBest
      <3>. QED
        BY <3>1, <3>2 DEF WasInForce
    <2>2. CASE InForce("evidence") # {}
      <3>1. e \in InForce("evidence") /\ revisions[e].types # {}
        BY <2>2 DEF EvidenceChoices
      <3>2. e \in Valid("evidence", n, t)
        BY <3>1, InForceIsBest
      <3>3. e \in 1..n
        BY <3>2 DEF Valid
      <3>4. \A j \in Valid("evidence", n, t) : Rank(revisions[j]) <= Rank(revisions[e])
        BY <3>1, InForceIsBest
      <3>. QED
        BY <3>1, <3>2, <3>3, <3>4 DEF WasInForce
    <2>. QED
      BY <2>1, <2>2
  <1>5. WasInForce("evidence", e, n, t)'
    BY <1>1, <1>4, WasInForceLasts
  <1>6. WasInForce("evidence", e, k, t)'
    BY <1>3, <1>5 DEF WasInForce
  <1>7. ASSUME e # 0
        PROVE  /\ revisions[e] \in Revision /\ revisions[e].kind = "evidence"
               /\ revisions[e].types # {} /\ revisions'[e] = revisions[e]
    <2>1. e \in 1..n /\ revisions[e].kind = "evidence"
      BY <1>4, <1>7 DEF Valid
    <2>. QED
      BY <1>1, <1>2, <1>4, <1>7, <2>1, Rows
  <1>. QED
    BY <1>1, <1>4, <1>6, <1>7

\* Under a policy in force, an accepted loss has the evidence it asks for.
LEMMA EvidenceSuffices ==
    ASSUME NEW r \in Revision, r.kind = "evidence", r.types # {}, NEW finalized \in Int,
           \A minimum \in r.types :
             EvidenceSatisfied(r.value.mode, minimum, finalized)
    PROVE  /\ finalized > 0
           /\ r.value.mode = "wajib" => \A minimum \in r.types : finalized >= minimum
  <1>1. r.types \subseteq Nat /\ r.value.mode \in {"wajib", "opsional"}
    BY RevisionColumns DEF EvidenceValue
  <1>2. ASSUME NEW minimum \in r.types
        PROVE  /\ finalized > 0
               /\ r.value.mode = "wajib" => finalized >= minimum
    <2>1. EvidenceSatisfied(r.value.mode, minimum, finalized) /\ minimum \in Nat
      BY <1>1
    <2>2. CASE r.value.mode = "wajib"
      BY <2>1, <2>2 DEF EvidenceSatisfied
    <2>3. CASE r.value.mode = "opsional"
      BY <2>1, <2>3 DEF EvidenceSatisfied
    <2>. QED
      BY <1>1, <2>2, <2>3
  <1>. QED
    BY <1>2

-----------------------------------------------------------------------------
(* Submissions: the meter                                                  *)

\* The figures of a reading, as the rollover limit allows them.
MeteredWithin(r, rollover) ==
    /\ r.start \in 0..(Modulus - 1) /\ r.end \in 0..(Modulus - 1)
    /\ (r.start + r.delta) % Modulus = r.end
    /\ r.delta \in 0..(Modulus - 1)
    /\ (r.source = 0 /\ r.end < r.start) => r.delta <= rollover
    /\ r.sale <= MaxRupiah
    /\ Distance(r.sale * Unit, r.delta * Price) * 2 <= Unit

\* The distance between two positions of the meter is the one on its circle.
LEMMA MeterDeltaIsCircular ==
    ASSUME NEW start \in 0..(Modulus - 1), NEW end \in 0..(Modulus - 1)
    PROVE  /\ MeterDelta(start, end) \in 0..(Modulus - 1)
           /\ (start + MeterDelta(start, end)) % Modulus = end
  <1>1. PICK m \in Nat \ {0} : m = Modulus
    BY BooksAssumption
  <1>2. start \in 0..(m - 1) /\ end \in 0..(m - 1)
    BY <1>1
  <1>3. end % m = end /\ (m + end) % m = end
    BY <1>2, Remainders
  <1>4. CASE end < start
    <2>1. MeterDelta(start, end) = m - start + end
      BY <1>1, <1>4 DEF MeterDelta, Rolls
    <2>2. start + (m - start + end) = m + end /\ m - start + end \in 0..(m - 1)
      BY <1>2, <1>4
    <2>. QED
      BY <1>1, <1>3, <2>1, <2>2
  <1>5. CASE ~(end < start)
    <2>1. MeterDelta(start, end) = end - start
      BY <1>5 DEF MeterDelta, Rolls
    <2>2. start + (end - start) = end /\ end - start \in 0..(m - 1)
      BY <1>2, <1>5
    <2>. QED
      BY <1>1, <1>3, <2>1, <2>2
  <1>. QED
    BY <1>4, <1>5

\* A reading that is entered.
LEMMA EnteredReadingOK ==
    ASSUME NEW s, NEW rollover, NEW r \in EnteredReadings(s, rollover)
    PROVE  /\ r \in ReadingRow /\ r # NoReading /\ r.source = 0
           /\ MeteredWithin(r, rollover) /\ StartAccepted(s, r.start)
  <1>1. PICK start, end \in 0..(Modulus - 1) : r = Reading(start, end)
    BY DEF EnteredReadings
  <1>2. /\ StartAccepted(s, r.start) /\ MeterAccepted(r.start, r.end, rollover)
        /\ r.sale <= MaxRupiah
    BY DEF EnteredReadings
  <1>3. PICK d \in 0..(Modulus - 1) :
          d = MeterDelta(start, end) /\ (start + d) % Modulus = end
    BY MeterDeltaIsCircular
  <1>. d \in Nat /\ d \in Int /\ start \in Int /\ end \in Int /\ start # -1
    BY BooksAssumption
  <1>4. PICK c \in Nat :
          c = ExpectedSale(d) /\ Distance(c * Unit, d * Price) * 2 <= Unit
    BY RoundsToNearest
  <1>5. r = [start |-> start, end |-> end, delta |-> d, sale |-> c, source |-> 0]
    BY <1>1, <1>3, <1>4 DEF Reading
  <1>6. r.start = start /\ r.end = end /\ r.delta = d /\ r.sale = c /\ r.source = 0
    BY <1>5
  <1>7. r \in ReadingRow
    BY <1>5 DEF ReadingRow
  <1>8. r # NoReading
    BY <1>6 DEF NoReading
  <1>9. end < start => d <= rollover
    BY <1>2, <1>3, <1>6 DEF MeterAccepted, Rolls
  <1>. QED
    BY <1>2, <1>3, <1>4, <1>6, <1>7, <1>8, <1>9 DEF MeteredWithin

\* A reading that is carried forward.
LEMMA CarriedReadingOK ==
    ASSUME BooksInv, NEW s \in Shifts, NEW rollover, NEW r \in CarriedReadings(s)
    PROVE  /\ r \in ReadingRow /\ r.source \in 1..(s - 1)
           /\ MeteredWithin(r, rollover)
  <1>. Typed /\ TypeOK
    BY DEF BooksInv
  <1>1. PICK p \in LockedBefore(s) :
          books[p].reading # NoReading /\ r = [books[p].reading EXCEPT !.source = p]
    BY DEF CarriedReadings
  <1>2. p \in 1..(s - 1) /\ p \in Shifts /\ p # 0
    BY Rows DEF LockedBefore
  <1>3. PICK b \in ReadingRow : b = books[p].reading
    BY <1>2, Rows DEF Book
  <1>4. MeteredWithin(b, revisions[books[p].threshold].value.rollover)
    BY <1>1, <1>2, <1>3 DEF BooksInv, ShiftsInv, ShiftOK, ReadingOK, MeteredWithin
  <1>5. /\ r.start = b.start /\ r.end = b.end /\ r.delta = b.delta
        /\ r.sale = b.sale /\ r.source = p
    BY <1>1, <1>3 DEF ReadingRow
  <1>6. r \in ReadingRow
    <2>1. p \in Nat
      BY <1>2
    <2>. QED
      BY <1>1, <1>3, <2>1 DEF ReadingRow
  <1>. QED
    BY <1>2, <1>4, <1>5, <1>6 DEF MeteredWithin

\* Whatever reading a submission promotes.
LEMMA ReadingFrozen ==
    ASSUME BooksInv, NEW s \in Shifts, NEW rollover, NEW r \in Readings(s, rollover)
    PROVE  /\ r \in ReadingRow /\ r.start \in -1..(Modulus - 1) /\ r.source < s
           /\ r # NoReading => MeteredWithin(r, rollover)
           /\ r # NoReading /\ r.source = 0 => StartAccepted(s, r.start)
  <1>. Typed /\ TypeOK
    BY DEF BooksInv
  <1>1. s \in Nat /\ s > 0
    BY Rows
  <1>. Modulus \in Nat
    BY BooksAssumption
  <1>2. CASE r \in CarriedReadings(s)
    <2>1. /\ r \in ReadingRow /\ r.source \in 1..(s - 1)
          /\ MeteredWithin(r, rollover)
      BY <1>2, CarriedReadingOK
    <2>2. r.start \in -1..(Modulus - 1) /\ r.source < s /\ r.source # 0
      BY <1>1, <2>1 DEF MeteredWithin
    <2>. QED
      BY <2>1, <2>2
  <1>3. CASE r = NoReading
    BY <1>1, <1>3 DEF NoReading, ReadingRow
  <1>4. CASE r \in EnteredReadings(s, rollover)
    <2>1. /\ r \in ReadingRow /\ r # NoReading /\ r.source = 0
          /\ MeteredWithin(r, rollover) /\ StartAccepted(s, r.start)
      BY <1>4, EnteredReadingOK
    <2>2. r.start \in -1..(Modulus - 1) /\ r.source < s
      BY <1>1, <2>1 DEF MeteredWithin
    <2>. QED
      BY <2>1, <2>2
  <1>. QED
    BY <1>2, <1>3, <1>4 DEF Readings

\* An accepted start is the end of the last locked shift, unless a mark says
\* otherwise.
LEMMA StartFollows ==
    ASSUME BooksInv, NEW s \in Shifts, NEW start, StartAccepted(s, start),
           NEW p \in LockedBefore(s)
    PROVE  \/ books[p].reading = NoReading
           \/ start = books[p].reading.end
           \/ \E m \in marks.resets : m.shift = s
           \/ \E m \in marks.baseline : m.from <= s
  <1>. Typed /\ TypeOK
    BY DEF BooksInv
  <1>. SUFFICES ASSUME books[p].reading # NoReading,
                       ~\E m \in marks.resets : m.shift = s,
                       ~\E m \in marks.baseline : m.from <= s
                PROVE  start = books[p].reading.end
    OBVIOUS
  <1>1. p \in Shifts
    BY Rows DEF LockedBefore
  <1>2. books[p].reading.end \in 0..(Modulus - 1)
    BY <1>1 DEF BooksInv, ShiftsInv, ShiftOK, ReadingOK
  <1>3. books[p].reading.end # -1
    BY <1>2, BooksAssumption
  <1>4. books[p].reading.end \in PredecessorEnd(s)
    BY <1>3 DEF PredecessorEnd
  <1>5. RequiredStart(s) = PredecessorEnd(s)
    BY DEF RequiredStart
  <1>. QED
    BY <1>4, <1>5 DEF StartAccepted

-----------------------------------------------------------------------------
(* Alerts                                                                  *)

\* Alerts that are new, and clear what fired before, are added.
LEMMA AlertsAdded ==
    ASSUME BooksInv, NEW q \in Seq(AlertRow), alerts' = alerts \o q,
           \A i, j \in 1..Len(q) : i # j => q[i] # q[j],
           \A i \in 1..Len(q), j \in DOMAIN alerts : q[i] # alerts[j],
           \A i \in 1..Len(q) :
             q[i].type = "cleared" =>
               \E j \in DOMAIN alerts : alerts[j] = [q[i] EXCEPT !.type = "fired"]
    PROVE  /\ alerts' \in Seq(AlertRow)
           /\ AlertsAreUnique'
           /\ \A i \in DOMAIN alerts' :
                \/ i \in DOMAIN alerts /\ alerts'[i] = alerts[i]
                \/ \E j \in 1..Len(q) : alerts'[i] = q[j]
           /\ \A i \in DOMAIN alerts : i \in DOMAIN alerts' /\ alerts'[i] = alerts[i]
           /\ \A j \in 1..Len(q) : \E i \in DOMAIN alerts' : alerts'[i] = q[j]
  <1>. Typed /\ TypeOK /\ AlertsAreUnique
    BY DEF BooksInv, AlertsInv
  <1>. PICK n \in Nat : n = Len(alerts)
    BY Rows
  <1>. PICK m \in Nat : m = Len(q)
    OBVIOUS
  <1>1. alerts \in Seq(AlertRow) /\ DOMAIN alerts = 1..n
    BY Rows DEF Typed
  <1>2. /\ alerts' \in Seq(AlertRow) /\ Len(alerts') = n + m
        /\ \A i \in 1..n : alerts'[i] = alerts[i]
        /\ \A i \in 1..(n + m) : i > n => alerts'[i] = q[i - n]
    BY <1>1
  <1>3. DOMAIN alerts' = 1..(n + m)
    BY <1>2
  <1>4. ASSUME NEW i \in 1..(n + m), i > n
        PROVE  i - n \in 1..m /\ alerts'[i] = q[i - n]
    BY <1>2, <1>4
  <1>5. ASSUME NEW i \in 1..(n + m), NEW j \in 1..(n + m), i # j
        PROVE  alerts'[i] # alerts'[j]
    <2>1. CASE i <= n /\ j <= n
      <3>1. i \in DOMAIN alerts /\ j \in DOMAIN alerts
        BY <1>1, <2>1
      <3>2. alerts[i] # alerts[j]
        BY <1>5, <3>1 DEF AlertsAreUnique
      <3>. QED
        BY <1>1, <1>2, <3>1, <3>2
    <2>2. CASE i <= n /\ j > n
      BY <1>1, <1>2, <1>4, <2>2
    <2>3. CASE i > n /\ j <= n
      BY <1>1, <1>2, <1>4, <2>3
    <2>4. CASE i > n /\ j > n
      <3>1. i - n # j - n
        BY <1>5
      <3>. QED
        BY <1>4, <2>4, <3>1
    <2>. QED
      BY <2>1, <2>2, <2>3, <2>4
  <1>6. ASSUME NEW i \in 1..(n + m), alerts'[i].type = "cleared"
        PROVE  \E j \in 1..(i - 1) : alerts'[j] = [alerts'[i] EXCEPT !.type = "fired"]
    <2>. i <= n \/ i > n
      OBVIOUS
    <2>1. CASE i <= n
      <3>1. alerts'[i] = alerts[i] /\ i \in DOMAIN alerts
        BY <1>1, <1>2, <2>1
      <3>2. PICK j \in 1..(i - 1) : alerts[j] = [alerts[i] EXCEPT !.type = "fired"]
        BY <1>6, <3>1 DEF AlertsAreUnique
      <3>3. alerts'[j] = alerts[j]
        BY <1>2, <2>1
      <3>. QED
        BY <3>1, <3>2, <3>3
    <2>2. CASE i > n
      <3>1. PICK j \in 1..n : alerts[j] = [q[i - n] EXCEPT !.type = "fired"]
        BY <1>1, <1>4, <1>6, <2>2
      <3>2. alerts'[j] = alerts[j] /\ alerts'[i] = q[i - n] /\ j \in 1..(i - 1)
        BY <1>2, <1>4, <2>2
      <3>. QED
        BY <3>1, <3>2
    <2>. QED
      BY <2>1, <2>2
  <1>7. AlertsAreUnique'
    BY <1>3, <1>5, <1>6 DEF AlertsAreUnique
  <1>8. ASSUME NEW j \in 1..m
        PROVE  \E i \in DOMAIN alerts' : alerts'[i] = q[j]
    <2>1. j + n \in 1..(n + m) /\ j + n > n /\ (j + n) - n = j
      OBVIOUS
    <2>. QED
      BY <1>3, <1>4, <2>1
  <1>9. ASSUME NEW i \in DOMAIN alerts'
        PROVE  \/ i \in DOMAIN alerts /\ alerts'[i] = alerts[i]
               \/ \E j \in 1..m : alerts'[i] = q[j]
    <2>1. CASE i > n
      BY <1>3, <1>4, <2>1
    <2>2. CASE ~(i > n)
      BY <1>1, <1>2, <1>3, <2>2
    <2>. QED
      BY <2>1, <2>2
  <1>10. \A i \in DOMAIN alerts : i \in DOMAIN alerts' /\ alerts'[i] = alerts[i]
    BY <1>1, <1>2, <1>3
  <1>. QED
    BY <1>2, <1>7, <1>8, <1>9, <1>10

\* The variance alert of a shift that is submitted for the first time.
LEMMA VarianceAlertAdded ==
    ASSUME BooksInv, LedgerGrows, NEW s \in Shifts, ledger[s].phase = "open",
           ledger'[s].phase # "open",
           alerts' = Append(alerts, Alert("variance", s, "fired", 1))
    PROVE  AlertsInv' /\ alerts' \in Seq(AlertRow)
  <1>. Typed /\ TypeOK /\ AlertsInv
    BY DEF BooksInv
  <1>1. s \in Nat
    BY Rows
  <1>2. PICK a \in AlertRow : a = Alert("variance", s, "fired", 1)
    BY <1>1 DEF Alert, AlertRow
  <1>3. a.rule = "variance" /\ a.shift = s /\ a.type = "fired"
    BY <1>2 DEF Alert
  <1>4. PICK q \in Seq(AlertRow) : q = <<a>>
    <2>1. <<a>> \in Seq(AlertRow)
      OBVIOUS
    <2>. QED
      BY <2>1
  <1>5. Len(q) = 1 /\ q[1] = a
    BY <1>4
  <1>6. alerts' = alerts \o q
    BY <1>2, <1>4 DEF Typed
  <1>7. ASSUME NEW j \in DOMAIN alerts
        PROVE  a # alerts[j]
    BY <1>3 DEF AlertsInv, Has
  <1>8. \A i, j \in 1..Len(q) : i # j => q[i] # q[j]
    BY <1>5
  <1>9. \A i \in 1..Len(q) : q[i] = a
    BY <1>5
  <1>10. /\ alerts' \in Seq(AlertRow) /\ AlertsAreUnique'
         /\ \A i \in DOMAIN alerts' :
              \/ i \in DOMAIN alerts /\ alerts'[i] = alerts[i]
              \/ alerts'[i] = a
    BY <1>3, <1>5, <1>6, <1>7, <1>8, <1>9, AlertsAdded
  <1>11. Shifts \subseteq Shifts'
    BY DEF Typed, LedgerGrows, Shifts
  <1>12. \A i \in DOMAIN alerts' : alerts'[i].shift \in Shifts
    BY <1>3, <1>10 DEF AlertsInv
  <1>13. ASSUME NEW t \in Shifts', Has("variance", t, "fired")'
         PROVE  ledger'[t].phase # "open"
    <2>1. PICK i \in DOMAIN alerts' : /\ alerts'[i].rule = "variance"
                                      /\ alerts'[i].shift = t
                                      /\ alerts'[i].type = "fired"
      BY <1>13 DEF Has
    <2>2. CASE alerts'[i] = a
      BY <1>3, <2>1, <2>2
    <2>3. CASE i \in DOMAIN alerts /\ alerts'[i] = alerts[i]
      <3>1. Has("variance", t, "fired") /\ t \in Shifts
        BY <1>12, <2>1, <2>3 DEF Has
      <3>. QED
        BY <3>1 DEF AlertsInv, LedgerGrows
    <2>. QED
      BY <1>10, <2>2, <2>3
  <1>14. ASSUME NEW t \in Shifts', Has("starvation", t, "cleared")'
         PROVE  ledger'[t].version > 1 \/ ledger'[t].phase = "locked"
    <2>1. PICK i \in DOMAIN alerts' : /\ alerts'[i].rule = "starvation"
                                      /\ alerts'[i].shift = t
                                      /\ alerts'[i].type = "cleared"
      BY <1>14 DEF Has
    <2>2. i \in DOMAIN alerts /\ alerts'[i] = alerts[i]
      BY <1>3, <1>10, <2>1
    <2>3. Has("starvation", t, "cleared") /\ t \in Shifts
      BY <1>12, <2>1, <2>2 DEF Has
    <2>4. ledger[t].version > 1 \/ Locked(t)
      BY <2>3 DEF AlertsInv
    <2>5. /\ ledger[t].version <= ledger'[t].version
          /\ Locked(t) => ledger'[t].phase = "locked" \/ ledger'[t].version > 1
      BY <2>3 DEF LedgerGrows
    <2>6. ledger[t] \in Entry /\ ledger'[t] \in Entry
      BY <2>3, Rows DEF LedgerGrows, Shifts
    <2>7. ledger[t].version \in Nat /\ ledger'[t].version \in Nat
      BY <2>6 DEF Entry
    <2>. QED
      BY <2>4, <2>5, <2>7
  <1>. QED
    BY <1>10, <1>11, <1>12, <1>13, <1>14 DEF AlertsInv, Locked

-----------------------------------------------------------------------------
(* Submissions                                                             *)

\* What a submission writes: the book b of its shift, bound to the revisions
\* b.threshold and b.evidence.
Submits(s, value, b, finalized) ==
    /\ FreezesThreshold(b.threshold, value)
    /\ b.evidence \in EvidenceChoices /\ EvidenceAccepted(b.evidence, finalized)
    /\ b.reading \in Readings(s, value.rollover)
    /\ b.finalized = finalized /\ b.known = Len(revisions') /\ b.at = now
    /\ b.after = {p \in 1..(s - 1) : Locked(p)}
    /\ books' = [books EXCEPT ![s] = b]
    /\ \/ UNCHANGED alerts
       \/ alerts' = Append(alerts, Alert("variance", s, "fired", 1))

\* The effect of Submit, with the choices it makes named.
LEMMA SubmitEffect ==
    ASSUME BooksInv, NEW s \in Shifts, NEW declared, NEW finalized \in Int,
           Submit(s, declared, finalized)
    PROVE  \E b \in Book : \E value : Submits(s, value, b, finalized)
  <1>. Typed /\ TypeOK
    BY DEF BooksInv
  <1>1. PICK i \in ThresholdChoices, e \in EvidenceChoices :
          LET isNew == i > Len(revisions)
              value == IF isNew THEN DefaultThreshold ELSE revisions[i].value IN
          /\ EvidenceAccepted(e, finalized)
          /\ (isNew => Len(revisions) < MaxRevisions)
          /\ revisions' = IF isNew
               THEN Append(revisions, NewRevision("threshold", "default",
                              "organization", now, FALSE, value))
               ELSE revisions
          /\ \E reading \in Readings(s, value.rollover) :
               /\ books' = [books EXCEPT ![s] =
                    [@ EXCEPT !.reading = reading, !.threshold = i, !.evidence = e,
                              !.finalized = finalized, !.known = Len(revisions'),
                              !.at = now, !.after = {p \in 1..(s - 1) : Locked(p)}]]
               /\ \/ UNCHANGED alerts
                  \/ alerts' = Append(alerts, Alert("variance", s, "fired", 1))
    BY DEF Submit
  <1>2. PICK value : value = IF i > Len(revisions) THEN DefaultThreshold
                             ELSE revisions[i].value
    OBVIOUS
  <1>3. FreezesThreshold(i, value)
    BY <1>1, <1>2 DEF FreezesThreshold
  <1>4. PICK r \in Readings(s, value.rollover) :
          /\ books' = [books EXCEPT ![s] =
               [@ EXCEPT !.reading = r, !.threshold = i, !.evidence = e,
                         !.finalized = finalized, !.known = Len(revisions'),
                         !.at = now, !.after = {p \in 1..(s - 1) : Locked(p)}]]
          /\ \/ UNCHANGED alerts
             \/ alerts' = Append(alerts, Alert("variance", s, "fired", 1))
    BY <1>1, <1>2
  <1>5. r \in ReadingRow
    BY ReadingFrozen
  <1>6. PICK k \in Nat : k = Len(revisions') /\ i \in 1..k
    BY <1>3, ThresholdFrozen
  <1>7. PICK a \in SUBSET Nat : a = {p \in 1..(s - 1) : Locked(p)}
    <2>1. {p \in 1..(s - 1) : Locked(p)} \in SUBSET Nat
      BY Rows
    <2>. QED
      BY <2>1
  <1>8. PICK y \in Book : y = books[s]
    BY Rows
  <1>9. i \in Nat /\ e \in Nat /\ now \in Nat
    BY <1>3, <1>6, Rows, EvidenceFrozen
  <1>10. PICK b : b = [y EXCEPT !.reading = r, !.threshold = i, !.evidence = e,
                                !.finalized = finalized, !.known = k,
                                !.at = now, !.after = a]
    OBVIOUS
  <1>11. b \in Book
    BY <1>5, <1>9, <1>10 DEF Book
  <1>12. /\ b.reading = r /\ b.threshold = i /\ b.evidence = e
         /\ b.finalized = finalized /\ b.known = k /\ b.at = now /\ b.after = a
    BY <1>10 DEF Book
  <1>13. books' = [books EXCEPT ![s] = b]
    BY <1>4, <1>6, <1>7, <1>8, <1>10, Rows
  <1>14. EvidenceAccepted(e, finalized)
    BY <1>1
  <1>15. Submits(s, value, b, finalized)
    BY <1>3, <1>4, <1>6, <1>7, <1>12, <1>13, <1>14 DEF Submits
  <1>. QED
    BY <1>11, <1>15

\* The submitted shift is sound.
LEMMA SubmittedShiftOK ==
    ASSUME BooksInv, NEW s \in Shifts, NEW finalized \in Int, NEW value, NEW b \in Book,
           Submits(s, value, b, finalized), LedgerGrows, UNCHANGED <<marks, now>>,
           books'[s] = b, \A t \in Shifts : t # s => books'[t] = books[t]
    PROVE  ShiftOK(s)'
  <1>. Typed /\ TypeOK
    BY DEF BooksInv
  <1>. PICK i, e, r, k, t : /\ i = b.threshold /\ e = b.evidence /\ r = b.reading
                            /\ k = b.known /\ t = b.at
    OBVIOUS
  <1>1. /\ FreezesThreshold(i, value) /\ e \in EvidenceChoices
        /\ EvidenceAccepted(e, finalized) /\ r \in Readings(s, value.rollover)
        /\ b.finalized = finalized /\ k = Len(revisions') /\ t = now
        /\ b.after = {p \in 1..(s - 1) : Locked(p)}
    BY DEF Submits
  <1>2. k \in Nat /\ t \in Nat
    BY <1>1, Rows DEF Book
  <1>3. i \in 1..k /\ revisions'[i].value = value
        /\ WasInForce("threshold", i, k, t)'
    BY <1>1, <1>2, ThresholdFrozen
  <1>4. /\ WasInForce("evidence", e, k, t)'
        /\ e # 0 => /\ revisions[e] \in Revision /\ revisions[e].kind = "evidence"
                    /\ revisions[e].types # {} /\ revisions'[e] = revisions[e]
    BY <1>1, <1>2, EvidenceFrozen
  <1>5. /\ r # NoReading => MeteredWithin(r, value.rollover)
        /\ r # NoReading /\ r.source = 0 => StartAccepted(s, r.start)
    BY <1>1, ReadingFrozen
  <1>6. ReadingOK(s)'
    <2>1. i # 0
      BY <1>2, <1>3
    <2>. QED
      BY <1>3, <1>5, <2>1 DEF ReadingOK, MeteredWithin
  <1>7. PolicyOK(s)'
    <2>1. k <= Len(revisions')
      BY <1>1, <1>2
    <2>. QED
      BY <1>3, <1>4, <2>1 DEF PolicyOK, WasInForce, Valid, Rank
  <1>8. LossOK(s)'
    <2>1. ASSUME e # 0, finalized # NoLoss
          PROVE  LET policy == revisions[e] IN
                 /\ policy.types # {} /\ finalized > 0
                 /\ policy.value.mode = "wajib" =>
                      \A minimum \in policy.types : finalized >= minimum
      <3>1. \A minimum \in revisions[e].types :
              EvidenceSatisfied(revisions[e].value.mode, minimum, finalized)
        BY <1>1, <2>1 DEF EvidenceAccepted
      <3>. QED
        BY <1>4, <2>1, <3>1, EvidenceSuffices
    <2>. QED
      BY <1>1, <1>4, <2>1 DEF LossOK
  <1>9. ChainOK(s)'
    <2>1. ASSUME NEW p \in b.after
          PROVE  /\ p \in 1..(s - 1) /\ p \in Shifts /\ Locked(p) /\ p # s
                 /\ ledger'[p].phase # "open" /\ books'[p] = books[p]
      <3>1. p \in 1..(s - 1) /\ Locked(p)
        BY <1>1
      <3>2. p \in Shifts /\ p # s
        BY <3>1, Rows
      <3>3. ledger'[p].phase # "open"
        BY <3>1, <3>2 DEF LedgerGrows, Locked
      <3>. QED
        BY <3>1, <3>2, <3>3
    <2>2. ASSUME NEW p \in b.after, r # NoReading, r.source = 0
          PROVE  \/ \E q \in (p + 1)..(s - 1) : q \in b.after
                 \/ books'[p].reading = NoReading
                 \/ r.start = books'[p].reading.end
                 \/ \E m \in marks.resets : m.shift = s
                 \/ \E m \in marks.baseline : m.from <= s
      <3>. SUFFICES ASSUME ~\E q \in (p + 1)..(s - 1) : q \in b.after
                    PROVE  \/ books'[p].reading = NoReading
                           \/ r.start = books'[p].reading.end
                           \/ \E m \in marks.resets : m.shift = s
                           \/ \E m \in marks.baseline : m.from <= s
        OBVIOUS
      <3>1. s \in Nat /\ p \in 1..(s - 1)
        BY <2>1, Rows
      <3>2. \A q \in (p + 1)..(s - 1) : ~Locked(q)
        BY <1>1, <3>1
      <3>3. p \in LockedBefore(s)
        BY <2>1, <3>2 DEF LockedBefore
      <3>. QED
        BY <1>5, <2>1, <2>2, <3>3, StartFollows
    <2>. QED
      BY <2>1, <2>2 DEF ChainOK
  <1>. QED
    BY <1>6, <1>7, <1>8, <1>9 DEF ShiftOK

\* A submission adds at most a revision of the organization, while no request
\* for the station is at work.
LEMMA SubmitKeepsRevisions ==
    ASSUME BooksInv, NEW i, NEW value, FreezesThreshold(i, value), StationIsFree,
           UNCHANGED creating
    PROVE  RevisionsInv'
  <1>. Typed /\ TypeOK
    BY DEF BooksInv
  <1>1. /\ \A j \in DOMAIN revisions : revisions'[j] = revisions[j]
        /\ \A j \in DOMAIN revisions' \ DOMAIN revisions :
             revisions'[j].level = "organization"
    BY ThresholdFrozen
  <1>2. StationRevisionsDistinct'
    <2>1. ASSUME NEW j \in DOMAIN revisions', NEW k \in DOMAIN revisions', j # k,
                 revisions'[j].kind = revisions'[k].kind,
                 revisions'[j].policy = revisions'[k].policy,
                 {revisions'[j].level, revisions'[k].level} = {"station"}
          PROVE  revisions'[j].from # revisions'[k].from
      <3>1. revisions'[j].level = "station" /\ revisions'[k].level = "station"
        BY <2>1
      <3>2. j \in DOMAIN revisions /\ k \in DOMAIN revisions
        BY <1>1, <3>1
      <3>. QED
        BY <1>1, <2>1, <3>2 DEF BooksInv, RevisionsInv, StationRevisionsDistinct
    <2>. QED
      BY <2>1 DEF StationRevisionsDistinct
  <1>3. \A c \in Creators : creating[c] # NoRequest => creating[c].level # "station"
    BY DEF StationIsFree, Creating
  <1>. QED
    BY <1>2, <1>3 DEF RevisionsInv

\* A submission keeps the invariant: of its own shift, and of all the others.
LEMMA SubmitKeeps ==
    ASSUME BooksInv, NEW s \in Shifts, NEW declared, NEW finalized \in Int,
           Submit(s, declared, finalized)
    PROVE  BooksInv'
  <1>. Typed /\ TypeOK /\ LedgerInv /\ ShiftsInv
    BY DEF BooksInv
  <1>. /\ UNCHANGED <<creating, marks, enabled, now, workload>>
       /\ evaluated' = FALSE /\ StationIsFree
       /\ ledger[s].phase = "open"
    BY DEF Submit, Ledger!Submit
  <1>. PICK b \in Book : \E value : Submits(s, value, b, finalized)
    BY SubmitEffect
  <1>1. PICK value : Submits(s, value, b, finalized)
    OBVIOUS
  <1>2. PICK i, e, r : i = b.threshold /\ e = b.evidence /\ r = b.reading
    OBVIOUS
  <1>3. /\ FreezesThreshold(i, value) /\ e \in EvidenceChoices
        /\ r \in Readings(s, value.rollover)
    BY <1>1, <1>2 DEF Submits
  <1>4. PICK x \in Entry : x = [phase |-> "awaiting_confirmation", version |-> 1]
    BY DEF Entry
  <1>5. x.phase = "awaiting_confirmation" /\ x.version = 1
    BY <1>4
  <1>6. ledger' = [ledger EXCEPT ![s] = x]
    BY <1>4 DEF Submit, Ledger!Submit
  <1>7. /\ ledger' \in Seq(Entry) /\ Len(ledger') = Len(ledger)
        /\ Shifts' = Shifts
        /\ \A t \in Shifts : ledger'[t] = IF t = s THEN x ELSE ledger[t]
    BY <1>6, EntryUpdated
  <1>8. LedgerGrows
    <2>1. \A t \in Shifts : ledger[t].version \in Nat
      BY Rows DEF Entry
    <2>2. ledger[s].version = 0 /\ ~Locked(s)
      BY DEF LedgerInv, Locked
    <2>. QED
      BY <1>5, <1>7, <2>1, <2>2, Rows DEF LedgerGrows, Locked
  <1>9. MarksGrow
    BY DEF MarksGrow
  <1>10. /\ books' \in Seq(Book) /\ Len(books') = Len(books) /\ books'[s] = b
         /\ \A t \in Shifts : t # s => books'[t] = books[t]
    <2>1. books' = [books EXCEPT ![s] = b]
      BY <1>1 DEF Submits
    <2>2. books \in Seq(Book) /\ s \in DOMAIN books /\ DOMAIN books = Shifts
      BY Rows DEF Typed
    <2>. QED
      BY <2>1, <2>2
  <1>11. RevisionsGrow /\ Len(revisions') <= MaxRevisions /\ i \in 1..Len(revisions')
         /\ Len(revisions') \in Nat
    BY <1>3, ThresholdFrozen
  <1>12. e \in 0..Len(revisions')
    BY <1>3, EvidenceFrozen
  <1>13. r.start \in -1..(Modulus - 1) /\ r.source < s
    BY <1>3, ReadingFrozen
  <1>14. AlertsInv' /\ alerts' \in Seq(AlertRow)
    <2>1. CASE UNCHANGED alerts
      BY <1>8, <2>1, AlertsLast DEF Typed
    <2>2. CASE alerts' = Append(alerts, Alert("variance", s, "fired", 1))
      BY <1>5, <1>7, <1>8, <2>2, VarianceAlertAdded
    <2>. QED
      BY <1>1, <2>1, <2>2 DEF Submits
  <1>15. Requested' = Requested
    BY DEF Requested
  <1>16. Typed'
    BY <1>7, <1>10, <1>11, <1>14, <1>15 DEF Typed, RevisionsGrow
  <1>17. TypeOK'
    <2>1. ASSUME NEW t \in Shifts
          PROVE  /\ books'[t].reading.start \in -1..(Modulus - 1)
                 /\ books'[t].reading.source < t
                 /\ books'[t].threshold \in 0..Len(revisions')
                 /\ books'[t].evidence \in 0..Len(revisions')
      <3>1. CASE t = s
        BY <1>2, <1>10, <1>11, <1>12, <1>13, <3>1
      <3>2. CASE t # s
        <4>1. books'[t] = books[t]
          BY <1>10, <3>2
        <4>2. Len(revisions) <= Len(revisions') /\ Len(revisions) \in Nat
          BY <1>11, Rows DEF RevisionsGrow
        <4>. QED
          BY <1>11, <4>1, <4>2 DEF TypeOK
      <3>. QED
        BY <3>1, <3>2
    <2>2. Len(ledger') = Len(books') /\ Len(ledger') <= MaxShifts
      BY <1>7, <1>10 DEF TypeOK
    <2>3. \A j \in DOMAIN alerts' : alerts'[j].shift \in Shifts
      BY <1>7, <1>14 DEF AlertsInv
    <2>4. \A c \in Creators : creating[c] # NoRequest => creating[c] \in Requested
      BY DEF TypeOK
    <2>. QED
      BY <1>7, <1>11, <1>15, <2>1, <2>2, <2>3, <2>4 DEF TypeOK
  <1>18. LedgerInv'
    BY <1>5, <1>7 DEF LedgerInv
  <1>19. ShiftsInv'
    <2>1. ShiftOK(s)'
      BY <1>1, <1>8, <1>10, SubmittedShiftOK
    <2>2. ASSUME NEW t \in Shifts, t # s
          PROVE  ShiftOK(t)'
      <3>1. /\ ShiftOK(t) /\ books'[t] = books[t] /\ ledger'[t] = ledger[t]
            /\ \A p \in Shifts : ledger[p].phase # "open" => books'[p] = books[p]
        BY <1>7, <1>10, <2>2 DEF ShiftsInv
      <3>. QED
        BY <1>8, <1>9, <1>11, <3>1, ShiftLasts
    <2>. QED
      BY <1>7, <2>1, <2>2 DEF ShiftsInv
  <1>20. RevisionsInv' /\ OverdueIsAlerted'
    BY <1>3, SubmitKeepsRevisions, NotEvaluated
  <1>. QED
    BY <1>14, <1>16, <1>17, <1>18, <1>19, <1>20 DEF BooksInv

-----------------------------------------------------------------------------
(* The scheduler                                                           *)

\* The events of an evaluation.
Events ==
    {Alert("starvation", s, "fired", 0) : s \in {t \in Shifts : ToFire(t)}}
      \cup {Alert("starvation", s, "cleared", 0) : s \in {t \in Shifts : ToClear(t)}}

\* At most one event of each shift, which fires or clears.
LEMMA EventColumns ==
    ASSUME BooksInv
    PROVE  /\ Events \subseteq AlertRow
           /\ \A e \in Events :
                /\ e.rule = "starvation" /\ e.shift \in Shifts
                /\ \/ /\ e.type = "fired" /\ ToFire(e.shift)
                      /\ e = Alert("starvation", e.shift, "fired", 0)
                   \/ /\ e.type = "cleared" /\ ToClear(e.shift)
                      /\ e = Alert("starvation", e.shift, "cleared", 0)
           /\ \A e, f \in Events : e.shift = f.shift => e = f
  <1>. Typed /\ TypeOK
    BY DEF BooksInv
  <1>1. Shifts \subseteq Nat
    BY Rows
  <1>2. ASSUME NEW e \in Events
        PROVE  /\ e \in AlertRow /\ e.rule = "starvation" /\ e.shift \in Shifts
               /\ \/ /\ e.type = "fired" /\ ToFire(e.shift)
                     /\ e = Alert("starvation", e.shift, "fired", 0)
                  \/ /\ e.type = "cleared" /\ ToClear(e.shift)
                     /\ e = Alert("starvation", e.shift, "cleared", 0)
    <2>1. CASE \E s \in Shifts : ToFire(s) /\ e = Alert("starvation", s, "fired", 0)
      <3>1. PICK s \in Shifts : ToFire(s) /\ e = Alert("starvation", s, "fired", 0)
        BY <2>1
      <3>2. /\ e = [rule |-> "starvation", shift |-> s, type |-> "fired", about |-> 0]
            /\ s \in Nat
        BY <1>1, <3>1 DEF Alert
      <3>3. e.rule = "starvation" /\ e.shift = s /\ e.type = "fired" /\ e \in AlertRow
        BY <3>2 DEF AlertRow
      <3>. QED
        BY <3>1, <3>3
    <2>2. CASE \E s \in Shifts : ToClear(s) /\ e = Alert("starvation", s, "cleared", 0)
      <3>1. PICK s \in Shifts : ToClear(s) /\ e = Alert("starvation", s, "cleared", 0)
        BY <2>2
      <3>2. /\ e = [rule |-> "starvation", shift |-> s, type |-> "cleared", about |-> 0]
            /\ s \in Nat
        BY <1>1, <3>1 DEF Alert
      <3>3. e.rule = "starvation" /\ e.shift = s /\ e.type = "cleared" /\ e \in AlertRow
        BY <3>2 DEF AlertRow
      <3>. QED
        BY <3>1, <3>3
    <2>. QED
      BY <2>1, <2>2 DEF Events
  <1>3. ASSUME NEW s
        PROVE  ~(ToFire(s) /\ ToClear(s))
    BY DEF ToFire, ToClear, Overdue, Locked
  <1>. QED
    BY <1>2, <1>3

\* An evaluation adds its events, once each, and nothing else.
LEMMA EvaluationAdds ==
    ASSUME BooksInv, EvaluateStarvation
    PROVE  /\ alerts' \in Seq(AlertRow) /\ AlertsAreUnique'
           /\ \A i \in DOMAIN alerts' :
                \/ i \in DOMAIN alerts /\ alerts'[i] = alerts[i]
                \/ alerts'[i] \in Events
           /\ \A i \in DOMAIN alerts : i \in DOMAIN alerts' /\ alerts'[i] = alerts[i]
           /\ \A e \in Events : \E i \in DOMAIN alerts' : alerts'[i] = e
  <1>. Typed /\ TypeOK
    BY DEF BooksInv
  <1>. PICK n \in Nat : n = Len(ledger) /\ Shifts = 1..n
    BY Rows
  <1>1. PICK q : q = SortedEvents(Events)
    OBVIOUS
  <1>2. alerts' = alerts \o q
    BY <1>1 DEF EvaluateStarvation, Events
  <1>3. /\ \A e \in Events : e.shift \in 1..n
        /\ \A e, f \in Events : e.shift = f.shift => e = f
    BY EventColumns
  <1>4. /\ q \in Seq(Events)
        /\ \A i, j \in 1..Len(q) : i # j => q[i] # q[j]
        /\ \A e \in Events : \E i \in 1..Len(q) : q[i] = e
    <2>1. PICK E : E = Events
      OBVIOUS
    <2>2. /\ \A e \in E : e.shift \in 1..n
          /\ \A e, f \in E : e.shift = f.shift => e = f
      BY <1>3, <2>1
    <2>3. /\ SortedEvents(E) \in Seq(E)
          /\ \A i, j \in 1..Len(SortedEvents(E)) :
               i # j => SortedEvents(E)[i] # SortedEvents(E)[j]
          /\ \A e \in E : \E i \in 1..Len(SortedEvents(E)) : SortedEvents(E)[i] = e
      BY <2>2, SortedEventsEnumerate
    <2>. QED
      BY <1>1, <2>1, <2>3
  <1>5. Events \subseteq AlertRow
    BY EventColumns
  <1>6. q \in Seq(AlertRow) /\ \A i \in 1..Len(q) : q[i] \in Events
    BY <1>4, <1>5
  <1>7. ASSUME NEW e \in Events, NEW j \in DOMAIN alerts
        PROVE  e # alerts[j]
    <2>1. ~(/\ alerts[j].rule = "starvation" /\ alerts[j].shift = e.shift
            /\ alerts[j].type = e.type)
      BY EventColumns DEF ToFire, ToClear, Has
    <2>. QED
      BY <2>1, EventColumns
  <1>8. ASSUME NEW e \in Events, e.type = "cleared"
        PROVE  \E j \in DOMAIN alerts : alerts[j] = [e EXCEPT !.type = "fired"]
    <2>1. /\ ToClear(e.shift) /\ e = Alert("starvation", e.shift, "cleared", 0)
      BY <1>8, EventColumns
    <2>2. PICK j \in DOMAIN alerts : /\ alerts[j].rule = "starvation"
                                     /\ alerts[j].shift = e.shift
                                     /\ alerts[j].type = "fired"
      BY <2>1 DEF ToClear, Has
    <2>3. PICK a \in AlertRow : a = alerts[j]
      BY <2>2, Rows
    <2>4. a = [rule |-> "starvation", shift |-> e.shift, type |-> "fired", about |-> 0]
      BY <2>2, <2>3 DEF AlertRow
    <2>5. PICK s : s = e.shift
      OBVIOUS
    <2>6. e = [rule |-> "starvation", shift |-> s, type |-> "cleared", about |-> 0]
      BY <2>1, <2>5 DEF Alert
    <2>7. [e EXCEPT !.type = "fired"]
            = [rule |-> "starvation", shift |-> s, type |-> "fired", about |-> 0]
      BY <2>6
    <2>. QED
      BY <2>2, <2>3, <2>4, <2>5, <2>7
  <1>9. /\ \A i \in 1..Len(q), j \in DOMAIN alerts : q[i] # alerts[j]
        /\ \A i \in 1..Len(q) :
             q[i].type = "cleared" =>
               \E j \in DOMAIN alerts : alerts[j] = [q[i] EXCEPT !.type = "fired"]
    BY <1>6, <1>7, <1>8
  <1>10. /\ alerts' \in Seq(AlertRow) /\ AlertsAreUnique'
         /\ \A i \in DOMAIN alerts' :
              \/ i \in DOMAIN alerts /\ alerts'[i] = alerts[i]
              \/ \E j \in 1..Len(q) : alerts'[i] = q[j]
         /\ \A i \in DOMAIN alerts : i \in DOMAIN alerts' /\ alerts'[i] = alerts[i]
         /\ \A j \in 1..Len(q) : \E i \in DOMAIN alerts' : alerts'[i] = q[j]
    BY <1>2, <1>4, <1>6, <1>9, AlertsAdded
  <1>11. \A i \in DOMAIN alerts' :
           \/ i \in DOMAIN alerts /\ alerts'[i] = alerts[i]
           \/ alerts'[i] \in Events
    BY <1>6, <1>10
  <1>12. \A e \in Events : \E i \in DOMAIN alerts' : alerts'[i] = e
    <2>1. ASSUME NEW e \in Events
          PROVE  \E i \in DOMAIN alerts' : alerts'[i] = e
      <3>1. PICK j \in 1..Len(q) : q[j] = e
        BY <1>4
      <3>. QED
        BY <1>10, <3>1
    <2>. QED
      BY <2>1
  <1>. QED
    BY <1>10, <1>11, <1>12

\* What there is of each shift after an evaluation.
LEMMA EvaluatedAlerts ==
    ASSUME BooksInv, EvaluateStarvation, NEW s \in Shifts
    PROVE  /\ Has("variance", s, "fired")' => Has("variance", s, "fired")
           /\ Has("starvation", s, "fired")' <=>
                Has("starvation", s, "fired") \/ ToFire(s)
           /\ Has("starvation", s, "cleared")' <=>
                Has("starvation", s, "cleared") \/ ToClear(s)
  <1>1. ASSUME NEW rule, NEW type, Has(rule, s, type)'
        PROVE  \/ Has(rule, s, type)
               \/ /\ rule = "starvation"
                  /\ \/ type = "fired" /\ ToFire(s)
                     \/ type = "cleared" /\ ToClear(s)
    <2>1. PICK i \in DOMAIN alerts' : /\ alerts'[i].rule = rule
                                      /\ alerts'[i].shift = s
                                      /\ alerts'[i].type = type
      BY <1>1 DEF Has
    <2>2. CASE i \in DOMAIN alerts /\ alerts'[i] = alerts[i]
      BY <2>1, <2>2 DEF Has
    <2>3. CASE alerts'[i] \in Events
      <3>1. PICK e \in Events : e = alerts'[i]
        BY <2>3
      <3>. QED
        BY <2>1, <3>1, EventColumns
    <2>. QED
      BY <2>2, <2>3, EvaluationAdds
  <1>2. ASSUME NEW rule, NEW type, Has(rule, s, type)
        PROVE  Has(rule, s, type)'
    BY <1>2, EvaluationAdds DEF Has
  <1>3. ASSUME ToFire(s)
        PROVE  Has("starvation", s, "fired")'
    <2>1. PICK e \in Events : e = Alert("starvation", s, "fired", 0)
      BY <1>3 DEF Events
    <2>2. e.rule = "starvation" /\ e.shift = s /\ e.type = "fired"
      BY <2>1 DEF Alert
    <2>3. PICK i \in DOMAIN alerts' : alerts'[i] = e
      BY EvaluationAdds
    <2>. QED
      BY <2>2, <2>3 DEF Has
  <1>4. ASSUME ToClear(s)
        PROVE  Has("starvation", s, "cleared")'
    <2>1. PICK e \in Events : e = Alert("starvation", s, "cleared", 0)
      BY <1>4 DEF Events
    <2>2. e.rule = "starvation" /\ e.shift = s /\ e.type = "cleared"
      BY <2>1 DEF Alert
    <2>3. PICK i \in DOMAIN alerts' : alerts'[i] = e
      BY EvaluationAdds
    <2>. QED
      BY <2>2, <2>3 DEF Has
  <1>5. Has("variance", s, "fired")' => Has("variance", s, "fired")
    BY <1>1
  <1>6. Has("starvation", s, "fired")' <=> Has("starvation", s, "fired") \/ ToFire(s)
    BY <1>1, <1>2, <1>3
  <1>7. Has("starvation", s, "cleared")' <=> Has("starvation", s, "cleared") \/ ToClear(s)
    BY <1>1, <1>2, <1>4
  <1>. QED
    BY <1>5, <1>6, <1>7

\* After an evaluation nothing overdue is without an alert.
LEMMA EvaluateStarvationKeeps ==
    ASSUME BooksInv, EvaluateStarvation
    PROVE  BooksInv'
  <1>. Typed /\ TypeOK /\ LedgerInv /\ AlertsInv
    BY DEF BooksInv
  <1>. /\ UNCHANGED <<ledger, books, revisions, creating, marks, enabled, now, workload>>
       /\ evaluated' = TRUE
    BY DEF EvaluateStarvation
  <1>1. Shifts' = Shifts /\ Requested' = Requested
    BY DEF Shifts, Requested
  <1>2. alerts' \in Seq(AlertRow) /\ AlertsAreUnique'
        /\ \A i \in DOMAIN alerts' : alerts'[i].shift \in Shifts
    <2>1. ASSUME NEW i \in DOMAIN alerts'
          PROVE  alerts'[i].shift \in Shifts
      <3>1. CASE i \in DOMAIN alerts /\ alerts'[i] = alerts[i]
        BY <3>1 DEF AlertsInv
      <3>2. CASE alerts'[i] \in Events
        BY <3>2, EventColumns
      <3>. QED
        BY <3>1, <3>2, EvaluationAdds
    <2>. QED
      BY <2>1, EvaluationAdds
  <1>3. Typed'
    BY <1>1, <1>2 DEF Typed
  <1>4. TypeOK'
    BY <1>1, <1>2 DEF TypeOK
  <1>5. LedgerInv'
    BY <1>1 DEF LedgerInv
  <1>6. LedgerGrows /\ RevisionsGrow /\ MarksGrow
    BY LedgerUnchanged, RevisionsUnchanged DEF MarksGrow
  <1>7. ShiftsInv' /\ RevisionsInv'
    BY <1>6, ShiftsLast, RevisionsStay
  <1>8. AlertsInv'
    <2>1. ASSUME NEW s \in Shifts
          PROVE  /\ Has("variance", s, "fired")' => ledger[s].phase # "open"
                 /\ Has("starvation", s, "cleared")' => ledger[s].version > 1 \/ Locked(s)
      BY EvaluatedAlerts DEF AlertsInv, ToClear
    <2>. QED
      BY <1>1, <1>2, <2>1 DEF AlertsInv, Locked
  <1>9. OverdueIsAlerted'
    <2>1. ASSUME NEW s \in Shifts, enabled["starvation"],
                 ledger[s].phase \in {"open", "awaiting_confirmation"},
                 now >= books[s].opened + Window
          PROVE  /\ Has("starvation", s, "fired")'
                 /\ Has("starvation", s, "cleared")' => ledger[s].version > 1
      <3>1. books[s].opened \in Nat /\ now \in Nat /\ Window \in Nat
        BY Rows, BooksAssumption DEF Book
      <3>2. now - books[s].opened >= Window
        BY <2>1, <3>1
      <3>3. Overdue(s)
        BY <2>1, <3>2 DEF Overdue
      <3>4. Has("starvation", s, "fired")'
        BY <2>1, <3>3, EvaluatedAlerts DEF ToFire
      <3>5. ~Locked(s)
        BY <2>1 DEF Locked
      <3>6. Has("starvation", s, "cleared")' => ledger[s].version > 1
        BY <3>5, EvaluatedAlerts DEF AlertsInv, ToClear
      <3>. QED
        BY <3>4, <3>6
    <2>2. ASSUME NEW s \in Shifts, Locked(s), Has("starvation", s, "fired")'
          PROVE  Has("starvation", s, "cleared")'
      <3>1. ~ToFire(s)
        BY <2>2 DEF ToFire, Overdue, Locked
      <3>. QED
        BY <2>2, <3>1, EvaluatedAlerts DEF ToClear
    <2>. QED
      BY <1>1, <2>1, <2>2 DEF OverdueIsAlerted, Locked
  <1>. QED
    BY <1>3, <1>4, <1>5, <1>7, <1>8, <1>9 DEF BooksInv

-----------------------------------------------------------------------------
(* The theorems                                                            *)

\* There are no shifts, revisions or alerts at first.
LEMMA BooksInit ==
    Init => BooksInv
  <1>. SUFFICES ASSUME Init
                PROVE  BooksInv
    OBVIOUS
  <1>. USE DEF Init
  <1>1. /\ ledger = << >> /\ books = << >> /\ revisions = << >> /\ alerts = << >>
        /\ Shifts = {} /\ evaluated = FALSE
    BY DEF Ledger!Init, Shifts
  <1>2. marks \in Marks
    BY DEF Marks
  <1>3. /\ creating \in [Creators -> Requested \cup {NoRequest}]
        /\ enabled \in [{"starvation", "variance"} -> BOOLEAN]
        /\ now \in 0..MaxTime /\ workload \in Workloads
        /\ \A c \in Creators : creating[c] = NoRequest
    BY BooksAssumption
  <1>. HIDE DEF Init
  <1>4. Typed
    <2>1. << >> \in Seq(Entry) /\ << >> \in Seq(Book)
      OBVIOUS
    <2>2. << >> \in Seq(Revision) /\ << >> \in Seq(AlertRow)
      OBVIOUS
    <2>. QED
      BY <1>1, <1>2, <1>3, <2>1, <2>2 DEF Typed
  <1>5. TypeOK
    BY <1>1, <1>3, BooksAssumption DEF TypeOK
  <1>6. LedgerInv /\ ShiftsInv /\ OverdueIsAlerted
    BY <1>1 DEF LedgerInv, ShiftsInv, OverdueIsAlerted
  <1>7. RevisionsInv
    BY <1>1, <1>3 DEF RevisionsInv, StationRevisionsDistinct
  <1>8. AlertsInv
    BY <1>1 DEF AlertsInv, AlertsAreUnique
  <1>. QED
    BY <1>4, <1>5, <1>6, <1>7, <1>8 DEF BooksInv

\* A step that changes nothing keeps the invariant.
LEMMA BooksStutter ==
    ASSUME BooksInv, UNCHANGED vars
    PROVE  BooksInv'
  <1>. Typed
    BY DEF BooksInv
  <1>. UNCHANGED <<ledger, books, revisions, creating, marks, enabled, alerts,
                   evaluated, now, workload>>
    BY DEF vars
  <1>. QED
    BY SurroundingsKeep DEF MarksGrow, Typed

\* Every step keeps the invariant.
LEMMA BooksNext ==
    BooksInv /\ [Next]_vars => BooksInv'
  <1>. SUFFICES ASSUME BooksInv, [Next]_vars
                PROVE  BooksInv'
    OBVIOUS
  <1>1. ASSUME NEW s \in Shifts, NEW declared \in Amounts, NEW finalized \in Losses,
               Submit(s, declared, finalized)
        PROVE  BooksInv'
    <2>1. finalized \in Int
      BY BooksAssumption DEF Losses, NoLoss
    <2>. QED
      BY <1>1, <2>1, SubmitKeeps
  <1>2. ASSUME NEW c \in Creators, PolicyStep(c)
        PROVE  BooksInv'
    BY <1>2, CheckRevisionKeeps, InsertRevisionKeeps DEF PolicyStep
  <1>3. ASSUME NEW i \in DOMAIN revisions, NEW minimum \in Finalized,
               AddTypes(i, minimum)
        PROVE  BooksInv'
    BY <1>3, AddTypesKeeps
  <1>4. CASE Next
    <2>1. CASE \E s \in Shifts :
                 \/ \E declared \in Amounts, finalized \in Losses :
                      Submit(s, declared, finalized)
                 \/ Decide(s)
                 \/ "amend" \in workload /\ Amend(s)
      BY <1>1, <2>1, DecideKeeps, AmendKeeps
    <2>2. CASE \/ OpenShift(FALSE)
               \/ "backfill" \in workload /\ OpenShift(TRUE)
      BY <2>2, OpenShiftKeeps
    <2>3. CASE /\ "mark" \in workload
               /\ \E s \in 1..MaxShifts, value \in 0..(Modulus - 1) : Mark(s, value)
      BY <2>3, MarkKeeps
    <2>4. CASE \E c \in Creators : PolicyStep(c)
      BY <1>2, <2>4
    <2>5. CASE \E i \in DOMAIN revisions, minimum \in Finalized : AddTypes(i, minimum)
      BY <1>3, <2>5
    <2>6. CASE "alert" \in workload /\ EvaluateStarvation
      BY <2>6, EvaluateStarvationKeeps
    <2>7. CASE "alert" \in workload /\ \E rule \in DOMAIN enabled : SwitchRule(rule)
      BY <2>7, SwitchRuleKeeps
    <2>8. CASE Tick
      BY <2>8, TickKeeps
    <2>. QED
      <3>1. \/ OpenShift(FALSE)
            \/ "backfill" \in workload /\ OpenShift(TRUE)
            \/ \E s \in Shifts :
                 \/ \E declared \in Amounts, finalized \in Losses :
                      Submit(s, declared, finalized)
                 \/ Decide(s)
                 \/ "amend" \in workload /\ Amend(s)
            \/ /\ "mark" \in workload
               /\ \E s \in 1..MaxShifts, value \in 0..(Modulus - 1) : Mark(s, value)
            \/ \E c \in Creators : PolicyStep(c)
            \/ \E i \in DOMAIN revisions, minimum \in Finalized : AddTypes(i, minimum)
            \/ "alert" \in workload /\ EvaluateStarvation
            \/ "alert" \in workload /\ \E rule \in DOMAIN enabled : SwitchRule(rule)
            \/ Tick
        BY <1>4 DEF Next
      <3>. QED
        BY <2>1, <2>2, <2>3, <2>4, <2>5, <2>6, <2>7, <2>8, <3>1
  <1>5. CASE UNCHANGED vars
    BY <1>5, BooksStutter
  <1>. QED
    BY <1>4, <1>5

\* What is known of every shift, revision and alert holds at all times.
THEOREM BooksInvariant ==
    Spec => []BooksInv
  BY BooksInit, BooksNext, PTL DEF Spec

\* TypeOK: rows keep their columns, and what a submission carries forward
\* comes from an earlier shift.
THEOREM BooksTyped ==
    Spec => []TypeOK
  <1>1. BooksInv => TypeOK
    BY DEF BooksInv
  <1>. QED
    BY <1>1, BooksInvariant, PTL

\* ChainBreaksOnlyOverSkipped: the meter chain of locked shifts has no gap
\* that a mark, or a decision since, does not explain (meter_chain_conflict).
THEOREM ChainIsExplained ==
    Spec => []ChainBreaksOnlyOverSkipped
  <1>1. BooksInv => ChainBreaksOnlyOverSkipped
    <2>. SUFFICES ASSUME BooksInv, NEW s \in Shifts, NEW p \in LockedBefore(s),
                         Locked(s), NoReading \notin {books[p].reading, books[s].reading},
                         books[s].reading.source = 0
                  PROVE  \/ books[s].reading.start = books[p].reading.end
                         \/ \E q \in p..(s - 1) : (q \in books[s].after) # Locked(q)
                         \/ \E m \in marks.resets : m.shift = s
                         \/ \E m \in marks.baseline : m.from <= s
      BY DEF ChainBreaksOnlyOverSkipped
    <2>. Typed /\ TypeOK
      BY DEF BooksInv
    <2>1. /\ p \in 1..(s - 1) /\ Locked(p) /\ s \in Nat
          /\ \A q \in (p + 1)..(s - 1) : ~Locked(q)
      BY Rows DEF LockedBefore
    <2>. SUFFICES ASSUME \A q \in p..(s - 1) : (q \in books[s].after) = Locked(q)
                  PROVE  \/ books[s].reading.start = books[p].reading.end
                         \/ \E m \in marks.resets : m.shift = s
                         \/ \E m \in marks.baseline : m.from <= s
      OBVIOUS
    <2>2. p \in p..(s - 1) /\ \A q \in (p + 1)..(s - 1) : q \in p..(s - 1)
      BY <2>1
    <2>3. p \in books[s].after /\ \A q \in (p + 1)..(s - 1) : q \notin books[s].after
      BY <2>1, <2>2
    <2>4. ChainOK(s)
      BY DEF BooksInv, ShiftsInv, ShiftOK
    <2>. QED
      BY <2>3, <2>4 DEF ChainOK
  <1>. QED
    BY <1>1, BooksInvariant, PTL

\* DeltaIsCircular: what a reading in the books measures is the distance on
\* the circle of the meter, within the frozen rollover limit, and its expected
\* sale is the price of that to the nearest Rupiah.
THEOREM ReadingsAreCircular ==
    Spec => []DeltaIsCircular
  <1>1. BooksInv => DeltaIsCircular
    BY DEF BooksInv, ShiftsInv, ShiftOK, ReadingOK, DeltaIsCircular
  <1>. QED
    BY <1>1, BooksInvariant, PTL

\* PolicyWasInForce: the revisions a report is bound to were the ones in force
\* when it was submitted, whatever was added or disabled since.
THEOREM FrozenPolicyWasInForce ==
    Spec => []PolicyWasInForce
  <1>1. BooksInv => PolicyWasInForce
    <2>. SUFFICES ASSUME BooksInv, NEW s \in Shifts, ledger[s].phase # "open",
                         NEW kind \in {"threshold", "evidence"}
                  PROVE  WasInForce(kind, books[s][kind], books[s].known, books[s].at)
      BY DEF PolicyWasInForce, WasInForce, Valid, Rank
    <2>1. PolicyOK(s)
      BY DEF BooksInv, ShiftsInv, ShiftOK
    <2>2. /\ WasInForce("threshold", books[s].threshold, books[s].known, books[s].at)
          /\ WasInForce("evidence", books[s].evidence, books[s].known, books[s].at)
      BY <2>1 DEF PolicyOK
    <2>3. CASE kind = "threshold"
      BY <2>2, <2>3
    <2>4. CASE kind = "evidence"
      BY <2>2, <2>4
    <2>. QED
      BY <2>3, <2>4
  <1>. QED
    BY <1>1, BooksInvariant, PTL

\* LossesAreEvidenced: no loss is reported with less evidence than the frozen
\* policy asks for.
THEOREM LossesHaveEvidence ==
    Spec => []LossesAreEvidenced
  <1>1. BooksInv => LossesAreEvidenced
    BY DEF BooksInv, ShiftsInv, ShiftOK, LossOK, LossesAreEvidenced
  <1>. QED
    BY <1>1, BooksInvariant, PTL

\* StationRevisionsDistinct: however CreateRevision calls interleave, two
\* revisions of one policy and station never start at the same moment.
THEOREM StationRevisionsStayDistinct ==
    Spec => []StationRevisionsDistinct
  <1>1. BooksInv => StationRevisionsDistinct
    BY DEF BooksInv, RevisionsInv
  <1>. QED
    BY <1>1, BooksInvariant, PTL

\* OverdueIsAlerted: an evaluation leaves every overdue shift with an alert
\* and every alert of a locked shift cleared.
THEOREM EvaluationIsComplete ==
    Spec => []OverdueIsAlerted
  <1>1. BooksInv => OverdueIsAlerted
    BY DEF BooksInv
  <1>. QED
    BY <1>1, BooksInvariant, PTL

\* AlertsAreUnique: no event is ever inserted twice, and a clearing event
\* follows the event it clears.
THEOREM AlertsStayUnique ==
    Spec => []AlertsAreUnique
  <1>1. BooksInv => AlertsAreUnique
    BY DEF BooksInv, AlertsInv
  <1>. QED
    BY <1>1, BooksInvariant, PTL

-----------------------------------------------------------------------------
(* Submitted shifts are final                                              *)

\* The evidence revision of a submitted shift has its types.
EvidenceBound(s) ==
    (ledger[s].phase # "open" /\ books[s].evidence # 0) =>
        revisions[books[s].evidence].types # {}

BoundInv == \A s \in Shifts : EvidenceBound(s)

\* A revision changes only while it is one of evidence without types.
RevisionsFixed ==
    \A i \in DOMAIN revisions :
        \/ revisions'[i] = revisions[i]
        \/ revisions[i].kind = "evidence" /\ revisions[i].types = {}

\* Submitted shifts stay submitted with the same figures; any other shift is
\* open, or is being submitted with an evidence revision that has its types.
ShiftsFixed ==
    /\ \A s \in Shifts :
         ledger[s].phase # "open" =>
            s \in Shifts' /\ ledger'[s].phase # "open" /\ books'[s] = books[s]
    /\ \A s \in Shifts' :
         \/ s \in Shifts /\ ledger[s].phase # "open"
         \/ EvidenceBound(s)'

AlertsFixed == \A i \in DOMAIN alerts : i \in DOMAIN alerts' /\ alerts'[i] = alerts[i]

Fixed == RevisionsFixed /\ ShiftsFixed /\ AlertsFixed

\* Alerts at the end of the others leave them as they are.
LEMMA AlertAppended ==
    ASSUME BooksInv, NEW a, alerts' = Append(alerts, a)
    PROVE  AlertsFixed
  <1>1. alerts \in Seq(AlertRow) /\ Len(alerts) \in Nat
    BY DEF BooksInv, Typed
  <1>2. DOMAIN alerts = 1..Len(alerts)
    BY <1>1
  <1>3. DOMAIN alerts' = 1..(Len(alerts) + 1)
    BY <1>1
  <1>4. \A i \in DOMAIN alerts : alerts'[i] = alerts[i]
    BY <1>1, <1>2
  <1>. QED
    BY <1>1, <1>2, <1>3, <1>4 DEF AlertsFixed

\* A shift that is added is open.
LEMMA OpenShiftFixes ==
    ASSUME BooksInv, NEW backfilled \in BOOLEAN, OpenShift(backfilled)
    PROVE  Fixed
  <1>. Typed /\ TypeOK
    BY DEF BooksInv
  <1>. UNCHANGED <<revisions, alerts>>
    BY DEF OpenShift
  <1>1. PICK x \in Entry : x = [phase |-> "open", version |-> 0]
    BY DEF Entry
  <1>2. PICK b : books' = Append(books, b)
    BY DEF OpenShift
  <1>3. ledger' = Append(ledger, x) /\ x.phase = "open"
    BY <1>1 DEF OpenShift, Ledger!Open
  <1>4. PICK n \in Nat : n = Len(ledger) + 1
    BY Rows
  <1>5. /\ DOMAIN ledger' = 1..n /\ ledger'[n] = x
        /\ \A s \in Shifts : ledger'[s] = ledger[s]
    BY <1>3, <1>4 DEF Typed, Shifts
  <1>6. \A s \in Shifts : books'[s] = books[s]
    BY <1>2, Rows DEF Typed
  <1>7. Shifts' = Shifts \cup {n}
    BY <1>4, <1>5, Rows DEF Shifts
  <1>8. EvidenceBound(n)'
    BY <1>3, <1>5 DEF EvidenceBound
  <1>9. ASSUME NEW s \in Shifts, ledger[s].phase = "open"
        PROVE  EvidenceBound(s)'
    BY <1>5, <1>9 DEF EvidenceBound
  <1>10. ShiftsFixed
    BY <1>5, <1>6, <1>7, <1>8, <1>9 DEF ShiftsFixed
  <1>. QED
    BY <1>10 DEF Fixed, RevisionsFixed, AlertsFixed

\* A decision or an amendment gives a submitted shift another entry.
LEMMA EntryFixes ==
    ASSUME BooksInv, NEW s \in Shifts, NEW x,
           ledger' = [ledger EXCEPT ![s] = x],
           UNCHANGED <<books, revisions, alerts>>,
           ledger[s].phase # "open", x.phase # "open"
    PROVE  Fixed
  <1>1. ledger \in Seq(Entry) /\ s \in DOMAIN ledger
    BY DEF BooksInv, Typed, Shifts
  <1>2. /\ Shifts' = Shifts
        /\ \A t \in Shifts : ledger'[t] = IF t = s THEN x ELSE ledger[t]
    BY <1>1 DEF Shifts
  <1>3. ASSUME NEW t \in Shifts, ledger[t].phase = "open"
        PROVE  EvidenceBound(t)'
    BY <1>2, <1>3 DEF EvidenceBound
  <1>4. ShiftsFixed
    BY <1>2, <1>3 DEF ShiftsFixed
  <1>. QED
    BY <1>4 DEF Fixed, RevisionsFixed, AlertsFixed

LEMMA DecideFixes ==
    ASSUME BooksInv, NEW s \in Shifts, Decide(s)
    PROVE  Fixed
  <1>1. PICK y \in Entry : y = ledger[s]
    BY Rows DEF BooksInv
  <1>2. PICK phase \in {"locked", "needs_correction"} :
          ledger' = [ledger EXCEPT ![s].phase = phase]
    BY DEF Decide, Ledger!Decide
  <1>3. PICK x : x = [y EXCEPT !.phase = phase]
    OBVIOUS
  <1>4. ledger' = [ledger EXCEPT ![s] = x] /\ x.phase = phase
    BY <1>1, <1>2, <1>3 DEF Shifts, Entry
  <1>5. ledger[s].phase # "open" /\ x.phase # "open"
    BY <1>4 DEF Decide, Ledger!Decide
  <1>. QED
    BY <1>4, <1>5, EntryFixes DEF Decide

LEMMA AmendFixes ==
    ASSUME BooksInv, NEW s \in Shifts, Amend(s)
    PROVE  Fixed
  <1>1. PICK x : x = [phase |-> "awaiting_confirmation", version |-> ledger[s].version + 1]
    OBVIOUS
  <1>2. ledger' = [ledger EXCEPT ![s] = x] /\ x.phase # "open"
    BY <1>1 DEF Amend, Ledger!Amend, Shifts
  <1>. QED
    BY <1>2, EntryFixes DEF Amend, Ledger!Amend

\* A submission writes its own shift, which was open, and appends.
LEMMA SubmitFixes ==
    ASSUME BooksInv, NEW s \in Shifts, NEW declared, NEW finalized \in Int,
           Submit(s, declared, finalized)
    PROVE  Fixed
  <1>. Typed /\ TypeOK
    BY DEF BooksInv
  <1>1. PICK b \in Book : \E value : Submits(s, value, b, finalized)
    BY SubmitEffect
  <1>2. PICK value : Submits(s, value, b, finalized)
    BY <1>1
  <1>3. FreezesThreshold(b.threshold, value) /\ b.evidence \in EvidenceChoices
    BY <1>2 DEF Submits
  <1>4. \A i \in DOMAIN revisions : revisions'[i] = revisions[i]
    BY <1>3, ThresholdFrozen
  <1>5. b.evidence # 0 => revisions'[b.evidence].types # {}
    BY <1>3, EvidenceFrozen
  <1>6. /\ books' = [books EXCEPT ![s] = b]
        /\ \/ UNCHANGED alerts
           \/ alerts' = Append(alerts, Alert("variance", s, "fired", 1))
    BY <1>2 DEF Submits
  <1>7. PICK x \in Entry : x = [phase |-> "awaiting_confirmation", version |-> 1]
    BY DEF Entry
  <1>8. ledger' = [ledger EXCEPT ![s] = x] /\ ledger[s].phase = "open"
    BY <1>7 DEF Submit, Ledger!Submit
  <1>9. /\ Shifts' = Shifts
        /\ \A t \in Shifts : ledger'[t] = IF t = s THEN x ELSE ledger[t]
    BY <1>8, EntryUpdated
  <1>10. books'[s] = b /\ \A t \in Shifts : t # s => books'[t] = books[t]
    BY <1>6, Rows
  <1>11. EvidenceBound(s)'
    BY <1>5, <1>10 DEF EvidenceBound
  <1>12. ASSUME NEW t \in Shifts, t # s, ledger[t].phase = "open"
         PROVE  EvidenceBound(t)'
    BY <1>9, <1>12 DEF EvidenceBound
  <1>13. ShiftsFixed
    BY <1>8, <1>9, <1>10, <1>11, <1>12 DEF ShiftsFixed
  <1>14. AlertsFixed
    BY <1>6, AlertAppended DEF AlertsFixed
  <1>. QED
    BY <1>4, <1>13, <1>14 DEF Fixed, RevisionsFixed

\* What touches neither shifts nor alerts: the insert of a revision, the types
\* of one that has none, and everything else.
LEMMA OthersFix ==
    ASSUME BooksInv, UNCHANGED <<ledger, books, alerts>>, RevisionsFixed
    PROVE  Fixed
  <1>1. Shifts' = Shifts
    BY DEF Shifts
  <1>2. ASSUME NEW s \in Shifts, ledger[s].phase = "open"
        PROVE  EvidenceBound(s)'
    BY <1>2 DEF EvidenceBound
  <1>. QED
    BY <1>1, <1>2 DEF Fixed, ShiftsFixed, AlertsFixed

LEMMA InsertRevisionFixes ==
    ASSUME BooksInv, NEW c \in Creators, InsertRevision(c)
    PROVE  Fixed
  <1>. Typed /\ TypeOK
    BY DEF BooksInv
  <1>1. creating[c] \in Revision
    BY RequestedRevisions DEF InsertRevision, Typed
  <1>2. PICK r \in Revision : r = creating[c]
    BY <1>1
  <1>3. revisions' = Append(revisions, r)
    BY <1>2 DEF InsertRevision
  <1>4. RevisionsFixed
    BY <1>3, RevisionAdded DEF RevisionsFixed
  <1>. QED
    BY <1>4, OthersFix DEF InsertRevision

LEMMA AddTypesFixes ==
    ASSUME BooksInv, NEW i \in DOMAIN revisions, NEW minimum \in Finalized,
           AddTypes(i, minimum)
    PROVE  Fixed
  <1>1. \A j \in DOMAIN revisions : j # i => revisions'[j] = revisions[j]
    BY DEF AddTypes
  <1>2. RevisionsFixed
    BY <1>1 DEF RevisionsFixed, AddTypes
  <1>. QED
    BY <1>2, OthersFix DEF AddTypes

\* Every step leaves alone what is final.
LEMMA StepFixes ==
    ASSUME BooksInv, [Next]_vars
    PROVE  Fixed
  <1>1. ASSUME NEW s \in Shifts, NEW declared \in Amounts, NEW finalized \in Losses,
               Submit(s, declared, finalized)
        PROVE  Fixed
    <2>1. finalized \in Int
      BY BooksAssumption DEF Losses, NoLoss
    <2>. QED
      BY <1>1, <2>1, SubmitFixes
  <1>2. CASE EvaluateStarvation
    <2>1. UNCHANGED <<ledger, books, revisions>> /\ Shifts' = Shifts
      BY <1>2 DEF EvaluateStarvation, Shifts
    <2>2. AlertsFixed
      BY <1>2, EvaluationAdds DEF AlertsFixed
    <2>3. ASSUME NEW s \in Shifts, ledger[s].phase = "open"
          PROVE  EvidenceBound(s)'
      BY <2>1, <2>3 DEF EvidenceBound
    <2>. QED
      BY <2>1, <2>2, <2>3 DEF Fixed, RevisionsFixed, ShiftsFixed
  <1>3. CASE \/ \E c \in Creators, r \in Requested : CheckRevision(c, r)
             \/ \E s \in 1..MaxShifts, value \in 0..(Modulus - 1) : Mark(s, value)
             \/ \E rule \in DOMAIN enabled : SwitchRule(rule)
             \/ Tick
             \/ UNCHANGED vars
    <2>1. UNCHANGED <<ledger, books, alerts, revisions>>
      BY <1>3 DEF CheckRevision, Mark, SwitchRule, Tick, vars
    <2>. QED
      BY <2>1, OthersFix DEF RevisionsFixed
  <1>4. CASE \E c \in Creators : InsertRevision(c)
    BY <1>4, InsertRevisionFixes
  <1>5. CASE \E i \in DOMAIN revisions, minimum \in Finalized : AddTypes(i, minimum)
    BY <1>5, AddTypesFixes
  <1>6. CASE OpenShift(FALSE) \/ OpenShift(TRUE)
    BY <1>6, OpenShiftFixes
  <1>7. CASE \E s \in Shifts :
               \/ \E declared \in Amounts, finalized \in Losses :
                    Submit(s, declared, finalized)
               \/ Decide(s)
               \/ Amend(s)
    BY <1>1, <1>7, DecideFixes, AmendFixes
  <1>8. \/ OpenShift(FALSE) \/ OpenShift(TRUE)
        \/ \E s \in Shifts :
             \/ \E declared \in Amounts, finalized \in Losses :
                  Submit(s, declared, finalized)
             \/ Decide(s)
             \/ Amend(s)
        \/ \E s \in 1..MaxShifts, value \in 0..(Modulus - 1) : Mark(s, value)
        \/ \E c \in Creators : PolicyStep(c)
        \/ \E i \in DOMAIN revisions, minimum \in Finalized : AddTypes(i, minimum)
        \/ EvaluateStarvation
        \/ \E rule \in DOMAIN enabled : SwitchRule(rule)
        \/ Tick
        \/ UNCHANGED vars
    BY DEF Next
  <1>9. (\E c \in Creators : PolicyStep(c)) =>
          \/ \E c \in Creators, r \in Requested : CheckRevision(c, r)
          \/ \E c \in Creators : InsertRevision(c)
    BY DEF PolicyStep
  <1>. QED
    BY <1>2, <1>3, <1>4, <1>5, <1>6, <1>7, <1>8, <1>9

\* The revisions a submitted shift is bound to are among those that no step
\* changes: they are of their kind, and that of evidence has its types.
LEMMA BoundRevisions ==
    ASSUME BooksInv, BoundInv, NEW s \in Shifts, ledger[s].phase # "open",
           NEW i \in {books[s].threshold, books[s].evidence} \ {0}
    PROVE  /\ i \in DOMAIN revisions
           /\ ~(revisions[i].kind = "evidence" /\ revisions[i].types = {})
  <1>. Typed /\ TypeOK
    BY DEF BooksInv
  <1>1. i \in DOMAIN revisions
    BY Rows DEF TypeOK
  <1>2. CASE i = books[s].threshold
    <2>1. WasInForce("threshold", books[s].threshold, books[s].known, books[s].at)
      BY DEF BooksInv, ShiftsInv, ShiftOK, PolicyOK
    <2>2. i \in Valid("threshold", books[s].known, books[s].at)
      BY <1>2, <2>1 DEF WasInForce
    <2>. QED
      BY <1>1, <2>2 DEF Valid
  <1>3. CASE i = books[s].evidence
    BY <1>1, <1>3 DEF BoundInv, EvidenceBound
  <1>. QED
    BY <1>2, <1>3

\* They still have them after every step.
LEMMA BoundNext ==
    ASSUME BooksInv, BoundInv, [Next]_vars
    PROVE  BoundInv'
  <1>1. Fixed
    BY StepFixes
  <1>2. ASSUME NEW s \in Shifts, ledger[s].phase # "open"
        PROVE  EvidenceBound(s)'
    <2>1. books'[s] = books[s]
      BY <1>1, <1>2 DEF Fixed, ShiftsFixed
    <2>2. CASE books[s].evidence = 0
      BY <2>1, <2>2 DEF EvidenceBound
    <2>3. CASE books[s].evidence # 0
      <3>1. PICK i : i = books[s].evidence
        OBVIOUS
      <3>2. revisions'[i] = revisions[i]
        BY <1>1, <1>2, <2>3, <3>1, BoundRevisions DEF Fixed, RevisionsFixed
      <3>3. revisions[i].types # {}
        BY <1>2, <2>3, <3>1 DEF BoundInv, EvidenceBound
      <3>. QED
        BY <2>1, <3>1, <3>2, <3>3 DEF EvidenceBound
    <2>. QED
      BY <2>2, <2>3
  <1>. QED
    BY <1>1, <1>2 DEF BoundInv, Fixed, ShiftsFixed

\* SubmittedIsFinal: what a submission froze, its reading, its policies and
\* their evidence types, is never rewritten, and no alert is taken back.
THEOREM SubmittedStaysFinal ==
    Spec => SubmittedIsFinal
  <1>. DEFINE Final ==
         /\ \A s \in Shifts :
              ledger[s].phase # "open" =>
                 /\ s \in Shifts' /\ ledger'[s].phase # "open"
                 /\ books'[s] = books[s]
                 /\ \A i \in {books[s].threshold, books[s].evidence} \ {0} :
                       revisions'[i] = revisions[i]
         /\ \A i \in DOMAIN alerts : i \in DOMAIN alerts' /\ alerts'[i] = alerts[i]
  <1>1. Init => BoundInv
    BY DEF Init, Ledger!Init, BoundInv, Shifts
  <1>2. BooksInv /\ BoundInv /\ [Next]_vars => BoundInv'
    BY BoundNext
  <1>3. BooksInv /\ BoundInv /\ [Next]_vars => [Final]_vars
    <2>. SUFFICES ASSUME BooksInv, BoundInv, [Next]_vars
                  PROVE  Final
      OBVIOUS
    <2>1. Fixed
      BY StepFixes
    <2>2. ASSUME NEW s \in Shifts, ledger[s].phase # "open",
                 NEW i \in {books[s].threshold, books[s].evidence} \ {0}
          PROVE  revisions'[i] = revisions[i]
      BY <2>1, <2>2, BoundRevisions DEF Fixed, RevisionsFixed
    <2>. QED
      BY <2>1, <2>2 DEF Fixed, ShiftsFixed, AlertsFixed
  <1>. QED
    BY <1>1, <1>2, <1>3, BooksInvariant, PTL DEF Spec, SubmittedIsFinal

=============================================================================
