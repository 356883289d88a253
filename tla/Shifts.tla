------------------------------- MODULE Shifts -------------------------------
(***************************************************************************)
(* Opening shifts at one station.                                          *)
(*                                                                         *)
(* The tables of one station are sequences: the row with index i of        *)
(* `shifts` is the shift whose station_seq is i, and the row with index i  *)
(* of `drafts` is the draft of that shift (shift_drafts is UNIQUE on the   *)
(* shift).  Every operation of the station runs in one transaction that    *)
(* holds the rows it reads FOR UPDATE, so a transaction is one action.     *)
(*                                                                         *)
(* RequireEnabled is read before any lock is taken.  An operation it       *)
(* refuses changes nothing here, and the race between that read and a      *)
(* disable is the subject of module Locks.                                 *)
(***************************************************************************)
EXTENDS Naturals, Sequences, FiniteSets

CONSTANTS
    Users,       \* users.user_id
    Openers,     \* users whose session lists Supervisor among its roles
    Backfills,   \* values of the request's "backfilled" that are sent
    MaxShifts    \* bound: shifts opened at the station

ASSUME OpenersAssumption == Openers \subseteq Users
ASSUME BackfillsAssumption == Backfills \subseteq BOOLEAN
ASSUME MaxShiftsAssumption == MaxShifts \in Nat

VARIABLES
    shifts,      \* rows of shifts
    drafts,      \* rows of shift_drafts with their child rows
    audit,       \* audit_log events about shifts, reports and amendments
    roles        \* user_station_roles at this station

shiftVars == <<shifts, drafts, audit>>

NoId == 0        \* SQL null in a column that holds an id or a claim token

ActiveStatuses == {"open", "awaiting_confirmation"}
ShiftStatuses == ActiveStatuses \cup {"needs_correction", "locked"}

Active(s) == shifts[s].status \in ActiveStatuses

NewShift(backfilled) ==
    [status |-> "open", current |-> NoId, backfilled |-> backfilled]

NewDraft(u) == [owner    |-> u,
                token    |-> NoId,
                lease    |-> 0,
                status   |-> "editing",
                revision |-> 1,
                rows     |-> {}]

ShiftsInit ==
    /\ shifts = << >>
    /\ drafts = << >>
    /\ audit = {}

\* The role test is made on the roles of the session, which are not those of
\* this station.  A backfilled shift names an Owner or Superadmin of the
\* station as its approver.
MayOpen(u, backfilled) ==
    /\ u \in Openers
    /\ backfilled => \E v \in Users : "Owner" \in roles[v]

(***************************************************************************)
(* station_seq = max + 1.  The event date of a backfilled shift is free,   *)
(* so the test against later carried readings, which compares that date,   *)
(* can always be met.  The unique index shifts_one_active_per_station      *)
(* refuses a second active shift.                                          *)
(***************************************************************************)
OpenShift(u, backfilled) ==
    LET s == Len(shifts) + 1
    IN  /\ s <= MaxShifts
        /\ MayOpen(u, backfilled)
        /\ \A t \in DOMAIN shifts : ~Active(t)
        /\ shifts' = Append(shifts, NewShift(backfilled))
        /\ drafts' = Append(drafts, NewDraft(u))
        /\ audit' = audit \cup {<<"shift.opened", s>>}

=============================================================================
