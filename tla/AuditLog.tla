------------------------------ MODULE AuditLog ------------------------------
(***************************************************************************)
(* What the audit chain of an organization promises to the business        *)
(* operations that append to it, without lock row, statements or tail      *)
(* reads: an operation either commits and its event is, in the same step,  *)
(* the next row of a log that only grows, or it leaves no trace; nobody    *)
(* waits for anybody, fails because of anybody, or appends twice.          *)
(***************************************************************************)
EXTENDS Naturals, Sequences

CONSTANTS
    Transactions,    \* business transactions of the organization
    Genesis,         \* what the first row is linked to
    RowHash(_)       \* what the row after this one is linked to

VARIABLES
    log,         \* the rows of the log
    ended        \* how each transaction ended

Init ==
    /\ log = << >>
    /\ ended = [t \in Transactions |-> "running"]

Link == IF log = << >> THEN Genesis ELSE RowHash(log[Len(log)])

\* The business change and its event.
Commit(t) ==
    /\ ended[t] = "running"
    /\ log' = Append(log, [seq |-> Len(log) + 1, event |-> t, prev |-> Link])
    /\ ended' = [ended EXCEPT ![t] = "committed"]

\* Neither.
Fail(t) ==
    /\ ended[t] = "running"
    /\ ended' = [ended EXCEPT ![t] = "rolled back"]
    /\ UNCHANGED log

Next == \E t \in Transactions : Commit(t) \/ Fail(t)

Spec == Init /\ [][Next]_<<log, ended>>

=============================================================================
