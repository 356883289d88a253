---------------------------- MODULE ShiftLedger ----------------------------
(***************************************************************************)
(* What a station promises about its shifts, without drafts, keys,         *)
(* acknowledgement rows or amendment rows: shifts are numbered without     *)
(* gaps, at most one is being worked on, a shift's figures are versions    *)
(* 1, 2, ... of which only the last counts, and a version is decided at    *)
(* most once.                                                              *)
(***************************************************************************)
EXTENDS Naturals, Sequences

VARIABLE ledger     \* one entry per shift: its phase and its last version

Busy(s) == ledger[s].phase \in {"open", "awaiting_confirmation"}

Init == ledger = << >>

Open ==
    /\ \A t \in DOMAIN ledger : ~Busy(t)
    /\ ledger' = Append(ledger, [phase |-> "open", version |-> 0])

Submit(s) ==
    /\ ledger[s].phase = "open"
    /\ ledger' = [ledger EXCEPT ![s] = [phase |-> "awaiting_confirmation", version |-> 1]]

Decide(s) ==
    /\ ledger[s].phase = "awaiting_confirmation"
    /\ \E phase \in {"locked", "needs_correction"} :
          ledger' = [ledger EXCEPT ![s].phase = phase]

Amend(s) ==
    /\ ledger[s].phase # "open"
    /\ \A t \in DOMAIN ledger : t # s => ~Busy(t)
    /\ ledger' = [ledger EXCEPT ![s] = [phase |-> "awaiting_confirmation",
                                        version |-> @.version + 1]]

Next == Open \/ \E s \in DOMAIN ledger : Submit(s) \/ Decide(s) \/ Amend(s)

Spec == Init /\ [][Next]_ledger

=============================================================================
