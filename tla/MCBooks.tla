------------------------------ MODULE MCBooks ------------------------------
(* Model values of Books for TLC.                                          *)
EXTENDS Books, TLC

\* Revisions that allow no rollover at all, where the default allows one.
Strict == {[rollover |-> 0, variance |-> 0]}

Lenient == [rollover |-> 1, variance |-> 1]

\* Each workload brings together operations that touch the same rows.
BookWorkloads ==
    {{"meter", "mark", "backfill", "amend"}, {"meter", "policy"},
     {"policy", "loss"}, {"alert", "amend"}}

CreatorSymmetry == Permutations(Creators)

=============================================================================
