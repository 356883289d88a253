----------------------------- MODULE MCAccounts -----------------------------
(* Model values of Accounts for TLC.                                       *)
EXTENDS Accounts, TLC

\* The first key is past its cutoff before the clock stops.
KeyCutoffs == "k1" :> 3 @@ "k2" :> 5

OneUnitEach == "password_reset" :> 1 @@ "invitation" :> 2

RoleOf == [u \in Users |-> IF u = "ann" THEN "Superadmin" ELSE "Owner"]

\* Each workload brings together operations that touch the same rows.
AccountWorkloads ==
    {{"login", "password", "forgot"},
     {"login", "logout", "forgot"},
     {"forgot", "time"},
     {"login", "serve", "update", "keys", "time"},
     {"login", "logout", "update", "password"},
     {"login", "context", "password"},
     {"login", "invite", "update", "profile"},
     {"login", "invite", "link"},
     {"login", "invite", "time"},
     {"forgot", "login", "link"}}

\* Logins while contexts are chosen.
ContextWorkload == {{"login", "context"}}

RequestSymmetry == Permutations(Requests)

=============================================================================
