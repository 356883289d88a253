----------------------------- MODULE MCStation -----------------------------
(***************************************************************************)
(* Instances of the station for TLC.                                       *)
(***************************************************************************)
EXTENDS Station, TLC

\* Two browsers of the supervisor and one of a station administrator.
ThreeDevices == {<<"sup", 1>>, <<"sup", 2>>, <<"adm", 1>>}

\* One browser each.
TwoDevices == {<<"sup", 1>>, <<"adm", 1>>}

\* The supervisor's browser alone.
OneDevice == {<<"sup", 1>>}

\* "sup" supervises, "adm" administers the station, "own" owns it.
OneEach ==
    [u \in Users |-> IF u = "sup" THEN {"Supervisor"}
                     ELSE IF u = "adm" THEN {"Station Admin"} ELSE {"Owner"}]

\* Administrators leave the roles alone.
NoChange == {}

\* The supervisor and the administrator may change sides.
ChangeSides == {"sup", "adm"} \X {"Supervisor", "Station Admin"}

\* Requests differ in their keys and payloads by equality alone.
SubmissionSymmetry == Permutations(Keys) \cup Permutations(Payloads)

=============================================================================
