------------------------------ MODULE MCLocks ------------------------------
(* Mixes of programs of Locks for TLC.                                     *)
EXTENDS Locks

\* The requests are interchangeable: one mix per choice of n programs.
Choices(programs, n) ==
    {[i \in 1..n |-> programs[f[i]]] :
       f \in {g \in [1..n -> DOMAIN programs] :
               \A i \in 1..(n - 1) : g[i] <= g[i + 1]}}

Main ==
    <<"submit", "draft", "starvation", "assign", "remove", "organization",
      "station">>

\* Each of these but "mark" takes the station, or rows that others take, in the
\* order of one of Main; it meets a submission and any other program.  So does
\* "mark", of which only a submission and the scheduler take a row.
Others ==
    <<"open", "mark", "acknowledge", "approve", "reject", "revision", "user",
      "invite">>

AllMixes ==
    Choices(Main, 3)
      \cup {<<Others[i], "submit", Main[j]>> :
              i \in DOMAIN Others, j \in DOMAIN Main}

=============================================================================
