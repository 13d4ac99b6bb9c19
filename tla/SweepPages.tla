----------------------------- MODULE SweepPages -----------------------------
(***************************************************************************)
(* What a database sweep promises, whatever the number of workers: every  *)
(* pointer page of every relation is walked by the sweeper once and only  *)
(* once, and all of them are walked unless the sweep is stopped by an     *)
(* error.  A stop does not undo or forbid walks already under way.        *)
(*                                                                         *)
(* SweepTask (the parallel coordinator of VIO_sweep) implements this       *)
(* specification under the mapping given there.                           *)
(***************************************************************************)
CONSTANT Page       \* the pointer pages of the database's relations

VARIABLES
    walks,          \* walks[pg]: times page pg has been walked
    stopped         \* the sweep was stopped by an error

avars == <<walks, stopped>>

Init == walks = [pg \in Page |-> 0] /\ stopped = FALSE

\* One page not walked yet is walked.
SweepPage(pg) ==
    /\ walks[pg] = 0
    /\ walks' = [walks EXCEPT ![pg] = 1]
    /\ UNCHANGED stopped

Stop == stopped' = TRUE /\ UNCHANGED walks

Next == (\E pg \in Page : SweepPage(pg)) \/ Stop

\* While not stopped, a page left unwalked is eventually walked.
Spec == Init /\ [][Next]_avars /\ WF_avars(~stopped /\ \E pg \in Page : SweepPage(pg))

=============================================================================
