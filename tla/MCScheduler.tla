------------------------------- MODULE MCScheduler -------------------------------
(***************************************************************************)
(* Instances of Scheduler for TLC: two jobs, with the same name or not.    *)
(***************************************************************************)
EXTENDS Scheduler, TLC

CONSTANTS j1, j2, a, b, p1, p2

\* Symmetry reduction is unsound for liveness.  Instead, the first job is given
\* the first name; every other instance is a renaming of one of these.
NamedInit == Init /\ nameOf[j1] = a
NamedFairSpec == NamedInit /\ [][Next]_vars /\ Fairness
================================================================================
