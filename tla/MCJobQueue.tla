----------------------------- MODULE MCJobQueue -----------------------------
(***************************************************************************)
(* Instances of JobQueue for TLC.                                          *)
(***************************************************************************)
EXTENDS JobQueue, TLC

CONSTANTS j1, j2, e1, e2, e3

OneJob == {j1}
TwoJobs == {j1, j2}
TwoExecs == {e1, e2}
ThreeExecs == {e1, e2, e3}

ExecSymmetry == Permutations(Execs)

=============================================================================
