----------------------------- MODULE MCJobTable -----------------------------
(***************************************************************************)
(* Instances of JobTable for TLC.                                          *)
(***************************************************************************)
EXTENDS JobTable, TLC

CONSTANTS j1, c1, c2

OneJob     == {j1}
NoClients  == {}
OneClient  == {c1}
TwoClients == {c1, c2}
Swap == Permutations(Jobs) \cup Permutations(Clients)

=============================================================================
