----------------------------- MODULE MCFlowRuns -----------------------------
(***************************************************************************)
(* Two flows into one directory with two files.  Copies, moves on one      *)
(* device and moves to another; copies are verified, moves are or not.     *)
(***************************************************************************)
EXTENDS FlowRuns, TLC

CONSTANTS f1, f2, a, b, shared

TwoFlows == {f1, f2}
TwoFiles == {a, b}
Shared   == [j \in Flows |-> shared]

Options(modes, conflicts, stops, devices, verifies) ==
  [mode : modes, conflict : conflicts, smartSync : {TRUE}, stopOnError : stops,
   sameDevice : devices, verify : verifies]

AllConfigs == Options({"copy"}, {"rename"}, {FALSE}, {TRUE}, {TRUE})
                \cup Options({"move"}, {"skip"}, {TRUE}, {TRUE}, BOOLEAN)
                \cup Options({"move"}, {"overwrite"}, {TRUE}, {FALSE}, BOOLEAN)

Swap == Permutations(Flows) \cup Permutations(Files)

=============================================================================
