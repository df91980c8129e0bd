-------------------------- MODULE MCCommandDelivery --------------------------
(***************************************************************************)
(* Instances of CommandDelivery for TLC: the first command goes to both    *)
(* agents, the second waits behind it at one of them.                      *)
(***************************************************************************)
EXTENDS CommandDelivery, Sequences

CONSTANTS a1, a2

TwoTargets  == {a1, a2}
BothThenOne == <<{{a1, a2}}, {{a1}}>>

=============================================================================
