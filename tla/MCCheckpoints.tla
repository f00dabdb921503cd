---------------------------- MODULE MCCheckpoints ----------------------------
(***************************************************************************)
(* Instances of Checkpoints for TLC.                                       *)
(***************************************************************************)
EXTENDS Checkpoints

CONSTANTS a, b, c1, c2

OneName    == {a}
TwoNames   == {a, b}
OneClient  == {c1}
TwoClients == {c1, c2}
=============================================================================
