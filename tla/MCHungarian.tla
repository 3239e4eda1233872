---------------------------- MODULE MCHungarian ----------------------------
(* Instances of Hungarian for TLC.                                         *)
EXTENDS Hungarian, TLC
=============================================================================
