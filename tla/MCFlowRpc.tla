------------------------------ MODULE MCFlowRpc ------------------------------
(***************************************************************************)
(* Instances of FlowRpc for TLC.  A file name can be any of the stamps, so *)
(* messages and stamps may be permuted; liveness runs use no symmetry.     *)
(***************************************************************************)
EXTENDS FlowRpc, TLC

Symmetry == Permutations(Msg) \cup Permutations(Stamps) \cup Permutations(Producers)
=============================================================================
