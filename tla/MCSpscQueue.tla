---------------------------- MODULE MCSpscQueue ----------------------------
(***************************************************************************)
(* Instances of SpscQueue: one producer as the library requires, and two   *)
(* producers as the "dispatch" and "detect" queues are used.               *)
(***************************************************************************)
EXTENDS SpscQueue, TLC
=============================================================================
