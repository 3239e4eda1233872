----------------------------- MODULE MCTracker -----------------------------
(* Instances of Tracker for TLC.                                           *)
EXTENDS Tracker, TLC

CONSTANTS c1, c2

TwoCameras == {c1, c2}
CameraSymmetry == Permutations(TwoCameras)
AnyMemory == {0, 5}
=============================================================================
