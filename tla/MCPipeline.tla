----------------------------- MODULE MCPipeline -----------------------------
(* Instances of Pipeline for TLC: one RTSP camera and one local video.     *)
EXTENDS Pipeline, TLC

CONSTANTS r1, l1

OneRtsp == {r1}
OneLocal == {l1}

(* One frame of each input, or more of the camera alone.                   *)
OneEachOrThree == {(r1 :> 1 @@ l1 :> 1), (r1 :> 3 @@ l1 :> 0)}
=============================================================================
