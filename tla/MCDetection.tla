----------------------------- MODULE MCDetection -----------------------------
(* Instances of Detection for TLC: an image of 40 by 40 pixels.            *)
EXTENDS Detection, TLC

Corners(x0, y0, x1, y1) == [x0 |-> x0, y0 |-> y0, x1 |-> x1, y1 |-> y1]

(* A face; one shifted by a pixel; two that begin left of the image and    *)
(* differ far more inside it than as decoded; one far away; a small one.   *)
SixBoxes ==
  {Corners(0, 0, 9, 9), Corners(1, 0, 10, 9), Corners(-20, 0, 9, 9),
   Corners(-20, 0, 4, 9), Corners(20, 20, 29, 29), Corners(30, 5, 30, 5)}

Shapes == {<<224, 224>>, <<225, 224>>, <<100, 333>>}
=============================================================================
