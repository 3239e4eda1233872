------------------------------ MODULE Detection ------------------------------
(***************************************************************************)
(* What the two detectors make of the outputs of their networks: Detect    *)
(* (persons, vehicles) and FaceDetectWithMask, each with its table of      *)
(* prior anchors and its own non-maximum suppression.                      *)
(*                                                                         *)
(* A candidate is an anchor with a class, a score and the box decoded from *)
(* it.  Coordinates are pixels in integers, a box holds both its borders   *)
(* (hence the + 1), and a quotient is compared by multiplying out.  Only   *)
(* what the service constructs is modelled: hard suppression, no only_top1 *)
(* and no soft_nms.                                                        *)
(***************************************************************************)
EXTENDS Integers, Sequences, FiniteSets, FiniteSetsExt

CONSTANTS
  Slots,            \* bound: the anchors that are candidates, in their order
  RawBoxes,         \* bound: decoded boxes, which may leave the image
  Scores,           \* bound: scores, as ranks
  MaxClass,         \* bound: classes among the candidates
  Width, Height,    \* the image
  Threshold,        \* score_threshold
  IouNum, IouDen,   \* iou_threshold of Detect
  FaceNum, FaceDen, \* nms_threshold_ of FaceDetectWithMask
  MaxFaces,         \* kMaxFaceDetNum
  FaceShapes        \* bound: heights and widths of the face network

ASSUME DetectionAssumption ==
  /\ Slots \subseteq Nat /\ IsFiniteSet(Slots)
  /\ RawBoxes \subseteq [x0 : Int, y0 : Int, x1 : Int, y1 : Int]
  /\ Scores \subseteq Int /\ Threshold \in Int
  /\ MaxClass \in Nat \ {0}
  /\ Width \in Nat \ {0} /\ Height \in Nat \ {0}
  /\ IouNum \in Nat /\ IouDen \in Nat \ {0}
  /\ FaceNum \in Nat /\ FaceDen \in Nat \ {0}
  /\ MaxFaces \in Nat \ {0}
  /\ FaceShapes \subseteq (Nat \ {0}) \X (Nat \ {0})

VARIABLES
  net,       \* the detector that was built, "none" before, "unknown" for a
             \* Detect of a version that setJson does not know
  step,
  classes,   \* num_of_class
  anchors,   \* num_anchors, or dim_cls[1]
  priors,    \* number of priors, or of priori_anchors_
  cand,      \* the outputs of the network
  class,     \* c of Detect::nms
  order,     \* input: candidates by descending score
  at,        \* i
  dropped,   \* merged or drop_flag: positions in order
  out        \* output_boxes or info

vars == <<net, step, classes, anchors, priors, cand, class, order, at, dropped, out>>
network == <<net, classes, anchors, priors>>

Candidates == [class : Nat, score : Scores, box : RawBoxes]

TypeOK ==
  /\ net \in {"none", "body", "face", "unknown"}
  /\ step \in {"build", "infer", "sort", "suppress", "done"}
  /\ classes \in Nat
  /\ cand \in [Slots -> Candidates] \cup {<<>>}
  /\ class \in Nat \ {0}
  /\ order \in Seq(Slots)
  /\ at \in 1 .. Len(order) + 1
  /\ dropped \subseteq 1 .. Len(order)
  /\ out \subseteq Slots

Init ==
  /\ net = "none" /\ step = "build"
  /\ classes = 0 /\ anchors = 0 /\ priors = 0
  /\ cand = <<>> /\ class = 1
  /\ order = <<>> /\ at = 1
  /\ dropped = {} /\ out = {}
-----------------------------------------------------------------------------
(* The tables of anchors.                                                  *)

(* Feature maps and min_boxes of a version: four maps each, w by h, with   *)
(* this many boxes on every cell.                                          *)
Model(c, n, width, height, boxes) ==
  [classes |-> c, anchors |-> n, w |-> width, h |-> height, boxes |-> boxes]

Models ==
  LET w == <<56, 28, 14, 7>> h == <<32, 16, 8, 4>> six == <<6, 6, 6, 6>> IN
  [PED_V3 |-> Model(4, 14280, w, h, six),
   Capture_V2 |-> Model(4, 14280, w, h, six),
   Huishoubao_V2 |-> Model(2, 14280, w, h, six),
   Monitor_V1 |-> Model(2, 28920, <<80, 40, 20, 10>>, <<45, 23, 12, 6>>, six),
   Vehicle_V1 |-> Model(2, 7084, w, h, <<1, 9, 9, 9>>)]

(* Mutant: the last row of each map is left out.                           *)
Generated_LastRow(m) ==
  LET n(k) == m.w[k] * (m.h[k] - 1) * m.boxes[k] IN n(1) + n(2) + n(3) + n(4)

(* What the loop over the maps generates.                                  *)
Generated(m) ==
  LET n(k) == m.w[k] * m.h[k] * m.boxes[k] IN n(1) + n(2) + n(3) + n(4)

(* Detect::setJson for one of the versions it knows.                       *)
SetJson ==
  /\ step = "build"
  /\ net' = "body"
  /\ \E v \in DOMAIN Models :
       /\ classes' = Models[v].classes
       /\ anchors' = Models[v].anchors
       /\ priors' = priors + Generated(Models[v])
  /\ step' = "infer"
  /\ UNCHANGED <<cand, class, order, at, dropped, out>>

(* Detect::setJson for any other version: it logs and returns.  num_anchors *)
(* has its first value, num_of_class is uninitialized, no prior is made and *)
(* setShape is not called, so the buffer of the input stays empty.          *)
SetUnknown ==
  /\ step = "build"
  /\ net' = "unknown"
  /\ classes' \in 0 .. MaxClass
  /\ anchors' = 14280
  /\ step' = "infer"
  /\ UNCHANGED <<priors, cand, class, order, at, dropped, out>>

CeilDiv(a, b) == (a + b - 1) \div b

(* The rows of the outputs, and two anchors on each cell of three maps.    *)
FeatureSize(h, w) ==
  2 * (CeilDiv(h * w, 64) + CeilDiv(h * w, 256) + CeilDiv(h * w, 1024))
FaceAnchors(h, w) ==
  LET n(s) == CeilDiv(h, s) * CeilDiv(w, s) IN 2 * (n(8) + n(16) + n(32))

(* The constructor of FaceDetectWithMask.                                  *)
BuildFace ==
  /\ step = "build"
  /\ net' = "face" /\ classes' = 2
  /\ \E shape \in FaceShapes :
       /\ anchors' = FeatureSize(shape[1], shape[2])
       /\ priors' = FaceAnchors(shape[1], shape[2])
  /\ step' = "infer"
  /\ UNCHANGED <<cand, class, order, at, dropped, out>>
-----------------------------------------------------------------------------
(* The candidates.                                                         *)

(* preProcess fills the input before the network runs.  Without a shape it  *)
(* writes through the null pointer of an empty vector, so a Detect of an    *)
(* unknown version ends the process at its first image.                     *)
Infer ==
  /\ step = "infer" /\ net # "unknown"
  /\ cand' \in [Slots -> {c \in [class : 1 .. MaxClass, score : Scores, box : RawBoxes] :
                            c.class < classes}]
  /\ step' = "sort"
  /\ UNCHANGED <<network, class, order, at, dropped, out>>

Bound(x, high) == IF x < 0 THEN 0 ELSE IF x > high THEN high ELSE x

Clip(b) ==
  [x0 |-> Bound(b.x0, Width), y0 |-> Bound(b.y0, Height),
   x1 |-> Bound(b.x1, Width), y1 |-> Bound(b.y1, Height)]

(* The box that suppression compares.  Detect stores it clipped; the face   *)
(* detector clips it in variables of its loop.                              *)
Box(s) == Clip(cand[s].box)

(* The box that is reported: a face's is the decoded one, never clipped.    *)
ReportedBox(s) == IF net = "body" THEN Box(s) ELSE cand[s].box

Score(s) == cand[s].score

Proposals(c) == {s \in Slots : cand[s].class = c /\ Score(s) > Threshold}

Descending(q) == \A i, j \in DOMAIN q : i < j => q[i] # q[j] /\ Score(q[i]) >= Score(q[j])

(* Mutant: the candidates are taken in the order of their anchors.         *)
Ranking_Unsorted(S, n) ==
  {q \in [1 .. n -> S] : \A i, j \in 1 .. n : i < j => q[i] < q[j]}

(* std::sort leaves equal scores in any order.                             *)
Ranking(S, n) == {q \in [1 .. n -> S] : Descending(q)}

Sort ==
  /\ step = "sort" /\ net = "body"
  /\ order' \in Ranking(Proposals(class), Cardinality(Proposals(class)))
  /\ step' = "suppress" /\ at' = 1 /\ dropped' = {}
  /\ UNCHANGED <<network, cand, class, out>>


(* The map by score keeps the first anchor of each score.                  *)
Firsts == {s \in Proposals(1) : \A t \in Proposals(1) : Score(t) = Score(s) => s <= t}

FaceCount == Min({Cardinality(Firsts), MaxFaces})

FilterByScore ==
  /\ step = "sort" /\ net = "face"
  /\ order' \in {SubSeq(q, 1, FaceCount) : q \in Ranking(Firsts, Cardinality(Firsts))}
  /\ step' = IF Firsts = {} THEN "done" ELSE "suppress"
  /\ at' = 1 /\ dropped' = {}
  /\ UNCHANGED <<network, cand, class, out>>
-----------------------------------------------------------------------------
(* Suppression.                                                            *)

BoxHeight(b) == b.y1 - b.y0 + 1
BoxWidth(b) == b.x1 - b.x0 + 1
Area(b) == BoxHeight(b) * BoxWidth(b)

Inner(a, b) ==
  [x0 |-> IF a.x0 > b.x0 THEN a.x0 ELSE b.x0, y0 |-> IF a.y0 > b.y0 THEN a.y0 ELSE b.y0,
   x1 |-> IF a.x1 < b.x1 THEN a.x1 ELSE b.x1, y1 |-> IF a.y1 < b.y1 THEN a.y1 ELSE b.y1]

Union(a, b) == Area(a) + Area(b) - Area(Inner(a, b))

(* Detect::nms: the boxes meet and their overlap is above iou_threshold.   *)
Overlaps(a, b) ==
  LET inner == Inner(a, b) IN
  /\ BoxHeight(inner) > 0 /\ BoxWidth(inner) > 0
  /\ Area(inner) * IouDen > IouNum * Union(a, b)

(* FaceDetectWithMask: s / (s1 + s2 - s) >= nms_threshold_ in floating     *)
(* point, without a test that the boxes meet.  Two boxes apart in both     *)
(* directions give s > 0, and a quotient by zero is infinite.              *)
FaceOverlaps(a, b) ==
  LET s == Area(Inner(a, b)) u == Union(a, b) IN
  IF u > 0 THEN s * FaceDen >= FaceNum * u
  ELSE IF u = 0 THEN s > 0
  ELSE s * FaceDen <= FaceNum * u

(* least_percent_of_edge_: below a twentieth of the image.                 *)
Small(b) == 20 * BoxHeight(b) < Height \/ 20 * BoxWidth(b) < Width

BoxAt(i) == Box(order[i])
After(i) == i + 1 .. Len(order)

(* Mutant: only the next candidate is compared.                            *)
Merged_NextOnly(i) == {j \in After(i) : j = i + 1 /\ Overlaps(BoxAt(i), BoxAt(j))}

Merged(i) == {j \in After(i) : Overlaps(BoxAt(i), BoxAt(j))}

(* Detect::nms, one candidate: kept unless merged into a better one.       *)
Suppress ==
  /\ step = "suppress" /\ net = "body"
  /\ at <= Len(order)
  /\ IF at \in dropped
     THEN UNCHANGED <<dropped, out>>
     ELSE /\ out' = out \cup {order[at]}
          /\ dropped' = dropped \cup {at} \cup Merged(at)
  /\ at' = at + 1
  /\ UNCHANGED <<network, step, cand, class, order>>

NextClass ==
  /\ step = "suppress" /\ net = "body"
  /\ at > Len(order)
  /\ IF class + 1 < classes
     THEN class' = class + 1 /\ step' = "sort"
     ELSE step' = "done" /\ UNCHANGED class
  /\ order' = <<>> /\ at' = 1 /\ dropped' = {}
  /\ UNCHANGED <<network, cand, out>>

(* The candidates the inner loop reaches before drop_flag[i] is set, which *)
(* the first small one after i does.                                       *)
Reached(i) == {j \in After(i) : \A k \in i + 1 .. j : ~Small(BoxAt(k))}

(* Mutant: the size of the candidate itself is not tested.                 *)
DropsItself_Later(i) == Reached(i) # After(i)

DropsItself(i) == Small(BoxAt(i)) \/ Reached(i) # After(i)

FaceMerged(i) ==
  IF Small(BoxAt(i)) THEN {}
  ELSE {j \in Reached(i) : FaceOverlaps(BoxAt(i), BoxAt(j))}

SuppressFace ==
  /\ step = "suppress" /\ net = "face"
  /\ at <= Len(order)
  /\ dropped' =
       IF at \in dropped THEN dropped
       ELSE dropped \cup FaceMerged(at) \cup {i \in {at} : DropsItself(i)}
  /\ at' = at + 1
  /\ UNCHANGED <<network, step, cand, class, order, out>>

CollectFaces ==
  /\ step = "suppress" /\ net = "face"
  /\ at > Len(order)
  /\ out' = {order[i] : i \in DOMAIN order \ dropped}
  /\ step' = "done"
  /\ UNCHANGED <<network, cand, class, order, at, dropped>>
-----------------------------------------------------------------------------
Next ==
  \/ SetJson \/ SetUnknown \/ BuildFace \/ Infer
  \/ Sort \/ Suppress \/ NextClass
  \/ FilterByScore \/ SuppressFace \/ CollectFaces

Spec == Init /\ [][Next]_vars
-----------------------------------------------------------------------------
(* PROPERTIES                                                              *)

(* Every anchor a post-processing loop reads has its prior: num_anchors    *)
(* and the table of priors are written down separately for each version    *)
(* (Detect::setJson), feature_size and the anchors computed by different   *)
(* formulas (FaceDetectWithMask).  An unknown version has 14280 anchors    *)
(* and no prior; it never comes as far as the loop.                        *)
AnchorsHavePriors == step \notin {"build", "infer"} => anchors <= priors

Inside(b) == Clip(b) = b

(* No object is reported twice: two boxes of one class in the output never *)
(* overlap above the threshold, although candidates are compared only with *)
(* those that were not merged before and equal scores sort anyhow.  Of     *)
(* faces this is so when both boxes lie inside the image: those that leave *)
(* it are compared clipped and reported as decoded.                        *)
KeptApart ==
  \A s, t \in out :
    s # t /\ cand[s].class = cand[t].class =>
      \/ net = "body" /\ ~Overlaps(ReportedBox(s), ReportedBox(t))
      \/ net = "face" /\ ~FaceOverlaps(ReportedBox(s), ReportedBox(t))
      \/ net = "face" /\ ~(Inside(ReportedBox(s)) /\ Inside(ReportedBox(t)))

(* Detect loses a candidate only to a reported one of its class that       *)
(* scores at least as high and overlaps it: merging is not passed on       *)
(* through a candidate that was itself merged.                             *)
LostOnlyToBetter ==
  net = "body" /\ step = "done" =>
    \A c \in 1 .. classes - 1 : \A s \in Proposals(c) :
      s \in out \/ \E t \in out :
        cand[t].class = c /\ Score(t) >= Score(s) /\ Overlaps(Box(t), Box(s))

(* No small face is reported.  With the misplaced index of drop_flag that  *)
(* amounts to more: a reported face scores below every small candidate, so *)
(* one small candidate hides every better face, whatever their distance.   *)
SmallHidesBetter ==
  net = "face" /\ step = "done" =>
    \A s \in out, i \in DOMAIN order : Small(BoxAt(i)) => Score(s) < Score(order[i])

=============================================================================
