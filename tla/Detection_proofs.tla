--------------------------- MODULE Detection_proofs ---------------------------
(***************************************************************************)
(* Proofs about Detection, for any candidates, boxes, scores, thresholds   *)
(* and image: no object is reported twice, Detect loses a candidate only   *)
(* to a better one, which faces a small candidate hides, and every anchor  *)
(* has a prior, for any size of the image of the face network.             *)
(***************************************************************************)
EXTENDS Detection, SequenceTheorems, FunctionTheorems, FiniteSetTheorems, TLAPS

(* What each step finds, and where the output comes from.                  *)
Types ==
  /\ TypeOK
  /\ step = "build" <=> net = "none"
  /\ net = "unknown" => step = "infer"
  /\ step \in {"build", "infer"} => out = {} /\ class = 1
  /\ step \in {"build", "infer", "sort"} => order = <<>>
  /\ step \notin {"build", "infer"} => cand \in [Slots -> Candidates]
  /\ net = "face" /\ step # "done" => out = {}

(* The order of the candidates, of one class and sorted, and for faces     *)
(* without equal scores.                                                   *)
Ordered ==
  /\ net = "body" => \A i \in 1 .. Len(order) : cand[order[i]].class = class
  /\ net = "face" => \A i \in 1 .. Len(order) : cand[order[i]].class = 1
  /\ \A i, j \in 1 .. Len(order) : i < j =>
       /\ order[i] # order[j] /\ Score(order[i]) >= Score(order[j])
       /\ net = "face" => Score(order[i]) > Score(order[j])

(* What Detect has reported is of an earlier class or was passed.          *)
Reported ==
  net = "body" => \A s \in out :
    \/ cand[s].class < class
    \/ cand[s].class = class /\ step = "done"
    \/ cand[s].class = class /\ step = "suppress" /\ \E i \in 1 .. at - 1 : s = order[i]

(* Whatever a passed and kept candidate overlaps was merged into it.       *)
BodyMerged ==
  net = "body" /\ step = "suppress" =>
    \A i \in 1 .. at - 1, j \in 1 .. Len(order) :
      i < j /\ order[i] \in out /\ Overlaps(BoxAt(i), BoxAt(j)) => j \in dropped

(* The same for faces; and nothing small comes after a kept one.           *)
FaceCleared ==
  net = "face" /\ step = "suppress" =>
    \A i \in 1 .. at - 1, j \in 1 .. Len(order) : i <= j /\ i \notin dropped =>
      /\ ~Small(BoxAt(j))
      /\ i < j /\ FaceOverlaps(BoxAt(i), BoxAt(j)) => j \in dropped

(* A candidate that is reported, or lost to a better one.                  *)
Settled(s) ==
  s \in out \/ \E t \in out :
    cand[t].class = cand[s].class /\ Score(t) >= Score(s) /\ Overlaps(Box(t), Box(s))

AllSettled ==
  net = "body" /\ step \in {"sort", "suppress", "done"} =>
    /\ \A c \in 1 .. class - 1 : \A s \in Proposals(c) : Settled(s)
    /\ step = "suppress" =>
         /\ \A s \in Proposals(class) : \E i \in 1 .. Len(order) : s = order[i]
         /\ \A i \in 1 .. Len(order) : i < at \/ i \in dropped => Settled(order[i])
    /\ step = "done" => classes - 1 <= class /\ \A s \in Proposals(class) : Settled(s)

(* Reported boxes do not overlap as suppression compared them.             *)
Apart ==
  \A s, t \in out :
    s # t /\ cand[s].class = cand[t].class =>
      IF net = "body" THEN ~Overlaps(Box(s), Box(t)) ELSE ~FaceOverlaps(Box(s), Box(t))

(* The inductive invariant.                                                *)
IInv ==
  /\ Types /\ Ordered /\ Reported /\ BodyMerged /\ FaceCleared /\ AllSettled
  /\ Apart /\ SmallHidesBetter
-----------------------------------------------------------------------------
(* Which of two boxes is the better one makes no difference to their       *)
(* overlap.                                                                *)
Boxes == [x0 : Int, y0 : Int, x1 : Int, y1 : Int]

LEMMA BoxType ==
  ASSUME cand \in [Slots -> Candidates], NEW s \in Slots
  PROVE  Box(s) \in Boxes
<1>1. cand[s].box \in Boxes
  BY DetectionAssumption DEF Candidates, Boxes
<1>2. \A x \in Int : Bound(x, Width) \in Int /\ Bound(x, Height) \in Int
  BY DetectionAssumption DEF Bound
<1> QED
  BY <1>1, <1>2 DEF Box, Clip, Boxes

LEMMA InnerCommutes ==
  ASSUME NEW a \in Boxes, NEW b \in Boxes
  PROVE  Inner(a, b) = Inner(b, a) /\ Inner(a, b) \in Boxes
  BY DEF Inner, Boxes

LEMMA AreaType ==
  ASSUME NEW a \in Boxes
  PROVE  Area(a) \in Int
<1>1. BoxHeight(a) \in Int /\ BoxWidth(a) \in Int
  BY DEF Boxes, BoxHeight, BoxWidth
<1> QED
  BY <1>1 DEF Area

LEMMA OverlapsCommute ==
  ASSUME NEW a \in Boxes, NEW b \in Boxes
  PROVE  /\ Overlaps(a, b) <=> Overlaps(b, a)
         /\ FaceOverlaps(a, b) <=> FaceOverlaps(b, a)
<1>1. Inner(a, b) = Inner(b, a)
  BY InnerCommutes
<1>2. Union(a, b) = Union(b, a)
  BY <1>1, AreaType, InnerCommutes DEF Union
<1> QED
  BY <1>1, <1>2 DEF Overlaps, FaceOverlaps

(* Small boxes and overlaps are those of the candidates.                   *)
LEMMA SameCandidates ==
  ASSUME UNCHANGED cand
  PROVE  /\ \A s : Box(s)' = Box(s) /\ Score(s)' = Score(s)
         /\ \A c : Proposals(c)' = Proposals(c)
  BY DEF Box, Score, Proposals

LEMMA Finite ==
  ASSUME NEW c
  PROVE  /\ Proposals(c) \subseteq Slots /\ IsFiniteSet(Proposals(c))
         /\ Cardinality(Proposals(c)) \in Nat
<1>1. Proposals(c) \in SUBSET Slots
  BY DEF Proposals
<1>2. IsFiniteSet(Proposals(c))
  BY <1>1, FS_Subset, DetectionAssumption
<1> QED
  BY <1>1, <1>2, FS_CardinalityType

(* A ranking of a finite set lists all of it.                              *)
LEMMA RankingLists ==
  ASSUME NEW S, IsFiniteSet(S), NEW q \in Ranking(S, Cardinality(S))
  PROVE  /\ q \in Seq(S) /\ Len(q) = Cardinality(S) /\ Cardinality(S) \in Nat
         /\ \A i, j \in 1 .. Len(q) : i < j => q[i] # q[j] /\ Score(q[i]) >= Score(q[j])
         /\ \A s \in S : \E i \in 1 .. Len(q) : s = q[i]
<1> DEFINE n == Cardinality(S)
<1>1. n \in Nat
  BY FS_CardinalityType
<1>2. q \in [1 .. n -> S] /\ Descending(q)
  BY DEF Ranking
<1> HIDE DEF n
<1>3. q \in Seq(S) /\ Len(q) = n
  BY <1>1, <1>2
<1>4. \A i, j \in 1 .. n : i < j => q[i] # q[j] /\ Score(q[i]) >= Score(q[j])
  BY <1>2 DEF Descending
<1>5. q \in Injection(1 .. n, S)
  <2>1. \A i, j \in 1 .. n : q[i] = q[j] => i = j
    BY <1>1, <1>4
  <2> QED
    BY <1>2, <2>1 DEF Injection, IsInjective
<1>6. Cardinality(1 .. n) = Cardinality(S)
  BY <1>1, FS_Interval DEF n
<1>7. q \in Surjection(1 .. n, S)
  BY <1>5, <1>6, FS_Injection
<1> QED
  BY <1>1, <1>3, <1>4, <1>7 DEF Surjection, n

LEMMA InitIInv == Init => IInv
<1> SUFFICES ASSUME Init PROVE IInv
  OBVIOUS
<1>1. Types
  BY DEF Init, Types, TypeOK
<1> QED
  BY <1>1 DEF Init, IInv, Ordered, Reported, BodyMerged, FaceCleared, AllSettled, Apart,
     SmallHidesBetter
-----------------------------------------------------------------------------
(* The steps of either detector.                                           *)
LEMMA BuildStep ==
  ASSUME IInv, SetJson \/ SetUnknown \/ BuildFace
  PROVE  IInv'
<1>1. /\ step = "build" /\ step' = "infer" /\ net' \in {"body", "face", "unknown"} /\ classes' \in Nat
      /\ UNCHANGED <<cand, class, order, at, dropped, out>>
  <2>1. CASE SetJson
    <3>1. \A v \in DOMAIN Models : Models[v].classes \in Nat
      BY DEF Models, Model
    <3> QED
      BY <2>1, <3>1 DEF SetJson
  <2>2. CASE SetUnknown
    <3>1. 0 .. MaxClass \subseteq Nat
      BY DetectionAssumption
    <3> QED
      BY <2>2, <3>1 DEF SetUnknown
  <2>3. CASE BuildFace
    BY <2>3 DEF BuildFace
  <2> QED
    BY <2>1, <2>2, <2>3
<1>2. Types'
  BY <1>1 DEF IInv, Types, TypeOK
<1>3. order' = <<>> /\ out' = {}
  BY <1>1 DEF IInv, Types
<1> QED
  BY <1>1, <1>2, <1>3 DEF IInv, Ordered, Reported, BodyMerged, FaceCleared, AllSettled,
     Apart, SmallHidesBetter

LEMMA InferStep ==
  ASSUME IInv, Infer
  PROVE  IInv'
<1>1. /\ step = "infer" /\ step' = "sort" /\ net # "unknown"
      /\ UNCHANGED <<network, class, order, at, dropped, out>>
  BY DEF Infer
<1>2. cand' \in [Slots -> Candidates]
  <2>1. cand' \in [Slots -> {c \in [class : 1 .. MaxClass, score : Scores, box : RawBoxes] :
                              c.class < classes}]
    BY DEF Infer
  <2>2. \A c \in [class : 1 .. MaxClass, score : Scores, box : RawBoxes] : c \in Candidates
    BY DetectionAssumption DEF Candidates
  <2> QED
    BY <2>1, <2>2
<1>3. order' = <<>> /\ out' = {} /\ class' = 1
  BY <1>1 DEF IInv, Types
<1>4. Types'
  BY <1>1, <1>2 DEF IInv, Types, TypeOK, network
<1> QED
  BY <1>1, <1>3, <1>4 DEF IInv, Ordered, Reported, BodyMerged, FaceCleared, AllSettled,
     Apart, SmallHidesBetter, network

(* Nothing of a class is reported before it is sorted.                     *)
LEMMA SortStep ==
  ASSUME IInv, Sort
  PROVE  IInv'
<1>1. /\ step = "sort" /\ net = "body" /\ step' = "suppress" /\ at' = 1 /\ dropped' = {}
      /\ UNCHANGED <<network, cand, class, out>>
  BY DEF Sort
<1>2. /\ \A s : Box(s)' = Box(s) /\ Score(s)' = Score(s)
      /\ \A c : Proposals(c)' = Proposals(c)
  BY <1>1, SameCandidates
<1>3. IsFiniteSet(Proposals(class)) /\ Proposals(class) \subseteq Slots
  BY Finite
<1>4. order' \in Ranking(Proposals(class), Cardinality(Proposals(class)))
  BY DEF Sort
<1>5. /\ order' \in Seq(Proposals(class))
      /\ \A i, j \in 1 .. Len(order') :
           i < j => order'[i] # order'[j] /\ Score(order'[i]) >= Score(order'[j])
      /\ \A s \in Proposals(class) : \E i \in 1 .. Len(order') : s = order'[i]
  BY <1>3, <1>4, RankingLists
<1>6. order' \in Seq(Slots)
  BY <1>3, <1>5
<1>7. Types'
  BY <1>1, <1>6 DEF IInv, Types, TypeOK, network
<1>8. Ordered'
  <2>1. \A i \in 1 .. Len(order') : cand[order'[i]].class = class
    BY <1>5 DEF Proposals
  <2> QED
    BY <1>1, <1>2, <1>5, <2>1 DEF Ordered, network
<1>9. Reported'
  BY <1>1 DEF IInv, Reported, network
<1>10. BodyMerged' /\ FaceCleared'
  BY <1>1 DEF BodyMerged, FaceCleared, network
<1>11. AllSettled'
  <2>1. \A s : Settled(s)' = Settled(s)
    BY <1>1, <1>2 DEF Settled
  <2>2. \A c \in 1 .. class - 1 : \A s \in Proposals(c) : Settled(s)
    BY <1>1 DEF IInv, AllSettled
  <2> QED
    BY <1>1, <1>2, <1>5, <2>1, <2>2 DEF AllSettled
<1>12. Apart' /\ SmallHidesBetter'
  BY <1>1, <1>2 DEF IInv, Apart, SmallHidesBetter, network
<1> QED
  BY <1>7, <1>8, <1>9, <1>10, <1>11, <1>12 DEF IInv

LEMMA FilterByScoreStep ==
  ASSUME IInv, FilterByScore
  PROVE  IInv'
<1>1. /\ step = "sort" /\ net = "face" /\ step' \in {"suppress", "done"} /\ at' = 1 /\ dropped' = {}
      /\ UNCHANGED <<network, cand, class, out>>
      /\ out = {}
  BY DEF FilterByScore, IInv, Types
<1>2. \A s : Box(s)' = Box(s) /\ Score(s)' = Score(s)
  BY <1>1, SameCandidates
<1>3. Firsts \in SUBSET Slots /\ IsFiniteSet(Firsts)
  <2>1. Firsts \in SUBSET Slots
    BY DEF Firsts, Proposals
  <2> QED
    BY <2>1, FS_Subset, DetectionAssumption
<1>4. PICK q \in Ranking(Firsts, Cardinality(Firsts)) : order' = SubSeq(q, 1, FaceCount)
  BY DEF FilterByScore
<1>5. /\ q \in Seq(Firsts) /\ Len(q) = Cardinality(Firsts) /\ Cardinality(Firsts) \in Nat
      /\ \A i, j \in 1 .. Len(q) : i < j => q[i] # q[j] /\ Score(q[i]) >= Score(q[j])
  BY <1>3, RankingLists
<1>6. FaceCount \in 0 .. Len(q)
  BY <1>5, DetectionAssumption DEF FaceCount, Min
<1>7. /\ order' \in Seq(Firsts) /\ Len(order') <= Len(q)
      /\ \A i \in 1 .. Len(order') : order'[i] = q[i]
  BY <1>4, <1>5, <1>6
<1>8. order' \in Seq(Slots)
  BY <1>3, <1>7
<1>9. Types'
  BY <1>1, <1>8 DEF IInv, Types, TypeOK, network
<1>10. Ordered'
  <2>1. \A i \in 1 .. Len(order') : cand[order'[i]].class = 1
    BY <1>7 DEF Firsts, Proposals
  <2>2. ASSUME NEW i \in 1 .. Len(order'), NEW j \in 1 .. Len(order'), i < j
        PROVE  order'[i] # order'[j] /\ Score(order'[i]) >= Score(order'[j])
               /\ Score(order'[i]) > Score(order'[j])
    <3>1. i \in 1 .. Len(q) /\ j \in 1 .. Len(q)
      BY <1>5, <1>7
    <3>2. q[i] # q[j] /\ Score(q[i]) >= Score(q[j]) /\ q[i] \in Firsts /\ q[j] \in Firsts
      BY <1>5, <2>2, <3>1
    <3>3. Score(q[i]) # Score(q[j])
      <4>1. q[i] \in Nat /\ q[j] \in Nat /\ q[i] \in Proposals(1) /\ q[j] \in Proposals(1)
        BY <1>3, <3>2, DetectionAssumption DEF Firsts
      <4> QED
        BY <3>2, <4>1 DEF Firsts
    <3>4. Score(q[i]) \in Int /\ Score(q[j]) \in Int
      BY <1>1, <1>3, <3>2, DetectionAssumption DEF IInv, Types, Candidates, Score
    <3> QED
      BY <1>7, <3>2, <3>3, <3>4
  <2> QED
    BY <1>1, <1>2, <2>1, <2>2 DEF Ordered, network
<1>11. Reported' /\ BodyMerged' /\ AllSettled' /\ FaceCleared' /\ Apart' /\ SmallHidesBetter'
  BY <1>1 DEF Reported, BodyMerged, AllSettled, FaceCleared, Apart, SmallHidesBetter, network
<1> QED
  BY <1>9, <1>10, <1>11 DEF IInv
-----------------------------------------------------------------------------
(* Detect::nms.                                                            *)
LEMMA SuppressStep ==
  ASSUME IInv, Suppress
  PROVE  IInv'
<1>1. /\ step = "suppress" /\ net = "body" /\ at \in 1 .. Len(order) /\ at' = at + 1
      /\ UNCHANGED <<network, step, cand, class, order>>
      /\ order \in Seq(Slots) /\ cand \in [Slots -> Candidates]
  BY DEF Suppress, IInv, Types, TypeOK
<1>2. /\ \A s : Box(s)' = Box(s) /\ Score(s)' = Score(s)
      /\ \A c : Proposals(c)' = Proposals(c)
  BY <1>1, SameCandidates
<1>3. CASE at \in dropped
  <2>1. UNCHANGED <<dropped, out>>
    BY <1>3 DEF Suppress
  <2>2. \A s : Settled(s)' = Settled(s)
    BY <1>1, <1>2, <2>1 DEF Settled
  <2>3. Types' /\ Ordered' /\ Reported'
    BY <1>1, <1>2, <2>1 DEF IInv, Types, TypeOK, Ordered, Reported, network
  <2>4. BodyMerged'
    <3> SUFFICES ASSUME NEW i \in 1 .. at, NEW j \in 1 .. Len(order), i < j,
                        order[i] \in out, Overlaps(Box(order[i]), Box(order[j]))
                 PROVE  j \in dropped
      BY <1>1, <1>2, <2>1 DEF BodyMerged, BoxAt
    <3>1. CASE i < at
      BY <1>1, <3>1 DEF IInv, BodyMerged, BoxAt
    <3>2. CASE i = at
      (* A candidate that was merged is not among the reported ones. *)
      <4>1. cand[order[at]].class = class
        BY <1>1 DEF IInv, Ordered
      <4>0. class \in Nat
        BY DEF IInv, Types, TypeOK
      <4>2. PICK k \in 1 .. at - 1 : order[at] = order[k]
        BY <1>1, <3>2, <4>0, <4>1 DEF IInv, Reported
      <4> QED
        BY <1>1, <4>2 DEF IInv, Ordered
    <3> QED
      BY <1>1, <3>1, <3>2
  <2>5. FaceCleared' /\ SmallHidesBetter'
    BY <1>1 DEF FaceCleared, SmallHidesBetter, network
  <2>6. AllSettled'
    BY <1>1, <1>2, <1>3, <2>1, <2>2 DEF IInv, AllSettled
  <2>7. Apart'
    BY <1>1, <1>2, <2>1 DEF IInv, Apart, network
  <2> QED
    BY <2>3, <2>4, <2>5, <2>6, <2>7 DEF IInv
<1>4. CASE at \notin dropped
  <2>1. /\ out' = out \cup {order[at]} /\ dropped' = dropped \cup {at} \cup Merged(at)
        /\ Merged(at) = {j \in at + 1 .. Len(order) : Overlaps(Box(order[at]), Box(order[j]))}
        /\ order[at] \in Slots /\ cand[order[at]].class = class
    BY <1>1, <1>4 DEF Suppress, Merged, After, BoxAt, IInv, Ordered
  <2>2. \A i \in 1 .. Len(order) : order[i] \in out => i # at
    <3> SUFFICES ASSUME order[at] \in out PROVE FALSE
      OBVIOUS
    <3>1. PICK k \in 1 .. at - 1 : order[at] = order[k]
      BY <1>1, <2>1 DEF IInv, Reported, Types, TypeOK
    <3> QED
      BY <1>1, <3>1 DEF IInv, Ordered
  <2>3. Types'
    <3>1. dropped' \subseteq 1 .. Len(order')
      <4>1. dropped \subseteq 1 .. Len(order) /\ Merged(at) \subseteq 1 .. Len(order)
        BY <1>1, <2>1 DEF IInv, Types, TypeOK
      <4> QED
        BY <1>1, <2>1, <4>1
    <3>2. at' \in 1 .. Len(order') + 1
      BY <1>1
    <3>3. out' \subseteq Slots
      BY <2>1 DEF IInv, Types, TypeOK
    <3> QED
      BY <1>1, <3>1, <3>2, <3>3 DEF IInv, Types, TypeOK, network
  <2>4. Ordered' /\ FaceCleared' /\ SmallHidesBetter'
    BY <1>1, <1>2 DEF IInv, Ordered, FaceCleared, SmallHidesBetter, network
  <2>5. Reported'
    BY <1>1, <2>1 DEF IInv, Reported, network
  <2>6. BodyMerged'
    <3> SUFFICES ASSUME NEW i \in 1 .. at, NEW j \in 1 .. Len(order), i < j,
                        order[i] \in out', Overlaps(Box(order[i]), Box(order[j]))
                 PROVE  j \in dropped'
      BY <1>1, <1>2 DEF BodyMerged, BoxAt
    <3>1. CASE i < at
      <4>1. order[i] # order[at]
        BY <1>1, <3>1 DEF IInv, Ordered
      <4> QED
        BY <1>1, <2>1, <3>1, <4>1 DEF IInv, BodyMerged, BoxAt
    <3>2. CASE i = at
      BY <1>1, <2>1, <3>2
    <3> QED
      BY <1>1, <3>1, <3>2
  <2>7. AllSettled'
    <3>1. \A s : Settled(s) => Settled(s)'
      BY <1>1, <1>2, <2>1 DEF Settled
    <3>2. ASSUME NEW i \in 1 .. Len(order), i < at + 1 \/ i \in dropped'
          PROVE  Settled(order[i])'
      <4>1. CASE i = at
        BY <1>1, <2>1, <4>1 DEF Settled
      <4>2. CASE i < at \/ i \in dropped
        BY <1>1, <3>1, <4>2 DEF IInv, AllSettled
      <4>3. CASE i \in Merged(at)
        <5>1. Score(order[at]) >= Score(order[i]) /\ cand[order[i]].class = class
          BY <1>1, <2>1, <4>3 DEF IInv, Ordered
        <5> QED
          BY <1>1, <1>2, <2>1, <4>3, <5>1 DEF Settled
      <4> QED
        BY <1>1, <2>1, <3>2, <4>1, <4>2, <4>3
    <3> QED
      BY <1>1, <1>2, <3>1, <3>2 DEF IInv, AllSettled
  <2>8. Apart'
    <3>1. ASSUME NEW s \in out, cand[s].class = class
          PROVE  ~Overlaps(Box(s), Box(order[at])) /\ ~Overlaps(Box(order[at]), Box(s))
      <4>1. PICK k \in 1 .. at - 1 : s = order[k]
        BY <1>1, <3>1 DEF IInv, Reported, Types, TypeOK
      <4>2. ~Overlaps(Box(s), Box(order[at]))
        BY <1>1, <1>4, <3>1, <4>1 DEF IInv, BodyMerged, BoxAt
      <4>3. s \in Slots
        BY DEF IInv, Types, TypeOK
      <4> QED
        BY <1>1, <2>1, <4>2, <4>3, BoxType, OverlapsCommute
    <3> QED
      BY <1>1, <1>2, <2>1, <3>1 DEF IInv, Apart, network
  <2> QED
    BY <2>3, <2>4, <2>5, <2>6, <2>7, <2>8 DEF IInv
<1> QED
  BY <1>3, <1>4

LEMMA NextClassStep ==
  ASSUME IInv, NextClass
  PROVE  IInv'
<1>1. /\ step = "suppress" /\ net = "body" /\ at > Len(order) /\ at' = 1
      /\ order' = <<>> /\ dropped' = {}
      /\ UNCHANGED <<network, cand, out>>
      /\ class \in Nat \ {0} /\ classes \in Nat
      /\ \/ class + 1 < classes /\ class' = class + 1 /\ step' = "sort"
         \/ ~(class + 1 < classes) /\ class' = class /\ step' = "done"
  BY DEF NextClass, IInv, Types, TypeOK
<1>2. /\ \A s : Box(s)' = Box(s) /\ Score(s)' = Score(s)
      /\ \A c : Proposals(c)' = Proposals(c)
  BY <1>1, SameCandidates
<1>3. Types'
  BY <1>1 DEF IInv, Types, TypeOK, network
<1>4. Ordered' /\ BodyMerged' /\ FaceCleared' /\ SmallHidesBetter'
  BY <1>1 DEF Ordered, BodyMerged, FaceCleared, SmallHidesBetter, network
<1>5. Reported'
  <2>1. \A s \in out : cand[s].class \in Nat
    BY <1>1 DEF IInv, Types, TypeOK, Candidates
  <2> QED
    BY <1>1, <2>1 DEF IInv, Reported, network
<1>6. AllSettled'
  <2>1. \A s : Settled(s)' = Settled(s)
    BY <1>1, <1>2 DEF Settled
  <2>2. \A s \in Proposals(class) : Settled(s)
    BY <1>1 DEF IInv, AllSettled, Types, TypeOK
  <2>3. \A c \in 1 .. class : \A s \in Proposals(c) : Settled(s)
    BY <1>1, <2>2 DEF IInv, AllSettled
  <2> QED
    BY <1>1, <1>2, <2>1, <2>2, <2>3 DEF AllSettled, network
<1>7. Apart'
  BY <1>1, <1>2 DEF IInv, Apart, network
<1> QED
  BY <1>3, <1>4, <1>5, <1>6, <1>7 DEF IInv
-----------------------------------------------------------------------------
(* FaceDetectWithMask::nms.  A candidate that is kept was compared with    *)
(* all after it, and found none of them small.                             *)
LEMMA SuppressFaceStep ==
  ASSUME IInv, SuppressFace
  PROVE  IInv'
<1>1. /\ step = "suppress" /\ net = "face" /\ at \in 1 .. Len(order) /\ at' = at + 1
      /\ UNCHANGED <<network, step, cand, class, order, out>>
      /\ order \in Seq(Slots) /\ out = {}
      /\ dropped \subseteq 1 .. Len(order)
  BY DEF SuppressFace, IInv, Types, TypeOK
<1>2. \A s : Box(s)' = Box(s) /\ Score(s)' = Score(s)
  BY <1>1, SameCandidates
<1>3. /\ dropped \subseteq dropped' /\ dropped' \subseteq 1 .. Len(order)
      /\ at \notin dropped => FaceMerged(at) \subseteq dropped' /\ (DropsItself(at) => at \in dropped')
  <2>1. FaceMerged(at) \subseteq 1 .. Len(order)
    BY <1>1 DEF FaceMerged, Reached, After
  <2> QED
    BY <1>1, <2>1 DEF SuppressFace
<1>4. Types'
  BY <1>1, <1>3 DEF IInv, Types, TypeOK, network
<1>5. Ordered' /\ Reported' /\ BodyMerged' /\ AllSettled' /\ Apart' /\ SmallHidesBetter'
  BY <1>1, <1>2 DEF IInv, Ordered, Reported, BodyMerged, AllSettled, Apart,
     SmallHidesBetter, network
<1>6. FaceCleared'
  <2> SUFFICES ASSUME NEW i \in 1 .. at, NEW j \in 1 .. Len(order), i <= j, i \notin dropped'
               PROVE  /\ ~Small(Box(order[j]))
                      /\ i < j /\ FaceOverlaps(Box(order[i]), Box(order[j])) => j \in dropped'
    BY <1>1, <1>2 DEF FaceCleared, BoxAt
  <2>1. CASE i < at
    BY <1>1, <1>3, <2>1 DEF IInv, FaceCleared, BoxAt
  <2>2. CASE i = at
    <3>1. at \notin dropped /\ ~DropsItself(at) /\ FaceMerged(at) \subseteq dropped'
      BY <1>3, <2>2
    <3>2. ~Small(Box(order[at])) /\ Reached(at) = After(at)
      BY <3>1 DEF DropsItself, BoxAt
    <3>3. j # at => j \in Reached(at)
      BY <1>1, <2>2, <3>2 DEF After
    <3>4. ~Small(Box(order[j]))
      BY <1>1, <2>2, <3>2, <3>3 DEF Reached, BoxAt
    <3>5. j # at /\ FaceOverlaps(Box(order[at]), Box(order[j])) => j \in FaceMerged(at)
      BY <3>2, <3>3 DEF FaceMerged, BoxAt
    <3> QED
      BY <1>1, <2>2, <3>1, <3>4, <3>5
  <2> QED
    BY <1>1, <2>1, <2>2
<1> QED
  BY <1>4, <1>5, <1>6 DEF IInv

LEMMA CollectFacesStep ==
  ASSUME IInv, CollectFaces
  PROVE  IInv'
<1>1. /\ step = "suppress" /\ net = "face" /\ at > Len(order) /\ step' = "done"
      /\ UNCHANGED <<network, cand, class, order, at, dropped>>
      /\ order \in Seq(Slots) /\ at \in Nat /\ cand \in [Slots -> Candidates]
      /\ out' = {order[i] : i \in DOMAIN order \ dropped}
  BY DEF CollectFaces, IInv, Types, TypeOK
<1>2. \A s : Box(s)' = Box(s) /\ Score(s)' = Score(s)
  BY <1>1, SameCandidates
<1>3. DOMAIN order = 1 .. Len(order) /\ out' \subseteq Slots
  BY <1>1
<1>4. Types'
  BY <1>1, <1>3 DEF IInv, Types, TypeOK, network
<1>5. Ordered' /\ Reported' /\ BodyMerged' /\ AllSettled' /\ FaceCleared'
  BY <1>1, <1>2 DEF IInv, Ordered, Reported, BodyMerged, AllSettled, FaceCleared, network
<1>6. \A i, j \in 1 .. Len(order) : i <= j /\ i \notin dropped =>
        /\ ~Small(Box(order[j]))
        /\ i < j /\ FaceOverlaps(Box(order[i]), Box(order[j])) => j \in dropped
  BY <1>1 DEF IInv, FaceCleared, BoxAt
<1>7. Apart'
  <2> SUFFICES ASSUME NEW s \in out', NEW t \in out', s # t
               PROVE  ~FaceOverlaps(Box(s), Box(t))
    BY <1>1, <1>2 DEF Apart, network
  <2>1. PICK i \in 1 .. Len(order), j \in 1 .. Len(order) :
          s = order[i] /\ t = order[j] /\ i \notin dropped /\ j \notin dropped
    BY <1>1, <1>3
  <2>2. Box(s) \in Boxes /\ Box(t) \in Boxes
    BY <1>1, <1>3, BoxType
  <2>3. CASE i < j
    BY <1>6, <2>1, <2>3
  <2>4. CASE j < i
    <3>1. ~FaceOverlaps(Box(t), Box(s))
      BY <1>6, <2>1, <2>4
    <3> QED
      BY <2>2, <3>1, OverlapsCommute
  <2> QED
    BY <2>1, <2>3, <2>4
<1>8. SmallHidesBetter'
  <2> SUFFICES ASSUME NEW s \in out', NEW j \in 1 .. Len(order), Small(Box(order[j]))
               PROVE  Score(s) < Score(order[j])
    BY <1>1, <1>2, <1>3 DEF SmallHidesBetter, BoxAt
  <2>1. PICK i \in 1 .. Len(order) : s = order[i] /\ i \notin dropped
    BY <1>1, <1>3
  <2>2. j < i
    BY <1>6, <2>1
  <2>3. Score(order[j]) > Score(order[i])
    BY <1>1, <2>2 DEF IInv, Ordered
  <2>4. Score(order[i]) \in Int /\ Score(order[j]) \in Int
    <3>1. order[i] \in Slots /\ order[j] \in Slots
      BY <1>1
    <3> QED
      BY <1>1, <3>1, DetectionAssumption DEF Candidates, Score
  <2> QED
    BY <2>1, <2>3, <2>4
<1> QED
  BY <1>4, <1>5, <1>7, <1>8 DEF IInv

LEMMA StutterStep ==
  ASSUME IInv, UNCHANGED vars
  PROVE  IInv'
<1> USE DEF vars
<1>1. \A s : Box(s)' = Box(s) /\ Score(s)' = Score(s)
  BY SameCandidates
<1>2. \A c : Proposals(c)' = Proposals(c)
  BY SameCandidates
<1>3. \A s : Settled(s)' = Settled(s)
  BY <1>1 DEF Settled
<1>4. Types' /\ Ordered' /\ Reported'
  BY <1>1 DEF IInv, Types, TypeOK, Ordered, Reported
<1>5. BodyMerged' /\ FaceCleared' /\ Apart' /\ SmallHidesBetter'
  BY <1>1 DEF IInv, BodyMerged, FaceCleared, Apart, SmallHidesBetter, BoxAt
<1>6. AllSettled'
  BY <1>2, <1>3 DEF IInv, AllSettled
<1> QED
  BY <1>4, <1>5, <1>6 DEF IInv

LEMMA StepIInv == IInv /\ [Next]_vars => IInv'
<1> SUFFICES ASSUME IInv, [Next]_vars PROVE IInv'
  OBVIOUS
<1> QED
  BY BuildStep, InferStep, SortStep, FilterByScoreStep, SuppressStep, NextClassStep,
     SuppressFaceStep, CollectFacesStep, StutterStep DEF Next
-----------------------------------------------------------------------------
(* Every state of the two post-processings satisfies the invariant.        *)
THEOREM Invariance == Spec => []IInv
<1>1. Init => IInv
  BY InitIInv
<1>2. IInv /\ [Next]_vars => IInv'
  BY StepIInv
<1> QED
  BY <1>1, <1>2, PTL DEF Spec

(* The variables of both detectors keep their types.                       *)
THEOREM TypeCorrect == Spec => []TypeOK
<1>1. IInv => TypeOK
  BY DEF IInv, Types
<1> QED
  BY <1>1, Invariance, PTL

(* No two boxes of a class that are reported overlap, for any thresholds,  *)
(* candidates and number of classes: in Detect whichever they are, in the  *)
(* face detector when suppression compared them as they are reported.      *)
THEOREM NothingTwice == Spec => []KeptApart
<1>1. IInv => KeptApart
  <2> SUFFICES ASSUME IInv, NEW s \in out, NEW t \in out, s # t, cand[s].class = cand[t].class
               PROVE  \/ net = "body" /\ ~Overlaps(ReportedBox(s), ReportedBox(t))
                      \/ net = "face" /\ ~FaceOverlaps(ReportedBox(s), ReportedBox(t))
                      \/ net = "face" /\ ~(Inside(ReportedBox(s)) /\ Inside(ReportedBox(t)))
    BY DEF KeptApart
  <2>1. net \in {"body", "face"}
    BY DEF IInv, Types, TypeOK
  <2>2. CASE net = "body"
    BY <2>2 DEF IInv, Apart, ReportedBox
  <2>3. CASE net = "face" /\ Inside(ReportedBox(s)) /\ Inside(ReportedBox(t))
    <3>1. Box(s) = ReportedBox(s) /\ Box(t) = ReportedBox(t)
      BY <2>3 DEF Inside, ReportedBox, Box
    <3>2. ~FaceOverlaps(Box(s), Box(t))
      BY <2>3 DEF IInv, Apart
    <3> QED
      BY <2>3, <3>1, <3>2
  <2> QED
    BY <2>1, <2>2, <2>3
<1> QED
  BY <1>1, Invariance, PTL

(* Greedy suppression loses a candidate only to one that is reported,      *)
(* scores as high and overlaps it.                                         *)
THEOREM LostToBetter == Spec => []LostOnlyToBetter
<1>1. IInv => LostOnlyToBetter
  <2> SUFFICES ASSUME IInv, net = "body", step = "done",
                      NEW c \in 1 .. classes - 1, NEW s \in Proposals(c)
               PROVE  s \in out \/ \E t \in out :
                        cand[t].class = c /\ Score(t) >= Score(s) /\ Overlaps(Box(t), Box(s))
    BY DEF LostOnlyToBetter
  <2>1. class \in Nat /\ classes \in Nat /\ classes - 1 <= class
    BY DEF IInv, Types, TypeOK, AllSettled
  <2>2. Settled(s)
    <3>1. CASE c = class
      BY <3>1 DEF IInv, AllSettled
    <3>2. CASE c \in 1 .. class - 1
      BY <3>2 DEF IInv, AllSettled
    <3> QED
      BY <2>1, <3>1, <3>2
  <2>3. cand[s].class = c
    BY DEF Proposals
  <2> QED
    BY <2>2, <2>3 DEF Settled
<1> QED
  BY <1>1, Invariance, PTL

(* One small candidate is enough to hide every better face.                *)
THEOREM SmallFacesHide == Spec => []SmallHidesBetter
<1>1. IInv => SmallHidesBetter
  BY DEF IInv
<1> QED
  BY <1>1, Invariance, PTL
-----------------------------------------------------------------------------
(* ANCHORS                                                                 *)

LEMMA ProductsGrow ==
  ASSUME NEW a \in Nat, NEW b \in Nat, NEW c \in Nat, NEW d \in Nat, a <= c, b <= d
  PROVE  a * b <= c * d
<1>1. a * b <= c * b  OBVIOUS
<1>2. c * b <= c * d  OBVIOUS
<1> QED  BY <1>1, <1>2

(* A quotient rounded up is the least number of divisors that suffices.    *)
LEMMA CeilDivIs ==
  ASSUME NEW n \in Nat, NEW d \in Nat \ {0}
  PROVE  /\ CeilDiv(n, d) \in Nat
         /\ n <= d * CeilDiv(n, d)
         /\ \A k \in Nat : n <= d * k => CeilDiv(n, d) <= k
<1> DEFINE q == CeilDiv(n, d)
           m == n + d - 1
<1>1. m \in Nat /\ q = m \div d  BY DEF CeilDiv
<1>2. q \in Nat /\ d * q <= m /\ m < d * q + d
  <2> HIDE DEF m, q
  <2> QED  BY <1>1
<1>3. n <= d * q
  <2> HIDE DEF q
  <2> QED  BY <1>2
<1>4. ASSUME NEW k \in Nat, n <= d * k
      PROVE  q <= k
  <2> SUFFICES ASSUME k + 1 <= q PROVE FALSE
    <3> HIDE DEF q
    <3> QED  BY <1>2
  <2>1. d * (k + 1) <= d * q
    <3> HIDE DEF q
    <3> QED  BY <1>2, ProductsGrow
  <2>2. d * (k + 1) = d * k + d  OBVIOUS
  <2>3. d * k \in Nat /\ d * q \in Nat
    <3> HIDE DEF q
    <3> QED  BY <1>2
  <2> DEFINE x == d * k
             y == d * q
  <2> HIDE DEF q
  <2>4. x + d <= y /\ y <= n + d - 1 /\ n <= x /\ x \in Nat /\ y \in Nat
    BY <1>2, <1>4, <2>1, <2>2, <2>3
  <2> HIDE DEF x, y
  <2> QED  BY <2>4
<1> QED  BY <1>2, <1>3, <1>4

(* As many cells of side s as cover an area in rows and columns, at least  *)
(* as many as its size divided by theirs.                                  *)
LEMMA CellsCover ==
  ASSUME NEW h \in Nat, NEW w \in Nat, NEW s \in Nat \ {0}
  PROVE  CeilDiv(h * w, s * s) <= CeilDiv(h, s) * CeilDiv(w, s)
<1> DEFINE a == CeilDiv(h, s)
           b == CeilDiv(w, s)
<1>1. a \in Nat /\ b \in Nat /\ h <= s * a /\ w <= s * b  BY CeilDivIs
<1> HIDE DEF a, b
<1>2. s * a \in Nat /\ s * b \in Nat /\ a * b \in Nat /\ h * w \in Nat
  BY <1>1
<1>3. h * w <= (s * a) * (s * b)  BY <1>1, <1>2, ProductsGrow
<1>4. (s * a) * (s * b) = (s * s) * (a * b)  BY <1>1
<1>5. s * s \in Nat \ {0}  OBVIOUS
<1>6. h * w <= (s * s) * (a * b)  BY <1>3, <1>4
<1>7. CeilDiv(h * w, s * s) <= a * b  BY <1>2, <1>5, <1>6, CeilDivIs
<1> QED  BY <1>7 DEF a, b

(* The face network has no more rows than priors, whatever its shape.      *)
LEMMA FacesCovered ==
  ASSUME NEW h \in Nat, NEW w \in Nat
  PROVE  FeatureSize(h, w) <= FaceAnchors(h, w)
<1> DEFINE r(d) == CeilDiv(h * w, d)
           n(s) == CeilDiv(h, s) * CeilDiv(w, s)
<1>1. r(64) <= n(8)
  <2>1. CeilDiv(h * w, 8 * 8) <= n(8)  BY CellsCover
  <2>2. 8 * 8 = 64  OBVIOUS
  <2> QED  BY <2>1, <2>2
<1>2. r(256) <= n(16)
  <2>1. CeilDiv(h * w, 16 * 16) <= n(16)  BY CellsCover
  <2>2. 16 * 16 = 256  OBVIOUS
  <2> QED  BY <2>1, <2>2
<1>3. r(1024) <= n(32)
  <2>1. CeilDiv(h * w, 32 * 32) <= n(32)  BY CellsCover
  <2>2. 32 * 32 = 1024  OBVIOUS
  <2> QED  BY <2>1, <2>2
<1>4. \A d \in {64, 256, 1024} : r(d) \in Nat
  <2>1. h * w \in Nat  OBVIOUS
  <2> QED  BY <2>1, CeilDivIs
<1>5. \A s \in {8, 16, 32} : n(s) \in Nat
  <2> TAKE s \in {8, 16, 32}
  <2> DEFINE a == CeilDiv(h, s)
             b == CeilDiv(w, s)
  <2>1. a \in Nat /\ b \in Nat  BY CeilDivIs
  <2> HIDE DEF a, b
  <2>2. a * b \in Nat  BY <2>1
  <2> QED  BY <2>2 DEF a, b
<1>6. FeatureSize(h, w) = 2 * (r(64) + r(256) + r(1024))  BY DEF FeatureSize
<1>7. FaceAnchors(h, w) = 2 * (n(8) + n(16) + n(32))  BY DEF FaceAnchors
<1> HIDE DEF r, n
<1> QED  BY <1>1, <1>2, <1>3, <1>4, <1>5, <1>6, <1>7

(* num_anchors of each version is the number its maps generate.            *)
LEMMA VersionsMatch ==
  ASSUME NEW v \in DOMAIN Models
  PROVE  Models[v].anchors \in Nat /\ Generated(Models[v]) = Models[v].anchors
<1>1. v \in {"PED_V3", "Capture_V2", "Huishoubao_V2", "Monitor_V1", "Vehicle_V1"}
  BY DEF Models
<1>2. CASE v \in {"PED_V3", "Capture_V2", "Huishoubao_V2"}
  BY <1>2 DEF Models, Model, Generated
<1>3. CASE v = "Monitor_V1"
  BY <1>3 DEF Models, Model, Generated
<1>4. CASE v = "Vehicle_V1"
  BY <1>4 DEF Models, Model, Generated
<1> QED  BY <1>1, <1>2, <1>3, <1>4

(* Nothing is generated before a detector is built, and one of an unknown  *)
(* version runs no loop.                                                   *)
AnchorsInv ==
  /\ step = "build" => priors = 0
  /\ step = "build" \/ net = "unknown" \/ anchors <= priors
  /\ net = "unknown" => step = "infer"

LEMMA StepAnchors ==
  ASSUME AnchorsInv, [Next]_vars
  PROVE  AnchorsInv'
<1>1. CASE SetJson
  <2>1. PICK v \in DOMAIN Models :
          anchors' = Models[v].anchors /\ priors' = priors + Generated(Models[v])
    BY <1>1 DEF SetJson
  <2>2. priors = 0 /\ step' = "infer" /\ net' = "body"  BY <1>1 DEF SetJson, AnchorsInv
  <2> QED  BY <2>1, <2>2, VersionsMatch DEF AnchorsInv
<1>2. CASE SetUnknown
  BY <1>2 DEF SetUnknown, AnchorsInv
<1>3. CASE BuildFace
  <2>1. PICK shape \in FaceShapes :
          /\ anchors' = FeatureSize(shape[1], shape[2])
          /\ priors' = FaceAnchors(shape[1], shape[2])
    BY <1>3 DEF BuildFace
  <2>2. shape[1] \in Nat /\ shape[2] \in Nat  BY DetectionAssumption
  <2>3. step' = "infer" /\ net' = "face"  BY <1>3 DEF BuildFace
  <2> QED  BY <2>1, <2>2, <2>3, FacesCovered DEF AnchorsInv
<1>4. CASE ~SetJson /\ ~SetUnknown /\ ~BuildFace
  <2>1. /\ UNCHANGED network
        /\ \/ step # "build" /\ step' # "build" /\ net # "unknown"
           \/ UNCHANGED step
    BY <1>4 DEF Next, vars, network, Infer, Sort, Suppress, NextClass, FilterByScore,
                SuppressFace, CollectFaces
  <2> QED  BY <2>1 DEF AnchorsInv, network
<1> QED  BY <1>1, <1>2, <1>3, <1>4

(* Every anchor that is read has its prior: in each version of Detect, and *)
(* in the face detector for every height and width, multiples of a cell or *)
(* not.                                                                    *)
THEOREM PriorsSuffice == Spec => []AnchorsHavePriors
<1>1. Init => AnchorsInv  BY DEF Init, AnchorsInv
<1>2. AnchorsInv => AnchorsHavePriors  BY DEF AnchorsInv, AnchorsHavePriors
<1> QED  BY <1>1, <1>2, StepAnchors, PTL DEF Spec
=============================================================================
