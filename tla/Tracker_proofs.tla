--------------------------- MODULE Tracker_proofs ---------------------------
(***************************************************************************)
(* Proofs about Tracker, for any number of cameras, persons and detections *)
(* and any thresholds: ids are never shared or used again, a person is     *)
(* confirmed by HitThresh + 1 frames in a row, every detection is counted  *)
(* once, and, with one steady camera, the lists part at the thresholds.    *)
(***************************************************************************)
EXTENDS Tracker, FiniteSetTheorems, TLAPS

DistinctIds(S) == \A o, p \in S : o.id = p.id => o = p

(* The number of a camera's frame is at most the number of frames taken.   *)
FramesBehind == \A c \in Cameras : frame_id[c] <= clock

(* Expired objects were confirmed and are not in the last frame.           *)
ExpiredAbsent == \A o \in expired : o.status = "confirmed" /\ ~o.cur

(* The inductive invariant.                                                *)
IInv ==
  /\ TypeOK
  /\ FramesBehind
  /\ IdsUnique
  /\ ExpiredAbsent
  /\ ConfirmedWhenSteady

IsDetection(d) == d.box \in Nat
-----------------------------------------------------------------------------
(* UpdateMatchedObjectStatus keeps the id, marks the object as seen in     *)
(* this frame, and confirms it by the (HitThresh + 1)st frame in a row.    *)
LEMMA Updated ==
  ASSUME NEW o \in Objects, NEW d, IsDetection(d), NEW f \in Nat, clock' \in Nat
  PROVE  LET u == UpdateMatchedObjectStatus(o, d, f) IN
           /\ u \in Objects
           /\ u.id = o.id
           /\ u.cur
           /\ u.seen = clock' /\ u.body = f
           /\ o.status = "confirmed" => u.status = "confirmed"
           /\ Steady(o, clock) => Steady(u, clock')
<1> DEFINE s == StatusAfter(o)
           h == IF o.hits > HitThresh THEN o.hits ELSE o.hits + 1
           w == RowAfter(o)
           t == IF o.traj + 1 > TrajectorySize THEN TrajectorySize ELSE o.traj + 1
           b == o.feats \/ d.big
           c == clock'
           u == [o EXCEPT !.cur = TRUE, !.hits = h, !.status = s, !.traj = t,
                          !.feats = b, !.body = f, !.seen = c, !.row = w]
<1>1. s \in {"unconfirmed", "confirmed"}
  BY DEF StatusAfter, Objects
<1>2. h \in Nat /\ t \in Nat /\ c \in Nat /\ w \in Nat
  BY TrackerAssumption DEF Objects, RowAfter
<1>3. b \in BOOLEAN
  OBVIOUS
<1>4. /\ o.status = "confirmed" => s = "confirmed"
      /\ Steady(o, clock) => IF s = "confirmed" THEN w = HitThresh + 1
                             ELSE w = h /\ h <= HitThresh
  <2>1. o.hits \in Nat /\ o.row \in Nat /\ o.status \in {"unconfirmed", "confirmed"}
    BY DEF Objects
  <2>2. QED
    BY <2>1, TrackerAssumption DEF StatusAfter, RowAfter, Steady
<1>5. u = UpdateMatchedObjectStatus(o, d, f)
  BY DEF UpdateMatchedObjectStatus
<1> HIDE DEF s, h, t, b, c, w
<1>6. u \in Objects
  BY <1>1, <1>2, <1>3 DEF Objects
<1>7. /\ u.id = o.id /\ u.cur /\ u.hits = h /\ u.status = s /\ u.seen = c
      /\ u.body = f /\ u.row = w
  BY <1>1, <1>2, <1>3 DEF Objects
<1> HIDE DEF u
<1> QED
  BY <1>1, <1>4, <1>5, <1>6, <1>7 DEF c, Steady

(* IOUMatch and FeatureMatch return partial matchings.                     *)
LEMMA MatchingTypes ==
  ASSUME NEW S, NEW D, NEW m \in IOUMatch(S, D) \cup FeatureMatch(S, D)
  PROVE  /\ m \in SUBSET (S \X D)
         /\ \A p, q \in m : p[1] = q[1] \/ p[2] = q[2] => p = q
<1>1. CASE m \in IOUMatch(S, D)
  BY <1>1 DEF IOUMatch, Matchings
<1>2. CASE m \in FeatureMatch(S, D)
  BY <1>2 DEF FeatureMatch, Matchings
<1> QED
  BY <1>1, <1>2

(* A partial matching of objects and detections gives each object at most  *)
(* one detection, so that the objects it updates keep ids of their own.    *)
LEMMA RematchKeepsIds ==
  ASSUME NEW S \in SUBSET Objects, DistinctIds(S),
         NEW D, \A d \in D : IsDetection(d),
         NEW m \in IOUMatch(S, D) \cup FeatureMatch(S, D),
         NEW f \in Nat, clock' \in Nat
  PROVE  /\ Rematched(S, m, f) \in SUBSET Objects
         /\ DistinctIds(Rematched(S, m, f))
         /\ \A r \in Rematched(S, m, f) : \E o \in S : o.id = r.id
         /\ \A r \in Matched(m, f) : r.cur /\ r.seen = clock' /\ r.body = f
         /\ (\A o \in S : ~o.cur => Steady(o, clock)) =>
              \A r \in Matched(m, f) : Steady(r, clock')
         /\ (\A o \in S : o.status = "confirmed") => \A r \in Matched(m, f) : r.status = "confirmed"
<1>0. m \in SUBSET (S \X D) /\ \A p, q \in m : p[1] = q[1] \/ p[2] = q[2] => p = q
  BY MatchingTypes
<1>1. ASSUME NEW r \in Matched(m, f)
      PROVE  \E p \in m : /\ r = UpdateMatchedObjectStatus(p[1], p[2], f)
                          /\ p[1] \in S /\ IsDetection(p[2])
                          /\ r \in Objects /\ r.id = p[1].id
                          /\ r.cur /\ r.seen = clock' /\ r.body = f
                          /\ p[1].status = "confirmed" => r.status = "confirmed"
                          /\ ~p[1].cur
                          /\ Steady(p[1], clock) => Steady(r, clock')
  <2>1. PICK p \in m : r = UpdateMatchedObjectStatus(p[1], p[2], f)
    BY DEF Matched
  <2>2. p[1] \in S /\ p[2] \in D
    BY <1>0
  <2>3. p[1] \in Objects /\ IsDetection(p[2])
    BY <2>2
  <2>4. /\ r \in Objects /\ r.id = p[1].id
        /\ r.cur /\ r.seen = clock' /\ r.body = f
        /\ p[1].status = "confirmed" => r.status = "confirmed"
        /\ Steady(p[1], clock) => Steady(r, clock')
    <3>1. ASSUME NEW o \in Objects, NEW d, IsDetection(d), r = UpdateMatchedObjectStatus(o, d, f)
          PROVE  /\ r \in Objects /\ r.id = o.id
                 /\ r.cur /\ r.seen = clock' /\ r.body = f
                 /\ o.status = "confirmed" => r.status = "confirmed"
                 /\ Steady(o, clock) => Steady(r, clock')
      BY <3>1, Updated
    <3> QED
      BY <2>1, <2>3, <3>1
  <2>5. ~p[1].cur
    BY DEF IOUMatch, FeatureMatch, Matchings
  <2> QED
    BY <2>1, <2>2, <2>3, <2>4, <2>5, Zenon
<1>2. Untouched(S, m) \subseteq S
  BY DEF Untouched
<1>3. ASSUME NEW r \in Matched(m, f) \cup Untouched(S, m),
             NEW s \in Matched(m, f) \cup Untouched(S, m), r.id = s.id
      PROVE  r = s
  <2>1. CASE r \in Untouched(S, m) /\ s \in Untouched(S, m)
    BY <1>2, <1>3, <2>1 DEF DistinctIds
  <2>2. CASE r \in Matched(m, f) /\ s \in Untouched(S, m)
    <3>1. PICK p \in m : p[1] \in S /\ r.id = p[1].id
      BY <1>1, <2>2
    <3>2. p[1] = s
      BY <1>2, <1>3, <2>2, <3>1 DEF DistinctIds
    <3> QED
      BY <2>2, <3>2 DEF Untouched
  <2>3. CASE r \in Untouched(S, m) /\ s \in Matched(m, f)
    <3>1. PICK p \in m : p[1] \in S /\ s.id = p[1].id
      BY <1>1, <2>3
    <3>2. p[1] = r
      BY <1>2, <1>3, <2>3, <3>1 DEF DistinctIds
    <3> QED
      BY <2>3, <3>2 DEF Untouched
  <2>4. CASE r \in Matched(m, f) /\ s \in Matched(m, f)
    <3>1. PICK p \in m : p[1] \in S /\ r.id = p[1].id
                         /\ r = UpdateMatchedObjectStatus(p[1], p[2], f)
      BY <1>1, <2>4
    <3>2. PICK q \in m : q[1] \in S /\ s.id = q[1].id
                         /\ s = UpdateMatchedObjectStatus(q[1], q[2], f)
      BY <1>1, <2>4
    <3>3. p[1] = q[1]
      BY <1>3, <3>1, <3>2 DEF DistinctIds
    <3>4. p = q
      BY <1>0, <3>3
    <3> QED
      BY <3>1, <3>2, <3>4
  <2> QED
    BY <2>1, <2>2, <2>3, <2>4
<1>4. DistinctIds(Matched(m, f) \cup Untouched(S, m))
  BY <1>3 DEF DistinctIds
<1>5. Matched(m, f) \cup Untouched(S, m) \in SUBSET Objects
  BY <1>1, <1>2
<1>6. \A r \in Matched(m, f) \cup Untouched(S, m) : \E o \in S : o.id = r.id
  BY <1>1, <1>2
<1>7. \A r \in Matched(m, f) :
        /\ r.cur /\ r.seen = clock' /\ r.body = f
        /\ (\A o \in S : ~o.cur => Steady(o, clock)) => Steady(r, clock')
        /\ (\A o \in S : o.status = "confirmed") => r.status = "confirmed"
  BY <1>1
<1> QED
  BY <1>4, <1>5, <1>6, <1>7 DEF Rematched

(* A partial matching takes one detection for each object it updates, and  *)
(* never an object that has one already.                                   *)
LEMMA MatchCounts ==
  ASSUME NEW S \in SUBSET Objects, DistinctIds(S),
         NEW D, IsFiniteSet(D), \A d \in D : IsDetection(d),
         NEW m \in IOUMatch(S, D) \cup FeatureMatch(S, D),
         NEW f \in Nat, clock' \in Nat
  PROVE  /\ IsFiniteSet(Matched(m, f)) /\ IsFiniteSet(LeftOver(D, m))
         /\ Cardinality(Matched(m, f)) + Cardinality(LeftOver(D, m)) = Cardinality(D)
         /\ Matched(m, f) \cap Untouched(S, m) = {}
         /\ \A o \in S : o.cur => o \in Untouched(S, m)
<1>1. m \in SUBSET (S \X D) /\ \A p, q \in m : p[1] = q[1] \/ p[2] = q[2] => p = q
  BY MatchingTypes
<1> DEFINE U(p) == UpdateMatchedObjectStatus(p[1], p[2], f)
           T == {p[2] : p \in m}
<1>2. \A p \in m : U(p).id = p[1].id /\ p[1] \in S /\ p[2] \in D
  <2> SUFFICES ASSUME NEW p \in m PROVE U(p).id = p[1].id /\ p[1] \in S /\ p[2] \in D
    OBVIOUS
  <2>1. p[1] \in S /\ p[1] \in Objects /\ p[2] \in D /\ IsDetection(p[2])
    BY <1>1
  <2>2. QED
    BY <2>1, Updated
<1>3. IsFiniteSet(T) /\ IsFiniteSet(D \ T)
      /\ Cardinality(D \ T) = Cardinality(D) - Cardinality(T)
  <2>1. T \in SUBSET D /\ D \cap T = T
    BY <1>1
  <2> HIDE DEF T
  <2>2. IsFiniteSet(T)
    BY <2>1, FS_Subset
  <2>3. IsFiniteSet(D \ T) /\ Cardinality(D \ T) = Cardinality(D) - Cardinality(D \cap T)
    BY FS_Difference
  <2>4. QED
    BY <2>1, <2>2, <2>3
<1>4. [p \in m |-> p[2]] \in Injection(m, T) /\ [p \in m |-> p[2]] \in Surjection(m, T)
  BY <1>1 DEF Injection, IsInjective, Surjection
<1>5. IsFiniteSet(m) /\ Cardinality(m) = Cardinality(T)
  BY <1>3, <1>4, FS_Injection
<1>6. \A p, q \in m : U(p) = U(q) => p = q
  BY <1>1, <1>2 DEF DistinctIds
<1>7. Matched(m, f) = {U(p) : p \in m}
  BY DEF Matched
<1> HIDE DEF U
<1>8. /\ [p \in m |-> U(p)] \in Injection(m, Matched(m, f))
      /\ [p \in m |-> U(p)] \in Surjection(m, Matched(m, f))
  BY <1>6, <1>7 DEF Injection, IsInjective, Surjection
<1>9. IsFiniteSet(Matched(m, f)) /\ Cardinality(Matched(m, f)) = Cardinality(m)
  BY <1>5, <1>8, FS_Surjection
<1>10. LeftOver(D, m) = D \ T
  BY DEF LeftOver
<1>11. Matched(m, f) \cap Untouched(S, m) = {}
  BY <1>1, <1>2, <1>7 DEF Untouched, DistinctIds
<1>12. \A o \in S : o.cur => o \in Untouched(S, m)
  <2>1. \A p \in m : ~p[1].cur
    BY DEF IOUMatch, FeatureMatch, Matchings
  <2>2. QED
    BY <2>1 DEF Untouched
<1>13. Cardinality(D) \in Nat /\ Cardinality(T) \in Nat
  BY <1>3, FS_CardinalityType
<1>14. QED
  BY <1>3, <1>5, <1>9, <1>10, <1>11, <1>12, <1>13

(* ... so that after a matching the objects with a detection and the       *)
(* detections that are left over are as many as before.                    *)
LEMMA RematchCounts ==
  ASSUME NEW S \in SUBSET Objects, DistinctIds(S), IsFiniteSet({o \in S : o.cur}),
         NEW D, IsFiniteSet(D), \A d \in D : IsDetection(d),
         NEW m \in IOUMatch(S, D) \cup FeatureMatch(S, D),
         NEW f \in Nat, clock' \in Nat
  PROVE  LET R == Rematched(S, m, f) IN
           /\ IsFiniteSet({o \in R : o.cur})
           /\ Cardinality({o \in R : o.cur}) + Cardinality(LeftOver(D, m)) =
                Cardinality({o \in S : o.cur}) + Cardinality(D)
<1> DEFINE R == Rematched(S, m, f)
           C == {o \in S : o.cur}
           M == Matched(m, f)
<1>1. /\ IsFiniteSet(M) /\ IsFiniteSet(LeftOver(D, m))
      /\ Cardinality(M) + Cardinality(LeftOver(D, m)) = Cardinality(D)
      /\ M \cap Untouched(S, m) = {}
      /\ \A o \in S : o.cur => o \in Untouched(S, m)
  BY MatchCounts
<1>2. \A r \in M : r.cur
  BY RematchKeepsIds
<1>3. {o \in R : o.cur} = C \cup M /\ C \cap M = {}
  BY <1>1, <1>2 DEF Rematched, Untouched
<1>4. IsFiniteSet(C \cup M) /\ Cardinality(C \cup M) = Cardinality(C) + Cardinality(M)
  <2>1. /\ IsFiniteSet(C \cup M)
        /\ Cardinality(C \cup M) = Cardinality(C) + Cardinality(M) - Cardinality(C \cap M)
    BY <1>1, FS_Union
  <2>2. Cardinality(C \cap M) = 0 /\ Cardinality(C) \in Nat /\ Cardinality(M) \in Nat
    BY <1>1, <1>3, FS_EmptySet, FS_CardinalityType
  <2>3. QED
    BY <2>1, <2>2
<1>5. /\ Cardinality(C) \in Nat /\ Cardinality(M) \in Nat
      /\ Cardinality(LeftOver(D, m)) \in Nat
  BY <1>1, FS_CardinalityType
<1> DEFINE C2 == {o \in R : o.cur}
           L == LeftOver(D, m)
<1>6. C2 = C \cup M /\ IsFiniteSet(L) /\ Cardinality(M) + Cardinality(L) = Cardinality(D)
      /\ Cardinality(L) \in Nat
  BY <1>1, <1>3, <1>5
<1> HIDE DEF R, C, M, C2, L
<1>7. IsFiniteSet(C2) /\ Cardinality(C2) + Cardinality(L) = Cardinality(C) + Cardinality(D)
  BY <1>4, <1>5, <1>6
<1>8. QED
  BY <1>7 DEF R, C, C2, L
-----------------------------------------------------------------------------
(* The detections of a frame are finitely many, each with a number.        *)
LEMMA DetectionTypes ==
  ASSUME NEW D \in Detections
  PROVE  /\ IsFiniteSet(D)
         /\ \A d \in D : IsDetection(d)
         /\ \A d, e \in D : d.box = e.box => d = e
<1> DEFINE Flags(n) == [1 .. n -> IF Reid THEN BOOLEAN ELSE {FALSE}]
           Shown(n, b) == {[box |-> k, big |-> b[k]] : k \in 1 .. n}
<1>1. Detections = UNION {{Shown(n, b) : b \in Flags(n)} : n \in 0 .. MaxDetections}
  BY DEF Detections
<1> HIDE DEF Flags, Shown
<1>2. PICK n \in 0 .. MaxDetections : \E b : D = Shown(n, b)
  BY <1>1, Zenon
<1>3. PICK b : D = Shown(n, b)
  BY <1>2
<1> USE DEF Shown
<1>4. n \in Nat
  BY TrackerAssumption
<1>5. \A d \in D : d.box \in 1 .. n
  BY <1>3
<1>6. \A d, e \in D : d.box = e.box => d = e
  BY <1>3
<1>7. [d \in D |-> d.box] \in Injection(D, 1 .. n)
  BY <1>5, <1>6 DEF Injection, IsInjective
<1>8. IsFiniteSet(1 .. n)
  BY <1>4, FS_Interval
<1>9. IsFiniteSet(D)
  BY <1>7, <1>8, FS_Injection
<1> QED
  BY <1>4, <1>5, <1>6, <1>9 DEF IsDetection

(* AddUnMatchedCurDetectedObjects gives the new objects ids from global_id *)
(* on, each another.                                                       *)
LEMMA NewIds ==
  ASSUME NEW D, IsFiniteSet(D), \A d \in D : IsDetection(d),
         \A d, e \in D : d.box = e.box => d = e, global_id \in Nat
  PROVE  /\ \A d \in D : NewId(d, D) \in global_id .. global_id + Cardinality(D) - 1
         /\ \A d, e \in D : NewId(d, D) = NewId(e, D) => d = e
<1> DEFINE Before(d) == {e \in D : e.box < d.box}
<1>1. ASSUME NEW d \in D
      PROVE  IsFiniteSet(Before(d)) /\ Cardinality(Before(d)) \in Nat /\ d \notin Before(d)
  <2>1. IsFiniteSet(Before(d))
    BY FS_Subset
  <2>2. Cardinality(Before(d)) \in Nat
    BY <2>1, FS_CardinalityType
  <2> QED
    BY <2>1, <2>2 DEF IsDetection
<1>2. ASSUME NEW d \in D, NEW T \in SUBSET D, d \in T, Before(d) \subseteq T
      PROVE  Cardinality(Before(d)) + 1 <= Cardinality(T)
  <2>1. IsFiniteSet(T)
    BY FS_Subset
  <2>2. Before(d) \cup {d} \in SUBSET T
    BY <1>2
  <2>3. Cardinality(Before(d) \cup {d}) <= Cardinality(T)
    BY <2>1, <2>2, FS_Subset
  <2>4. Cardinality(Before(d) \cup {d}) = Cardinality(Before(d)) + 1
    BY <1>1, FS_AddElement
  <2> QED
    BY <2>3, <2>4
<1>3. Cardinality(D) \in Nat
  BY FS_CardinalityType
<1>4. ASSUME NEW d \in D
      PROVE  NewId(d, D) \in global_id .. global_id + Cardinality(D) - 1
  <2>1. Cardinality(Before(d)) + 1 <= Cardinality(D)
    BY <1>2
  <2>2. NewId(d, D) = global_id + Cardinality(Before(d))
    BY DEF NewId
  <2> HIDE DEF Before
  <2> QED
    BY <1>1, <1>3, <2>1, <2>2
<1>5. ASSUME NEW d \in D, NEW e \in D, d.box < e.box
      PROVE  NewId(d, D) # NewId(e, D)
  <2>1. Before(d) \subseteq Before(e) /\ d \in Before(e)
    BY <1>5 DEF IsDetection
  <2>2. Cardinality(Before(d)) + 1 <= Cardinality(Before(e))
    BY <1>2, <2>1
  <2>3. /\ NewId(d, D) = global_id + Cardinality(Before(d))
        /\ NewId(e, D) = global_id + Cardinality(Before(e))
    BY DEF NewId
  <2> HIDE DEF Before
  <2> QED
    BY <1>1, <2>2, <2>3
<1>6. ASSUME NEW d \in D, NEW e \in D, NewId(d, D) = NewId(e, D)
      PROVE  d = e
  <2>1. d.box \in Nat /\ e.box \in Nat
    BY DEF IsDetection
  <2>2. ~(d.box < e.box) /\ ~(e.box < d.box)
    BY <1>5, <1>6
  <2>3. d.box = e.box
    BY <2>1, <2>2
  <2> QED
    BY <2>3
<1> QED
  BY <1>4, <1>6
-----------------------------------------------------------------------------
(* A frame begins with every flag reset, nothing else changed.             *)
LEMMA FlagsCleared ==
  ASSUME NEW S \in SUBSET Objects, DistinctIds(S)
  PROVE  /\ ClearFlags(S) \in SUBSET Objects
         /\ DistinctIds(ClearFlags(S))
         /\ \A r \in ClearFlags(S) : ~r.cur /\ \E o \in S : o.id = r.id
         /\ (\A o \in S : Steady(o, clock)) => \A r \in ClearFlags(S) : Steady(r, clock)
<1>1. ASSUME NEW o \in Objects
      PROVE  LET r == [o EXCEPT !.cur = FALSE] IN
               /\ r \in Objects /\ r.id = o.id /\ ~r.cur
               /\ Steady(o, clock) => Steady(r, clock)
  BY DEF Objects, Steady
<1>2. ASSUME NEW r \in ClearFlags(S)
      PROVE  \E o \in S : /\ r = [o EXCEPT !.cur = FALSE] /\ o.id = r.id
                          /\ r \in Objects /\ ~r.cur
                          /\ Steady(o, clock) => Steady(r, clock)
  <2>1. PICK o \in S : r = [o EXCEPT !.cur = FALSE]
    BY DEF ClearFlags
  <2> QED
    BY <1>1, <2>1
<1>3. ASSUME NEW r \in ClearFlags(S), NEW s \in ClearFlags(S), r.id = s.id
      PROVE  r = s
  <2>1. PICK o \in S : r = [o EXCEPT !.cur = FALSE] /\ o.id = r.id
    BY <1>2
  <2>2. PICK p \in S : s = [p EXCEPT !.cur = FALSE] /\ p.id = s.id
    BY <1>2
  <2>3. o = p
    BY <1>3, <2>1, <2>2 DEF DistinctIds
  <2> QED
    BY <2>1, <2>2, <2>3
<1> QED
  BY <1>2, <1>3 DEF DistinctIds

LEMMA InitIInv == Init => IInv
<1> SUFFICES ASSUME Init PROVE IInv
  OBVIOUS
<1> QED
  BY TrackerAssumption
  DEF Init, IInv, TypeOK, FramesBehind, IdsUnique, ExpiredAbsent, ConfirmedWhenSteady

(* The second half of a frame: whoever stays, expires, comes back or is    *)
(* new has an id of his own, and only what was seen just now is kept       *)
(* without being confirmed.                                                *)
LEMMA SettleKeepsIds ==
  ASSUME IInv, NEW f \in Nat, clock' \in Nat,
         NEW S \in SUBSET Objects, DistinctIds(S),
         \A o \in S : \E p \in tracked : p.id = o.id,
         \A o \in S : o.cur => o.seen = clock' /\ Steady(o, clock'),
         \A o \in S : ~o.cur => Steady(o, clock),
         NEW D, IsFiniteSet(D), \A d \in D : IsDetection(d),
         \A d, e \in D : d.box = e.box => d = e,
         Settle(S, D, f)
  PROVE  /\ tracked' \subseteq Objects /\ expired' \subseteq Objects
         /\ global_id' \in Nat /\ left' \subseteq Nat
         /\ IdsUnique' /\ ExpiredAbsent' /\ ConfirmedWhenSteady'
<1> USE TrackerAssumption
<1> DEFINE gone == expired \cup {o \in S : BecomesExpired(o, f)}
           stay == {o \in S : StaysTracked(o, f)}
<1>0. PICK m \in FeatureMatch(gone, D) :
        \E junk \in [LeftOver(D, m) -> Garbage] :
          /\ tracked' = stay \cup Matched(m, f)
               \cup {NewObject(d, NewId(d, LeftOver(D, m)), f, junk[d]) : d \in LeftOver(D, m)}
          /\ expired' = Untouched(gone, m) \ Deleted(Untouched(gone, m), f)
          /\ left' = left \cup {o.id : o \in {e \in Deleted(Untouched(gone, m), f) : CheckValidLeave(e)}}
          /\ global_id' = global_id + Cardinality(LeftOver(D, m))
  BY DEF Settle, Forget
<1> DEFINE new == LeftOver(D, m)
           still == Untouched(gone, m)
           back == Matched(m, f)
<1>1. PICK junk \in [new -> Garbage] :
        /\ tracked' = stay \cup back \cup {NewObject(d, NewId(d, new), f, junk[d]) : d \in new}
        /\ expired' = still \ Deleted(still, f)
        /\ left' = left \cup {o.id : o \in {e \in Deleted(still, f) : CheckValidLeave(e)}}
        /\ global_id' = global_id + Cardinality(new)
  BY <1>0
<1> DEFINE entered == {NewObject(d, NewId(d, new), f, junk[d]) : d \in new}
<1>2. /\ gone \in SUBSET Objects
      /\ \A o \in gone : o.status = "confirmed" /\ ~o.cur /\ Steady(o, clock)
      /\ stay \cap {o \in S : BecomesExpired(o, f)} = {}
  BY DEF IInv, TypeOK, ExpiredAbsent, ConfirmedWhenSteady, BecomesExpired, StaysTracked
<1>3. /\ DistinctIds(gone)
      /\ \A o \in gone : o.id < global_id /\ o.id \notin left
      /\ \A o \in stay : o.id < global_id /\ o.id \notin left
      /\ \A o \in stay, p \in gone : o.id # p.id
  <2>1. \A o \in S, p \in expired : o.id # p.id
    BY DEF IInv, IdsUnique
  <2>2. \A o \in S : o.id < global_id /\ o.id \notin left
    BY DEF IInv, IdsUnique
  <2>3. \A o, p \in expired : o.id = p.id => o = p
    BY DEF IInv, IdsUnique
  <2>4. \A o \in expired : o.id < global_id /\ o.id \notin left
    BY DEF IInv, IdsUnique
  <2> QED
    BY <1>2, <2>1, <2>2, <2>3, <2>4 DEF DistinctIds
<1>4. m \in IOUMatch(gone, D) \cup FeatureMatch(gone, D)
  OBVIOUS
<1>5. /\ back \cup still \in SUBSET Objects
      /\ DistinctIds(back \cup still)
      /\ \A r \in back \cup still : \E o \in gone : o.id = r.id
      /\ \A r \in back : r.seen = clock' /\ r.cur /\ r.status = "confirmed" /\ Steady(r, clock')
      /\ \A r \in still : r \in gone
  <2> HIDE DEF gone
  <2>1. \A r \in still : r \in gone
    BY DEF Untouched
  <2>2. Rematched(gone, m, f) = back \cup still
    BY DEF Rematched
  <2> HIDE DEF still, back
  <2>3. /\ Rematched(gone, m, f) \in SUBSET Objects
        /\ DistinctIds(Rematched(gone, m, f))
        /\ \A r \in Rematched(gone, m, f) : \E o \in gone : o.id = r.id
    BY <1>2, <1>3, <1>4, RematchKeepsIds
  <2>4. \A r \in Matched(m, f) :
          r.seen = clock' /\ r.cur /\ r.status = "confirmed" /\ Steady(r, clock')
    BY <1>2, <1>3, <1>4, RematchKeepsIds
  <2> QED
    BY <2>1, <2>2, <2>3, <2>4 DEF back
<1>6. /\ IsFiniteSet(new)
      /\ \A d \in new : IsDetection(d)
      /\ \A d, e \in new : d.box = e.box => d = e
  <2>1. new \in SUBSET D
    BY DEF LeftOver
  <2> QED
    BY <2>1, FS_Subset
<1>7. Cardinality(new) \in Nat /\ global_id \in Nat
  BY <1>6, FS_CardinalityType DEF IInv, TypeOK
<1>8. /\ \A d \in new : NewId(d, new) \in global_id .. global_id + Cardinality(new) - 1
      /\ \A d, e \in new : NewId(d, new) = NewId(e, new) => d = e
  <2> HIDE DEF new
  <2> QED
    BY <1>6, <1>7, NewIds
<1>9. ASSUME NEW r \in entered
      PROVE  \E d \in new : /\ r.id = NewId(d, new) /\ r \in Objects
                            /\ r = NewObject(d, NewId(d, new), f, junk[d])
                            /\ r.cur /\ r.seen = clock' /\ Steady(r, clock')
  <2>1. PICK d \in new : r = NewObject(d, NewId(d, new), f, junk[d])
    OBVIOUS
  <2>2. junk[d] \in 0 .. Width - 1
    BY <1>1, <2>1
  <2>3. NewId(d, new) \in Nat
    BY <1>7, <1>8
  <2> HIDE DEF new
  <2> QED
    BY <2>1, <2>2, <2>3 DEF NewObject, Objects, Steady
<1>10. \A r \in entered : global_id <= r.id /\ r.id < global_id'
  BY <1>1, <1>7, <1>8, <1>9
<1>11. /\ \A r \in back \cup still : r.id < global_id /\ r.id \notin left
       /\ \A r \in back \cup still, s \in stay : r.id # s.id
  <2>1. \A r \in back \cup still : \E o \in gone : o.id = r.id
    BY <1>5
  <2> HIDE DEF back, still, gone, stay
  <2> QED
    BY <1>3, <2>1
<1>12. tracked' = stay \cup back \cup entered /\ expired' \subseteq still
  BY <1>1
<1>13. \A i \in left' : i \in left \/ \E e \in still \ expired' : e.id = i
  BY <1>1 DEF Deleted
<1>14. \A i \in left : i \in Nat /\ i < global_id
  BY DEF IInv, TypeOK, IdsUnique
<1> HIDE DEF gone, stay, new, entered, still, back
<1>15. tracked' \subseteq Objects /\ expired' \subseteq Objects
  BY <1>5, <1>9, <1>12 DEF stay
<1>16. global_id' \in Nat /\ global_id <= global_id'
  BY <1>1, <1>7 DEF new
<1>17. left' \subseteq Nat
  BY <1>5, <1>13, <1>14 DEF Objects
<1>18. ASSUME NEW r \in tracked' \cup expired', NEW s \in tracked' \cup expired', r.id = s.id
       PROVE  r = s
  <2>1. r \in stay \cup (back \cup still) \cup entered /\ s \in stay \cup (back \cup still) \cup entered
    BY <1>12
  <2>2. /\ r \in entered <=> global_id <= r.id
        /\ s \in entered <=> global_id <= s.id
    <3>1. \A x \in stay \cup (back \cup still) : x.id < global_id /\ x \in Objects
      BY <1>3, <1>5, <1>11 DEF stay
    <3>2. \A x \in stay \cup (back \cup still) : ~(global_id <= x.id)
      BY <1>7, <3>1 DEF Objects
    <3> QED
      BY <1>10, <2>1, <3>2
  <2>3. CASE r \in entered /\ s \in entered
    BY <1>8, <1>9, <1>18, <2>3
  <2>4. CASE r \notin entered /\ s \notin entered
    <3>1. CASE r \in stay /\ s \in stay
      BY <1>18, <3>1 DEF stay, DistinctIds
    <3>2. CASE r \in back \cup still /\ s \in back \cup still
      BY <1>5, <1>18, <3>2 DEF DistinctIds
    <3> QED
      BY <1>11, <1>18, <2>1, <2>4, <3>1, <3>2
  <2> QED
    BY <1>18, <2>2, <2>3, <2>4
<1>19. tracked' \cap expired' = {}
  <2>1. \A s \in still : ~s.cur
    BY <1>2, <1>5
  <2>2. \A r \in back \cup entered : r.cur
    BY <1>5, <1>9
  <2> QED
    BY <1>11, <1>12, <2>1, <2>2
<1>20. \A r \in tracked' \cup expired' : r.id < global_id' /\ r.id \notin left'
  <2>1. ASSUME NEW r \in stay \cup back \cup still
        PROVE  r.id < global_id /\ r.id < global_id' /\ r.id \notin left
    <3>1. r.id < global_id /\ r.id \notin left /\ r \in Objects
      BY <1>3, <1>5, <1>11 DEF stay
    <3> QED
      BY <1>7, <1>16, <3>1 DEF Objects
  <2>2. ASSUME NEW r \in entered
        PROVE  r.id < global_id' /\ r.id \notin left /\ \A e \in still : e.id # r.id
    <3>1. r.id \in Nat /\ global_id <= r.id /\ r.id < global_id'
      BY <1>9, <1>10 DEF Objects
    <3>2. ~(r.id < global_id)
      BY <1>7, <3>1
    <3> QED
      BY <1>11, <1>14, <3>1, <3>2
  <2>3. ASSUME NEW r \in tracked' \cup expired', NEW e \in still \ expired'
        PROVE  e.id # r.id
    <3>1. CASE r \in entered
      BY <2>2, <3>1
    <3>2. CASE r \in stay
      BY <1>11, <3>2
    <3>3. CASE r \in back \cup expired'
      <4>1. r # e
        BY <1>2, <1>5, <1>12, <3>3
      <4>2. r \in back \cup still /\ e \in back \cup still
        BY <1>12, <3>3
      <4> QED
        BY <1>5, <4>1, <4>2 DEF DistinctIds
    <3> QED
      BY <1>12, <3>1, <3>2, <3>3
  <2> QED
    BY <1>12, <1>13, <2>1, <2>2, <2>3
<1>21. \A i \in left' : i < global_id'
  <2>1. ASSUME NEW i \in left'
        PROVE  i \in Nat /\ i < global_id
    BY <1>5, <1>11, <1>13, <1>14 DEF Objects
  <2> QED
    BY <1>7, <1>16, <2>1
<1>22. IdsUnique'
  BY <1>18, <1>19, <1>20, <1>21 DEF IdsUnique
<1>23. ExpiredAbsent'
  BY <1>2, <1>5, <1>12 DEF ExpiredAbsent
<1>24. ConfirmedWhenSteady'
  <2>1. \A r \in stay : Steady(r, clock')
    <3>1. ASSUME NEW r \in stay PROVE Steady(r, clock')
      BY <3>1 DEF stay, StaysTracked, Steady
    <3> QED
      BY <3>1
  <2>2. \A r \in entered : Steady(r, clock')
    BY <1>9
  <2>3. \A r \in back : Steady(r, clock')
    BY <1>5
  <2>4. \A r \in still : Steady(r, clock')
    BY <1>2, <1>5 DEF Steady
  <2> QED
    BY <1>12, <2>1, <2>2, <2>3, <2>4 DEF ConfirmedWhenSteady
<1> QED
  BY <1>15, <1>16, <1>17, <1>22, <1>23, <1>24

(* A part of the detections is as good as all.                             *)
LEMMA LeftOverTypes ==
  ASSUME NEW D, IsFiniteSet(D), \A d \in D : IsDetection(d),
         \A d, e \in D : d.box = e.box => d = e, NEW m
  PROVE  /\ IsFiniteSet(LeftOver(D, m))
         /\ \A d \in LeftOver(D, m) : IsDetection(d)
         /\ \A d, e \in LeftOver(D, m) : d.box = e.box => d = e
<1>1. LeftOver(D, m) \in SUBSET D
  BY DEF LeftOver
<1> QED
  BY <1>1, FS_Subset

(* What matching makes of the tracked objects S and the detections R that  *)
(* are left of the detections D of frame f: a seen object carries the      *)
(* frame, an unseen one is as before but for the flag, and seen objects    *)
(* and detections left over are as many as the detections.                 *)
Ready(S, R, f, D) ==
  /\ S \in SUBSET Objects /\ DistinctIds(S)
  /\ \A o \in S : \E p \in tracked : p.id = o.id
  /\ \A o \in S : o.cur => o.seen = clock' /\ o.body = f /\ Steady(o, clock')
  /\ \A o \in S : ~o.cur => o \in ClearFlags(tracked) /\ Steady(o, clock)
  /\ IsFiniteSet(R) /\ \A d \in R : IsDetection(d)
  /\ \A d, e \in R : d.box = e.box => d = e
  /\ IsFiniteSet({o \in S : o.cur})
  /\ Cardinality({o \in S : o.cur}) + Cardinality(R) = Cardinality(D)

(* One matching of what is ready leaves it ready.                          *)
LEMMA RematchReady ==
  ASSUME NEW S, NEW R, NEW f \in Nat, NEW D, clock' \in Nat, Ready(S, R, f, D),
         NEW m \in IOUMatch(S, R) \cup FeatureMatch(S, R)
  PROVE  Ready(Rematched(S, m, f), LeftOver(R, m), f, D)
<1> DEFINE S2 == Rematched(S, m, f)
           R2 == LeftOver(R, m)
<1>1. /\ S2 \in SUBSET Objects /\ DistinctIds(S2)
      /\ \A r \in S2 : \E o \in S : o.id = r.id
      /\ \A r \in Matched(m, f) : r.cur /\ r.seen = clock' /\ r.body = f /\ Steady(r, clock')
  BY RematchKeepsIds DEF Ready
<1>2. \A r \in S2 : r \in Matched(m, f) \/ r \in S
  BY DEF Rematched, Untouched
<1>3. /\ IsFiniteSet({o \in S2 : o.cur})
      /\ Cardinality({o \in S2 : o.cur}) + Cardinality(R2) =
           Cardinality({o \in S : o.cur}) + Cardinality(R)
  BY RematchCounts DEF Ready
<1>4. /\ IsFiniteSet(R2) /\ \A d \in R2 : IsDetection(d)
      /\ \A d, e \in R2 : d.box = e.box => d = e
  BY LeftOverTypes DEF Ready
<1> HIDE DEF S2, R2
<1>5. \A o \in S2 : \E p \in tracked : p.id = o.id
  BY <1>1 DEF Ready
<1>6. \A o \in S2 : o.cur => o.seen = clock' /\ o.body = f /\ Steady(o, clock')
  BY <1>1, <1>2 DEF Ready
<1>7. \A o \in S2 : ~o.cur => o \in ClearFlags(tracked) /\ Steady(o, clock)
  BY <1>1, <1>2 DEF Ready
<1>8. Cardinality({o \in S : o.cur}) + Cardinality(R) = Cardinality(D)
  BY DEF Ready
<1>9. Ready(S2, R2, f, D)
  BY <1>1, <1>3, <1>4, <1>5, <1>6, <1>7, <1>8 DEF Ready
<1> QED
  BY <1>9 DEF S2, R2

(* A frame: the tracked objects are matched twice, then settled.           *)
LEMMA FrameSettles ==
  ASSUME IInv, NEW c \in Cameras, NEW gap \in 1 .. MaxGap, NEW D \in Detections,
         HandleFrame(c, gap, D)
  PROVE  LET f == frame_id[c] + gap IN
           /\ clock' = clock + gap /\ clock' \in 0 .. MaxFrame
           /\ f \in 0 .. MaxFrame /\ f \in Nat
           /\ frame_id' = [frame_id EXCEPT ![c] = f]
           /\ \A k \in Cameras : frame_id'[k] <= clock'
           /\ \E S, R : Ready(S, R, f, D) /\ Settle(S, R, f)
<1> USE TrackerAssumption
<1> DEFINE f == frame_id[c] + gap
           start == ClearFlags(tracked)
<1>1. /\ clock' \in 0 .. MaxFrame /\ clock' = clock + gap
      /\ f \in 0 .. MaxFrame /\ f \in Nat
      /\ frame_id' = [frame_id EXCEPT ![c] = f]
      /\ \A k \in Cameras : frame_id'[k] <= clock'
  BY DEF HandleFrame, IInv, TypeOK, FramesBehind
<1>2. /\ IsFiniteSet(D)
      /\ \A d \in D : IsDetection(d)
      /\ \A d, e \in D : d.box = e.box => d = e
  BY DetectionTypes
<1>3. /\ start \in SUBSET Objects
      /\ DistinctIds(start)
      /\ \A r \in start : ~r.cur /\ Steady(r, clock) /\ \E o \in tracked : o.id = r.id
  <2>1. /\ tracked \in SUBSET Objects /\ DistinctIds(tracked)
        /\ \A o \in tracked : Steady(o, clock)
    BY DEF IInv, TypeOK, IdsUnique, DistinctIds, ConfirmedWhenSteady
  <2> QED
    BY <2>1, FlagsCleared
<1>4. Update(D, f)
  BY DEF HandleFrame
<1>5. PICK m1 \in IOUMatch(start, D) :
        \E m2 \in FeatureMatch(Rematched(start, m1, f), LeftOver(D, m1)) :
          Settle(Rematched(Rematched(start, m1, f), m2, f), LeftOver(LeftOver(D, m1), m2), f)
  BY <1>4 DEF Update
<1> DEFINE seen == Rematched(start, m1, f)
           rest == LeftOver(D, m1)
<1>6. PICK m2 \in FeatureMatch(seen, rest) :
        Settle(Rematched(seen, m2, f), LeftOver(rest, m2), f)
  BY <1>5
<1> HIDE DEF f
<1>7. Ready(start, D, f, D)
  <2> HIDE DEF start
  <2>1. {o \in start : o.cur} = {}
    BY <1>3
  <2>2. IsFiniteSet({o \in start : o.cur}) /\ Cardinality({o \in start : o.cur}) = 0
    BY <2>1, FS_EmptySet
  <2>3. Cardinality(D) \in Nat
    BY <1>2, FS_CardinalityType
  <2>4. Cardinality({o \in start : o.cur}) + Cardinality(D) = Cardinality(D)
    BY <2>2, <2>3
  <2> QED
    BY <1>2, <1>3, <2>2, <2>4 DEF Ready, start
<1> HIDE DEF start
<1>8. Ready(seen, rest, f, D)
  BY <1>1, <1>7, RematchReady
<1> HIDE DEF seen, rest
<1>9. Ready(Rematched(seen, m2, f), LeftOver(rest, m2), f, D)
  BY <1>1, <1>6, <1>8, RematchReady
<1> QED
  BY <1>1, <1>6, <1>9 DEF f

(* A frame keeps the invariant.                                            *)
LEMMA HandleFrameIInv ==
  ASSUME IInv, NEW c \in Cameras, NEW gap \in 1 .. MaxGap, NEW D \in Detections,
         HandleFrame(c, gap, D)
  PROVE  IInv'
<1> DEFINE f == frame_id[c] + gap
<1>1. /\ clock' \in 0 .. MaxFrame /\ clock' \in Nat /\ f \in 0 .. MaxFrame /\ f \in Nat
      /\ frame_id' = [frame_id EXCEPT ![c] = f]
      /\ \A k \in Cameras : frame_id'[k] <= clock'
  BY FrameSettles, TrackerAssumption
<1>2. PICK S, R : Ready(S, R, f, D) /\ Settle(S, R, f)
  BY FrameSettles
<1> HIDE DEF f
<1>3. /\ tracked' \subseteq Objects /\ expired' \subseteq Objects
      /\ global_id' \in Nat /\ left' \subseteq Nat
      /\ IdsUnique' /\ ExpiredAbsent' /\ ConfirmedWhenSteady'
  BY <1>1, <1>2, SettleKeepsIds DEF Ready
<1>4. TypeOK'
  <2>1. shown' \in Nat
    BY DetectionTypes, FS_CardinalityType DEF HandleFrame
  <2>2. frame_id' \in [Cameras -> 0 .. MaxFrame]
    BY <1>1 DEF IInv, TypeOK
  <2> QED
    BY <1>1, <1>3, <2>1, <2>2 DEF TypeOK
<1>5. FramesBehind'
  BY <1>1 DEF FramesBehind
<1> QED
  BY <1>3, <1>4, <1>5 DEF IInv

LEMMA StepIInv == IInv /\ [Next]_vars => IInv'
<1> SUFFICES ASSUME IInv, [Next]_vars PROVE IInv'
  OBVIOUS
<1>1. ASSUME NEW c \in Cameras, NEW gap \in 1 .. MaxGap, NEW D \in Detections,
             HandleFrame(c, gap, D)
      PROVE  IInv'
  BY <1>1, HandleFrameIInv
<1>2. ASSUME NEW c \in Cameras, ReopenCamera(c) PROVE IInv'
  BY <1>2, TrackerAssumption
  DEF ReopenCamera, IInv, TypeOK, FramesBehind, IdsUnique, ExpiredAbsent, ConfirmedWhenSteady
<1>3. CASE UNCHANGED vars
  BY <1>3 DEF vars, IInv, TypeOK, FramesBehind, IdsUnique, ExpiredAbsent, ConfirmedWhenSteady
<1> QED
  BY <1>1, <1>2, <1>3 DEF Next
-----------------------------------------------------------------------------
(* COUNTS: every detection is one object.                                  *)

LEMMA SettleCounts ==
  ASSUME IInv, NEW f \in Nat, clock' \in Nat, NEW S, NEW R, NEW D,
         Ready(S, R, f, D), IsFiniteSet(D), Settle(S, R, f)
  PROVE  Cardinality({o \in tracked' : o.cur}) = Cardinality(D)
<1> DEFINE gone == expired \cup {o \in S : BecomesExpired(o, f)}
<1>1. PICK m \in FeatureMatch(gone, R) :
        \E junk \in [LeftOver(R, m) -> Garbage] :
          tracked' = {o \in S : StaysTracked(o, f)} \cup Matched(m, f)
            \cup {NewObject(d, NewId(d, LeftOver(R, m)), f, junk[d]) : d \in LeftOver(R, m)}
  BY DEF Settle
<1> DEFINE new == LeftOver(R, m)
<1>2. PICK junk \in [new -> Garbage] :
        tracked' = {o \in S : StaysTracked(o, f)} \cup Matched(m, f)
          \cup {NewObject(d, NewId(d, new), f, junk[d]) : d \in new}
  BY <1>1
<1> DEFINE C == {o \in S : o.cur}
           B == Matched(m, f)
           N(d) == NewObject(d, NewId(d, new), f, junk[d])
           E == {N(d) : d \in new}
<1>3. gone \in SUBSET Objects /\ DistinctIds(gone)
  BY DEF IInv, TypeOK, IdsUnique, DistinctIds, Ready
<1>4. /\ \A o \in gone : o.id < global_id /\ ~o.cur
      /\ \A o \in S : o.id < global_id
      /\ \A o \in C, p \in gone : o.id # p.id
  BY DEF IInv, IdsUnique, ExpiredAbsent, Ready, DistinctIds, BecomesExpired
<1> HIDE DEF gone
<1>5. /\ IsFiniteSet(B) /\ IsFiniteSet(new)
      /\ Cardinality(B) + Cardinality(new) = Cardinality(R)
  BY <1>3, MatchCounts DEF Ready
<1>6. \A r \in B : r.cur /\ \E p \in gone : p.id = r.id
  <2>1. /\ \A r \in Rematched(gone, m, f) : \E p \in gone : p.id = r.id
        /\ \A r \in Matched(m, f) : r.cur
    BY <1>3, RematchKeepsIds DEF Ready
  <2>2. \A r \in B : r \in Rematched(gone, m, f)
    BY DEF Rematched
  <2> HIDE DEF B
  <2> QED
    BY <2>1, <2>2 DEF B
<1>7. /\ \A d \in new : IsDetection(d)
      /\ \A d, e \in new : d.box = e.box => d = e
  BY LeftOverTypes DEF Ready
<1>8. global_id \in Nat /\ Cardinality(new) \in Nat
  BY <1>5, FS_CardinalityType DEF IInv, TypeOK
<1> HIDE DEF new
<1>9. /\ \A d \in new : NewId(d, new) \in Nat /\ ~(NewId(d, new) < global_id)
      /\ \A d, e \in new : NewId(d, new) = NewId(e, new) => d = e
  BY <1>5, <1>7, <1>8, NewIds
<1>10. \A d \in new : N(d).id = NewId(d, new) /\ N(d).cur
  BY DEF NewObject
<1>11. IsFiniteSet(E) /\ Cardinality(E) = Cardinality(new)
  <2> HIDE DEF N
  <2>1. /\ [d \in new |-> N(d)] \in Injection(new, E)
        /\ [d \in new |-> N(d)] \in Surjection(new, E)
    BY <1>9, <1>10 DEF Injection, IsInjective, Surjection
  <2> QED
    BY <1>5, <2>1, FS_Surjection
<1>12. {o \in tracked' : o.cur} = (C \cup B) \cup E
  BY <1>2, <1>6, <1>10 DEF StaysTracked
<1>13. C \cap B = {} /\ (C \cup B) \cap E = {}
  BY <1>4, <1>6, <1>9, <1>10
<1>14. IsFiniteSet(C) /\ Cardinality(C) + Cardinality(R) = Cardinality(D)
  BY DEF Ready
<1> HIDE DEF C, B, E, N
<1>15. /\ IsFiniteSet(C \cup B)
       /\ Cardinality(C \cup B) = Cardinality(C) + Cardinality(B) - Cardinality(C \cap B)
  BY <1>5, <1>14, FS_Union
<1>16. Cardinality((C \cup B) \cup E) =
         Cardinality(C \cup B) + Cardinality(E) - Cardinality((C \cup B) \cap E)
  BY <1>11, <1>15, FS_Union
<1>17. /\ Cardinality(C) \in Nat /\ Cardinality(B) \in Nat /\ Cardinality({}) = 0
       /\ Cardinality(R) \in Nat
  BY <1>5, <1>14, FS_CardinalityType, FS_EmptySet DEF Ready
<1>18. Cardinality(C \cap B) = 0 /\ Cardinality((C \cup B) \cap E) = 0
  BY <1>13, <1>17
<1>19. Cardinality(B) + Cardinality(E) = Cardinality(R) /\ Cardinality(E) \in Nat
  BY <1>5, <1>8, <1>11 DEF B
<1>20. Cardinality((C \cup B) \cup E) = Cardinality(C) + Cardinality(B) + Cardinality(E)
  BY <1>15, <1>16, <1>17, <1>18, <1>19
<1>21. Cardinality((C \cup B) \cup E) = Cardinality(D)
  BY <1>14, <1>17, <1>19, <1>20
<1> QED
  BY <1>12, <1>21

LEMMA StepCounts == IInv /\ EveryDetectionOnce /\ [Next]_vars => EveryDetectionOnce'
<1> SUFFICES ASSUME IInv, EveryDetectionOnce, [Next]_vars PROVE EveryDetectionOnce'
  OBVIOUS
<1>1. ASSUME NEW c \in Cameras, NEW gap \in 1 .. MaxGap, NEW D \in Detections,
             HandleFrame(c, gap, D)
      PROVE  EveryDetectionOnce'
  <2> DEFINE f == frame_id[c] + gap
  <2>1. clock' \in Nat /\ f \in Nat
    BY <1>1, FrameSettles, TrackerAssumption
  <2>2. PICK S, R : Ready(S, R, f, D) /\ Settle(S, R, f)
    BY <1>1, FrameSettles
  <2> HIDE DEF f
  <2>3. Cardinality({o \in tracked' : o.cur}) = Cardinality(D)
    BY <2>1, <2>2, DetectionTypes, SettleCounts
  <2> QED
    BY <1>1, <2>3 DEF HandleFrame, EveryDetectionOnce
<1>2. CASE UNCHANGED vars \/ \E c \in Cameras : ReopenCamera(c)
  BY <1>2 DEF vars, ReopenCamera, EveryDetectionOnce
<1> QED
  BY <1>1, <1>2 DEF Next
-----------------------------------------------------------------------------
(* TIME: with one steady camera the frame number of an object tells when   *)
(* it was last seen.                                                       *)
Dated ==
  OneSteadyCamera =>
    \A o \in tracked \cup expired : o.body = o.seen /\ o.seen <= clock

(* Frame numbers below Width do not wrap.                                  *)
LEMMA SinceWithin ==
  ASSUME NEW now \in 0 .. MaxFrame, NEW before \in 0 .. now
  PROVE  Since(now, before) = now - before
<1> DEFINE d == now - before
<1>1. d \in Nat /\ d < Width /\ Width \in Nat \ {0}
  BY TrackerAssumption
<1>2. d % Width = d
  <2> HIDE DEF d
  <2> QED
    BY <1>1
<1> QED
  BY <1>2 DEF Since

(* What AbsentFor says of an object with a true date.                      *)
LEMMA AbsentMeans ==
  ASSUME NEW o \in Objects, NEW now \in 0 .. MaxFrame, NEW thresh \in Nat,
         o.body = o.seen, o.seen <= now
  PROVE  /\ AbsentFor(o, now, thresh) => now - o.seen > thresh
         /\ o.face = 0 /\ ~AbsentFor(o, now, thresh) => now - o.seen <= thresh
<1>1. o.body \in 0 .. now
  BY DEF Objects
<1>2. Since(now, o.body) = now - o.seen
  BY <1>1, SinceWithin
<1>3. o.face = 0 => Since(now, o.face) = now
  BY SinceWithin
<1>4. o.seen \in Nat
  BY DEF Objects
<1> QED
  BY <1>2, <1>3, <1>4 DEF AbsentFor

(* A frame that finds, or leaves, one steady camera is that camera's, and  *)
(* its number is the number of frames taken.                               *)
LEMMA SteadyFrame ==
  ASSUME IInv, NEW c \in Cameras, NEW gap \in 1 .. MaxGap, NEW D \in Detections,
         HandleFrame(c, gap, D), OneSteadyCamera'
  PROVE  OneSteadyCamera /\ frame_id[c] + gap = clock'
<1>1. PICK k \in Cameras : frame_id'[k] = clock'
  BY DEF OneSteadyCamera
<1>2. /\ clock' = clock + gap /\ frame_id' = [frame_id EXCEPT ![c] = frame_id[c] + gap]
      /\ frame_id[k] <= clock /\ clock \in Nat /\ gap \in 1 .. MaxGap
      /\ frame_id \in [Cameras -> 0 .. MaxFrame]
  BY FrameSettles DEF IInv, TypeOK, FramesBehind
<1>3. k = c
  <2>1. CASE k # c
    <3>1. frame_id'[k] = frame_id[k] /\ frame_id[k] \in Nat
      BY <1>2, <2>1
    <3> QED
      BY <1>1, <1>2, <3>1, TrackerAssumption
  <2> QED
    BY <2>1
<1>4. frame_id'[c] = frame_id[c] + gap /\ frame_id[c] \in Nat
  BY <1>2
<1>5. frame_id[c] = clock
  BY <1>1, <1>2, <1>3, <1>4, TrackerAssumption
<1> QED
  BY <1>1, <1>3, <1>4, <1>5 DEF OneSteadyCamera

(* Nothing is dated before a frame but with the camera's own numbers.      *)
LEMMA SteadyReopen ==
  ASSUME IInv, NEW c \in Cameras, ReopenCamera(c), OneSteadyCamera'
  PROVE  OneSteadyCamera
<1>1. PICK k \in Cameras : frame_id'[k] = clock
  BY DEF OneSteadyCamera, ReopenCamera
<1>2. frame_id[c] <= clock /\ frame_id[c] \in Nat /\ frame_id[c] # 0 /\ clock \in Nat
  BY DEF IInv, TypeOK, FramesBehind, ReopenCamera
<1>3. k # c
  BY <1>1, <1>2 DEF ReopenCamera, IInv, TypeOK
<1> QED
  BY <1>1, <1>3 DEF OneSteadyCamera, ReopenCamera, IInv, TypeOK

(* What becomes of the dates when frame f is the number of frames taken:   *)
(* who is kept was not absent too long, who expires or leaves was.         *)
LEMMA SettleTimes ==
  ASSUME IInv, Dated, ExpiryOnTime, OneSteadyCamera,
         NEW S, NEW R, NEW D, NEW f \in 0 .. MaxFrame, clock' = f, clock <= f,
         Ready(S, R, f, D), Settle(S, R, f)
  PROVE  /\ \A o \in tracked' \cup expired' : o.body = o.seen /\ o.seen <= f
         /\ \A o \in expired' : /\ o.status = "confirmed" /\ ~o.cur /\ f - o.seen > LostThresh
                                /\ o.face = 0 => f - o.seen <= DeleteThresh
         /\ \A o \in tracked' : o.face = 0 => f - o.seen <= LostThresh
         /\ \A i \in left' \ left :
              \E o \in tracked \cup expired :
                o.id = i /\ f - o.seen > DeleteThresh /\ o.traj >= LeaveLength
<1> USE TrackerAssumption
<1> DEFINE gone == expired \cup {o \in S : BecomesExpired(o, f)}
<1>1. PICK m \in FeatureMatch(gone, R) :
        \E junk \in [LeftOver(R, m) -> Garbage] :
          /\ tracked' = {o \in S : StaysTracked(o, f)} \cup Matched(m, f)
               \cup {NewObject(d, NewId(d, LeftOver(R, m)), f, junk[d]) : d \in LeftOver(R, m)}
          /\ expired' = Untouched(gone, m) \ Deleted(Untouched(gone, m), f)
          /\ left' = left \cup {o.id : o \in {e \in Deleted(Untouched(gone, m), f) : CheckValidLeave(e)}}
  BY DEF Settle, Forget
<1>2. clock \in Nat /\ f \in Nat /\ clock' \in Nat
  BY DEF IInv, TypeOK
<1>3. ASSUME NEW o \in tracked
      PROVE  /\ [o EXCEPT !.cur = FALSE] \in Objects
             /\ [o EXCEPT !.cur = FALSE].id = o.id
             /\ [o EXCEPT !.cur = FALSE].traj = o.traj
             /\ [o EXCEPT !.cur = FALSE].seen = o.seen
             /\ [o EXCEPT !.cur = FALSE].body = o.body
  <2>1. o \in Objects
    BY DEF IInv, TypeOK
  <2> QED
    BY <2>1 DEF Objects
<1>4. \A s \in S : ~s.cur =>
        \E o \in tracked : /\ s.id = o.id /\ s.traj = o.traj
                           /\ s.seen = o.seen /\ s.body = o.body
  <2> SUFFICES ASSUME NEW s \in S, ~s.cur
               PROVE  \E o \in tracked : /\ s.id = o.id /\ s.traj = o.traj
                                         /\ s.seen = o.seen /\ s.body = o.body
    OBVIOUS
  <2>1. PICK o \in tracked : s = [o EXCEPT !.cur = FALSE]
    BY DEF Ready, ClearFlags
  <2> QED
    BY <1>3, <2>1
<1>5. \A o \in tracked \cup expired : o \in Objects /\ o.body = o.seen /\ o.seen <= f
  <2> SUFFICES ASSUME NEW o \in tracked \cup expired
               PROVE  o \in Objects /\ o.body = o.seen /\ o.seen <= f
    OBVIOUS
  <2>1. o \in Objects /\ o.body = o.seen /\ o.seen <= clock /\ o.seen \in Nat
    BY DEF IInv, TypeOK, Dated, Objects
  <2> QED
    BY <1>2, <2>1
<1>6. \A s \in S : s \in Objects /\ s.body = s.seen /\ s.seen <= f
  BY <1>2, <1>4, <1>5 DEF Ready
<1>7. \A o \in gone : /\ o \in Objects /\ o.body = o.seen /\ o.seen <= f
                      /\ o.status = "confirmed" /\ ~o.cur /\ f - o.seen > LostThresh
  <2>1. ASSUME NEW o \in expired PROVE f - o.seen > LostThresh
    <3>1. clock - o.seen > LostThresh /\ o.seen \in Nat
      BY DEF ExpiryOnTime, ExpiredWhenLost, Lost, IInv, TypeOK, Objects
    <3> QED
      BY <1>2, <3>1
  <2>2. ASSUME NEW o \in S, BecomesExpired(o, f)
        PROVE  o.status = "confirmed" /\ ~o.cur /\ f - o.seen > LostThresh
    BY <1>6, <2>2, AbsentMeans DEF BecomesExpired
  <2> QED
    BY <1>5, <1>6, <2>1, <2>2 DEF IInv, ExpiredAbsent
<1>8. \A o \in gone : \E p \in tracked \cup expired :
        p.id = o.id /\ p.traj = o.traj /\ p.seen = o.seen
  BY <1>4 DEF BecomesExpired
<1>9. gone \in SUBSET Objects /\ DistinctIds(gone)
  BY <1>7 DEF IInv, IdsUnique, DistinctIds, Ready
<1> HIDE DEF gone
<1>10. \A r \in Matched(m, f) : r.seen = f /\ r.body = f
  BY <1>2, <1>9, RematchKeepsIds DEF Ready
<1>11. \A o \in Untouched(gone, m) : o \in gone
  BY DEF Untouched
<1>12. ASSUME NEW s \in S, StaysTracked(s, f)
       PROVE  s.face = 0 => f - s.seen <= LostThresh
  <2>1. CASE s.cur
    BY <1>2, <2>1 DEF Ready
  <2>2. CASE ~s.cur
    BY <1>6, <1>12, <2>2, AbsentMeans DEF StaysTracked
  <2> QED
    BY <2>1, <2>2
<1>13. \A o \in tracked' : /\ o.body = o.seen /\ o.seen <= f
                           /\ o.face = 0 => f - o.seen <= LostThresh
  <2>1. ASSUME NEW o, o.seen = f, o.body = f
        PROVE  /\ o.body = o.seen /\ o.seen <= f
               /\ o.face = 0 => f - o.seen <= LostThresh
    BY <1>2, <2>1
  <2>2. \A d, i, g : NewObject(d, i, f, g).seen = f /\ NewObject(d, i, f, g).body = f
    BY DEF NewObject
  <2> QED
    BY <1>1, <1>6, <1>10, <1>12, <2>1, <2>2
<1>14. ASSUME NEW e \in Untouched(gone, m)
       PROVE  /\ AbsentFor(e, f, DeleteThresh) => f - e.seen > DeleteThresh
              /\ e.face = 0 /\ ~AbsentFor(e, f, DeleteThresh) => f - e.seen <= DeleteThresh
  BY <1>7, <1>11, AbsentMeans
<1>15. \A o \in expired' : /\ o.body = o.seen /\ o.seen <= f
                           /\ o.status = "confirmed" /\ ~o.cur /\ f - o.seen > LostThresh
                           /\ o.face = 0 => f - o.seen <= DeleteThresh
  BY <1>1, <1>7, <1>11, <1>14 DEF Deleted
<1>16. ASSUME NEW i \in left' \ left
       PROVE  \E o \in tracked \cup expired :
                o.id = i /\ f - o.seen > DeleteThresh /\ o.traj >= LeaveLength
  <2>1. PICK e \in Untouched(gone, m) :
          e.id = i /\ AbsentFor(e, f, DeleteThresh) /\ e.traj >= LeaveLength
    BY <1>1 DEF Deleted, CheckValidLeave
  <2>2. f - e.seen > DeleteThresh
    BY <1>14, <2>1
  <2> QED
    BY <1>8, <1>11, <2>1, <2>2
<1> QED
  BY <1>13, <1>15, <1>16

(* The same without a steady camera: only the visit was long enough.       *)
LEMMA SettleVisits ==
  ASSUME IInv, NEW S, NEW R, NEW D, NEW f, Ready(S, R, f, D), Settle(S, R, f)
  PROVE  \A i \in left' \ left :
           \E o \in tracked \cup expired : o.id = i /\ o.traj >= LeaveLength
<1> DEFINE gone == expired \cup {o \in S : BecomesExpired(o, f)}
<1>1. \A i \in left' \ left : \E e \in gone : e.id = i /\ e.traj >= LeaveLength
  BY DEF Settle, Forget, Deleted, Untouched, CheckValidLeave
<1>2. ASSUME NEW o \in tracked
      PROVE  /\ [o EXCEPT !.cur = FALSE].id = o.id
             /\ [o EXCEPT !.cur = FALSE].traj = o.traj
  <2>1. o \in Objects
    BY DEF IInv, TypeOK
  <2> QED
    BY <2>1 DEF Objects
<1>3. \A s \in S : ~s.cur => \E o \in tracked : s.id = o.id /\ s.traj = o.traj
  BY <1>2 DEF Ready, ClearFlags
<1>4. \A e \in gone : \E o \in tracked \cup expired : o.id = e.id /\ o.traj = e.traj
  BY <1>3 DEF BecomesExpired
<1> QED
  BY <1>1, <1>4

LEMMA StepTimes ==
  IInv /\ Dated /\ ExpiryOnTime /\ [Next]_vars => Dated' /\ ExpiryOnTime'
<1> SUFFICES ASSUME IInv, Dated, ExpiryOnTime, [Next]_vars PROVE Dated' /\ ExpiryOnTime'
  OBVIOUS
<1>1. ASSUME NEW c \in Cameras, NEW gap \in 1 .. MaxGap, NEW D \in Detections,
             HandleFrame(c, gap, D), OneSteadyCamera'
      PROVE  Dated' /\ ExpiryOnTime'
  <2> DEFINE f == frame_id[c] + gap
  <2>1. f \in 0 .. MaxFrame /\ clock' = f /\ clock <= f /\ OneSteadyCamera
    BY <1>1, FrameSettles, SteadyFrame DEF IInv, TypeOK
  <2>2. PICK S, R : Ready(S, R, f, D) /\ Settle(S, R, f)
    BY <1>1, FrameSettles
  <2> HIDE DEF f
  <2>3. /\ \A o \in tracked' \cup expired' : o.body = o.seen /\ o.seen <= f
        /\ \A o \in expired' : /\ o.status = "confirmed" /\ ~o.cur /\ f - o.seen > LostThresh
                               /\ o.face = 0 => f - o.seen <= DeleteThresh
        /\ \A o \in tracked' : o.face = 0 => f - o.seen <= LostThresh
    BY <2>1, <2>2, SettleTimes
  <2> QED
    BY <2>1, <2>3 DEF Dated, ExpiryOnTime, ExpiredWhenLost, Lost
<1>2. ASSUME NEW c \in Cameras, ReopenCamera(c), OneSteadyCamera'
      PROVE  Dated' /\ ExpiryOnTime'
  <2>1. OneSteadyCamera
    BY <1>2, SteadyReopen
  <2> QED
    BY <1>2, <2>1 DEF ReopenCamera, Dated, ExpiryOnTime, ExpiredWhenLost, Lost
<1>3. CASE UNCHANGED vars
  BY <1>3 DEF vars, Dated, ExpiryOnTime, OneSteadyCamera, ExpiredWhenLost, Lost
<1>4. CASE ~OneSteadyCamera'
  BY <1>4 DEF Dated, ExpiryOnTime
<1> QED
  BY <1>1, <1>2, <1>3, <1>4 DEF Next

LEMMA StepLeaves ==
  IInv /\ Dated /\ ExpiryOnTime /\ [Next]_vars =>
    [\A i \in left' \ left :
       \E o \in tracked \cup expired :
         /\ o.id = i
         /\ OneSteadyCamera' => clock' - o.seen > DeleteThresh
         /\ o.traj >= LeaveLength]_vars
<1> SUFFICES ASSUME IInv, Dated, ExpiryOnTime, [Next]_vars, NEW i \in left' \ left
             PROVE  \E o \in tracked \cup expired :
                      /\ o.id = i
                      /\ OneSteadyCamera' => clock' - o.seen > DeleteThresh
                      /\ o.traj >= LeaveLength
  OBVIOUS
<1>1. PICK c \in Cameras, gap \in 1 .. MaxGap, D \in Detections : HandleFrame(c, gap, D)
  BY DEF Next, ReopenCamera, vars
<1> DEFINE f == frame_id[c] + gap
<1>2. PICK S, R : Ready(S, R, f, D) /\ Settle(S, R, f)
  BY <1>1, FrameSettles
<1>3. CASE OneSteadyCamera'
  <2>1. f \in 0 .. MaxFrame /\ clock' = f /\ clock <= f /\ OneSteadyCamera
    BY <1>1, <1>3, FrameSettles, SteadyFrame DEF IInv, TypeOK
  <2> HIDE DEF f
  <2>2. \A j \in left' \ left :
          \E o \in tracked \cup expired :
            o.id = j /\ f - o.seen > DeleteThresh /\ o.traj >= LeaveLength
    BY <1>2, <2>1, SettleTimes
  <2> QED
    BY <2>1, <2>2
<1>4. CASE ~OneSteadyCamera'
  <2> HIDE DEF f
  <2> QED
    BY <1>2, <1>4, SettleVisits
<1> QED
  BY <1>3, <1>4
-----------------------------------------------------------------------------
(* Every state of the tracker satisfies the inductive invariant.           *)
THEOREM Invariance == Spec => []IInv
  BY InitIInv, StepIInv, PTL DEF Spec

(* Every variable of the tracker keeps its type.                           *)
THEOREM TypeCorrect == Spec => []TypeOK
<1>1. IInv => TypeOK
  BY DEF IInv
<1> QED
  BY <1>1, Invariance, PTL

(* However cameras interleave, are reopened or drop frames, whatever the   *)
(* matching chooses and whatever uninitialised frame numbers hold, no id   *)
(* is shared by two persons or used again after its person has left.       *)
THEOREM IdsAreUnique == Spec => []IdsUnique
<1>1. IInv => IdsUnique
  BY DEF IInv
<1> QED
  BY <1>1, Invariance, PTL

(* Whoever is confirmed became so by the (HitThresh + 1)st frame in a row  *)
(* that matched him, and who is not was matched by every frame so far.     *)
THEOREM ConfirmedBySteadyMatches == Spec => []ConfirmedWhenSteady
<1>1. IInv => ConfirmedWhenSteady
  BY DEF IInv
<1> QED
  BY <1>1, Invariance, PTL

(* Every detection of the last frame is exactly one object, matched or     *)
(* new, whatever the three matchings of Tracker::Update choose.            *)
THEOREM DetectionsCounted == Spec => []EveryDetectionOnce
<1>1. Init => EveryDetectionOnce
  <2>1. {o \in {} : o.cur} = {}
    OBVIOUS
  <2> QED
    BY <2>1, FS_EmptySet DEF Init, EveryDetectionOnce
<1> QED
  BY <1>1, Invariance, StepCounts, PTL DEF Spec

(* With one camera that was never reopened the objects are dated, and the  *)
(* lists part at the thresholds: who is in the expired list is lost, and a *)
(* person absent for longer is neither tracked nor kept, but for what the  *)
(* uninitialised face frame number keeps.                                  *)
THEOREM Expiry == Spec => [](Dated /\ ExpiryOnTime)
<1>1. Init => Dated /\ ExpiryOnTime
  BY DEF Init, Dated, ExpiryOnTime, ExpiredWhenLost
<1> QED
  BY <1>1, Invariance, StepTimes, PTL DEF Spec

(* A person is reported as having left only after a long enough visit and, *)
(* with one steady camera, an absence of more than DeleteThresh frames.    *)
THEOREM LeavesOnlyAfterVisit == Spec => LeavesAfterVisit
  BY Invariance, Expiry, StepLeaves, PTL DEF Spec, LeavesAfterVisit
=============================================================================
