-------------------------- MODULE SpscQueue_proofs --------------------------
(***************************************************************************)
(* Proofs about SpscQueue.  The types hold for any number of producers;    *)
(* with one producer, which boost::lockfree::spsc_queue asks for, the ring *)
(* implements BoundedQueue for every capacity and every set of items.      *)
(***************************************************************************)
EXTENDS SpscQueue, SequenceTheorems, TLAPS

(* What the library requires of its users, and one detector or one video   *)
(* input by itself satisfies.                                              *)
OneProducer == \A p, q \in Producers : p = q

(* A push has its item in hand from the first step to the last.            *)
HandInv == \A p \in Producers : pp[p] # "idle" => hand[p] \in Item

(* From the test of Size() on there is room, since only this producer adds *)
(* to the queue; the index it loaded stays the write index, and the slot   *)
(* it constructed keeps its item until the index is published.             *)
PushInv ==
  \A p \in Producers :
    /\ pp[p] \in {"load", "write", "publish"} => Available < Cap
    /\ pp[p] \in {"write", "publish"} => at[p] = widx
    /\ pp[p] = "publish" => ring[widx] = hand[p]

(* A pop has found the queue not empty, and only it takes from the queue.  *)
PopInv == cp # "empty" => Available > 0

(* Every slot between the indices holds an item, except the one of the     *)
(* running pop, whose item is in got.                                      *)
WaitInv == \A k \in 1 .. Available : Waiting[k] \in Item

(* What was accepted waits or has been received.                           *)
KeptInv == accepted \subseteq Range(Waiting) \cup Range(taken)

IInv == TypeOK /\ HandInv /\ PushInv /\ PopInv /\ WaitInv /\ KeptInv
-----------------------------------------------------------------------------
(* Arithmetic of the ring.                                                 *)

LEMMA Wraps ==
  ASSUME NEW a \in Nat, a < 2 * (Cap + 1)
  PROVE  a % (Cap + 1) = IF a <= Cap THEN a ELSE a - (Cap + 1)
<1>1. DEFINE n == Cap + 1
<1>2. n \in Nat \ {0}
  BY QueueAssumption
<1>3. CASE a < n
  <2>1. a % n = a
    BY <1>2, <1>3
  <2>2. QED
    BY <1>3, <2>1, QueueAssumption
<1>4. CASE a >= n
  <2>1. a % n = a - n
    BY <1>2, <1>4
  <2>2. QED
    BY <1>4, <2>1, QueueAssumption
<1>5. QED
  BY <1>3, <1>4, QueueAssumption

(* The index after i.                                                      *)
LEMMA NextSlot ==
  ASSUME NEW i \in Slots
  PROVE  /\ NextIndex(i) = IF i = Cap THEN 0 ELSE i + 1
         /\ NextIndex(i) \in Slots
<1>1. i + 1 \in Nat /\ i + 1 < 2 * (Cap + 1)
  BY QueueAssumption DEF Slots
<1>2. NextIndex(i) = IF i + 1 <= Cap THEN i + 1 ELSE i + 1 - (Cap + 1)
  <2> DEFINE a == i + 1
  <2>1. NextIndex(i) = a % (Cap + 1)
    BY DEF NextIndex
  <2> HIDE DEF a
  <2>2. a \in Nat /\ a < 2 * (Cap + 1)
    BY <1>1 DEF a
  <2>3. a % (Cap + 1) = IF a <= Cap THEN a ELSE a - (Cap + 1)
    BY <2>2, Wraps
  <2>4. NextIndex(i) = IF a <= Cap THEN a ELSE a - (Cap + 1)
    BY <2>1, <2>3
  <2>5. QED
    BY <2>4, QueueAssumption DEF a, Slots
<1>3. QED
  BY <1>2, QueueAssumption DEF Slots

(* The number of slots from one index up to another.                       *)
LEMMA Distance ==
  ASSUME NEW w \in Slots, NEW r \in Slots
  PROVE  (w - r + Cap + 1) % (Cap + 1) = IF w >= r THEN w - r ELSE w - r + Cap + 1
<1> DEFINE a == w - r + Cap + 1
<1>1. a \in Nat /\ a < 2 * (Cap + 1)
  BY QueueAssumption DEF Slots
<1>2. a % (Cap + 1) = IF a <= Cap THEN a ELSE a - (Cap + 1)
  <2> HIDE DEF a
  <2>1. QED
    BY <1>1, Wraps
<1>3. QED
  BY <1>2, QueueAssumption DEF Slots

(* The slot k - 1 places behind an index.                                  *)
LEMMA Place ==
  ASSUME NEW r \in Slots, NEW k \in 1 .. Cap + 1
  PROVE  /\ (r + k - 1) % (Cap + 1) =
              IF r + k - 1 <= Cap THEN r + k - 1 ELSE r + k - 2 - Cap
         /\ (r + k - 1) % (Cap + 1) \in Slots
<1> DEFINE a == r + k - 1
<1>1. a \in Nat /\ a < 2 * (Cap + 1)
  BY QueueAssumption DEF Slots
<1>2. a % (Cap + 1) = IF a <= Cap THEN a ELSE a - (Cap + 1)
  <2> HIDE DEF a
  <2>1. QED
    BY <1>1, Wraps
<1>3. QED
  BY <1>2, QueueAssumption DEF Slots

(* How many items wait, and where each of them is.                         *)
Shape ==
  /\ Available \in 0 .. Cap
  /\ Available = IF widx >= ridx THEN widx - ridx ELSE widx - ridx + Cap + 1
  /\ Waiting \in Seq(Item \cup {None}) /\ Len(Waiting) = Available
  /\ \A k \in 1 .. Available :
       Waiting[k] = IF k = 1 /\ cp = "publish" THEN got
                    ELSE ring[IF ridx + k - 1 <= Cap THEN ridx + k - 1
                                                     ELSE ridx + k - 2 - Cap]

LEMMA ShapeHolds == TypeOK => Shape
<1> SUFFICES ASSUME TypeOK PROVE Shape
  OBVIOUS
<1>1. Available = IF widx >= ridx THEN widx - ridx ELSE widx - ridx + Cap + 1
  BY Distance DEF TypeOK, Available
<1>2. Available \in 0 .. Cap
  BY <1>1, QueueAssumption DEF TypeOK, Slots
<1>3. ASSUME NEW k \in 1 .. Available
      PROVE  /\ (ridx + k - 1) % (Cap + 1) \in Slots
             /\ (ridx + k - 1) % (Cap + 1) =
                  IF ridx + k - 1 <= Cap THEN ridx + k - 1 ELSE ridx + k - 2 - Cap
  <2>1. k \in 1 .. Cap + 1 /\ ridx \in Slots
    BY <1>2, QueueAssumption DEF TypeOK
  <2>2. QED
    BY <2>1, Place
<1>4. Waiting \in [1 .. Available -> Item \cup {None}]
  BY <1>3 DEF Waiting, TypeOK
<1>5. Waiting \in Seq(Item \cup {None}) /\ Len(Waiting) = Available
  BY <1>2, <1>4
<1>6. QED
  BY <1>1, <1>2, <1>3, <1>5 DEF Waiting, Shape

LEMMA ShapeNext == TypeOK' => Shape'
  BY ShapeHolds, PTL
-----------------------------------------------------------------------------
(* Types, for any number of producers.                                     *)

LEMMA InitTypes == Init => TypeOK /\ HandInv
  BY QueueAssumption DEF Init, TypeOK, HandInv, Slots

LEMMA StepTypes == TypeOK /\ HandInv /\ [Next]_vars => TypeOK' /\ HandInv'
<1> SUFFICES ASSUME TypeOK, HandInv, [Next]_vars PROVE TypeOK' /\ HandInv'
  OBVIOUS
<1> USE QueueAssumption DEF TypeOK, HandInv, consumerVars, producerVars, Goto, Return
<1>1. ASSUME NEW p \in Producers, NEW x \in Item, StartPush(p, x)
      PROVE  TypeOK' /\ HandInv'
  BY <1>1 DEF StartPush
<1>2. ASSUME NEW p \in Producers, Refuse(p) PROVE TypeOK' /\ HandInv'
  BY <1>2 DEF Refuse
<1>3. ASSUME NEW p \in Producers, FindRoom(p) PROVE TypeOK' /\ HandInv'
  BY <1>3 DEF FindRoom
<1>4. ASSUME NEW p \in Producers, LoadWriteIndex(p) PROVE TypeOK' /\ HandInv'
  BY <1>4 DEF LoadWriteIndex
<1>5. ASSUME NEW p \in Producers, WriteSlot(p) PROVE TypeOK' /\ HandInv'
  BY <1>5 DEF WriteSlot
<1>6. ASSUME NEW p \in Producers, Publish(p) PROVE TypeOK' /\ HandInv'
  BY <1>6, NextSlot DEF Publish
<1>7. CASE SeeItem
  BY <1>7 DEF SeeItem
<1>8. CASE MoveOut
  BY <1>8 DEF MoveOut
<1>9. CASE PopReturns
  BY <1>9, NextSlot DEF PopReturns
<1>10. CASE UNCHANGED vars
  BY <1>10 DEF vars
<1>11. QED
  BY <1>1, <1>2, <1>3, <1>4, <1>5, <1>6, <1>7, <1>8, <1>9, <1>10
  DEF Next, PushStep, Consume

(* Every variable keeps its type, however many threads push.               *)
THEOREM TypeCorrect == Spec => []TypeOK
<1>1. Spec => [](TypeOK /\ HandInv)
  BY InitTypes, StepTypes, PTL DEF Spec
<1>2. QED
  BY <1>1, PTL
-----------------------------------------------------------------------------
(* What each step does to the items that wait.                             *)

(* Nothing, when neither the indices nor the slots between them change.    *)
LEMMA Unmoved ==
  ASSUME TypeOK, TypeOK', widx' = widx, ridx' = ridx,
         \A k \in 1 .. Available : Waiting'[k] = Waiting[k]
  PROVE  Waiting' = Waiting /\ Available' = Available
<1>1. Shape /\ Shape'
  BY ShapeHolds, ShapeNext
<1>2. Available' = Available
  BY <1>1 DEF Shape
<1>3. QED
  BY <1>1, <1>2, SeqEqual DEF Shape

(* The slot being constructed is none of those that wait.                  *)
LEMMA WriteKeeps ==
  ASSUME IInv, TypeOK', NEW p \in Producers, WriteSlot(p)
  PROVE  Waiting' = Waiting /\ Available' = Available
<1> USE DEF WriteSlot, consumerVars
<1>1. Shape /\ Shape'
  BY ShapeHolds, ShapeNext DEF IInv
<1>2. at[p] = widx /\ Available < Cap
  BY DEF IInv, PushInv
<1>3. ASSUME NEW k \in 1 .. Available PROVE Waiting'[k] = Waiting[k]
  <2> DEFINE place == IF ridx + k - 1 <= Cap THEN ridx + k - 1 ELSE ridx + k - 2 - Cap
  <2>1. place \in Slots /\ place # widx
    BY <1>1, <1>2, QueueAssumption DEF Shape, IInv, TypeOK, Slots
  <2>2. ring'[place] = ring[place]
    BY <1>2, <2>1 DEF IInv, TypeOK
  <2>3. QED
    BY <1>1, <2>2 DEF Shape
<1>4. QED
  BY <1>3, Unmoved DEF IInv

(* The item moved out is still the first one.                              *)
LEMMA MoveOutKeeps ==
  ASSUME IInv, TypeOK', MoveOut
  PROVE  Waiting' = Waiting /\ Available' = Available
<1> USE DEF MoveOut, producerVars
<1>1. Shape /\ Shape'
  BY ShapeHolds, ShapeNext DEF IInv
<1>2. ASSUME NEW k \in 1 .. Available PROVE Waiting'[k] = Waiting[k]
  <2> DEFINE place == IF ridx + k - 1 <= Cap THEN ridx + k - 1 ELSE ridx + k - 2 - Cap
  <2>1. CASE k = 1
    <3>1. ridx + 1 - 1 = ridx /\ ridx <= Cap /\ 1 \in 1 .. Available
      BY <2>1, QueueAssumption DEF IInv, TypeOK, Slots
    <3>2. Waiting[1] = ring[ridx]
      BY <1>1, <3>1 DEF Shape
    <3>3. Waiting'[1] = got'
      BY <1>1, <3>1 DEF Shape
    <3>4. QED
      BY <2>1, <3>2, <3>3
  <2>2. CASE k # 1
    <3>1. place \in Slots /\ place # ridx
      <4>1. k \in 2 .. Cap /\ ridx \in 0 .. Cap /\ Cap \in Nat
        BY <1>1, <2>2, QueueAssumption DEF Shape, IInv, TypeOK, Slots
      <4>2. QED
        BY <4>1 DEF Slots
    <3>2. ring'[place] = ring[place]
      BY <3>1 DEF IInv, TypeOK
    <3>3. QED
      BY <1>1, <2>2, <3>2 DEF Shape
  <2>3. QED
    BY <2>1, <2>2
<1>3. QED
  BY <1>2, Unmoved DEF IInv

(* To publish the index is to append the item.                             *)
LEMMA PublishAppends ==
  ASSUME IInv, TypeOK', NEW p \in Producers, Publish(p)
  PROVE  /\ Waiting' = Append(Waiting, hand[p])
         /\ Available < Cap /\ Available' = Available + 1
<1> USE DEF Publish, consumerVars, Return, Goto
<1>1. Shape /\ Shape'
  BY ShapeHolds, ShapeNext DEF IInv
<1>2. at[p] = widx /\ Available < Cap /\ ring[widx] = hand[p]
  BY DEF IInv, PushInv
<1>3. widx' = IF widx = Cap THEN 0 ELSE widx + 1
  BY <1>2, NextSlot DEF IInv, TypeOK
<1>4. Available' = Available + 1
  BY <1>1, <1>2, <1>3, QueueAssumption DEF Shape, IInv, TypeOK, Slots
<1> DEFINE S == Item \cup {None}
<1>5. hand[p] \in S
  BY DEF IInv, TypeOK
<1>6. /\ Append(Waiting, hand[p]) \in Seq(S)
      /\ Len(Append(Waiting, hand[p])) = Available + 1
      /\ \A k \in 1 .. Available : Append(Waiting, hand[p])[k] = Waiting[k]
      /\ Append(Waiting, hand[p])[Available + 1] = hand[p]
  BY <1>1, <1>5, AppendProperties DEF Shape
<1>7. \A k \in 1 .. Available : Waiting'[k] = Waiting[k]
  BY <1>1, <1>4 DEF Shape
<1>8. Waiting'[Available + 1] = hand[p]
  <2>1. ~(Available + 1 = 1 /\ cp = "publish")
    BY <1>1 DEF Shape, IInv, PopInv
  <2> DEFINE k == Available + 1
             place == IF ridx + k - 1 <= Cap THEN ridx + k - 1 ELSE ridx + k - 2 - Cap
  <2>2. place = widx
    <3>1. Available \in 0 .. Cap - 1 /\ ridx \in 0 .. Cap /\ widx \in 0 .. Cap /\ Cap \in Nat
      BY <1>1, <1>2, QueueAssumption DEF Shape, IInv, TypeOK, Slots
    <3>2. QED
      BY <1>1, <3>1 DEF Shape
  <2>3. k \in 1 .. Available' /\ ~(k = 1 /\ cp' = "publish")
    BY <1>1, <1>4, <2>1 DEF Shape
  <2>4. Waiting'[k] = ring'[place]
    BY <1>1, <2>3 DEF Shape
  <2>5. QED
    BY <1>2, <2>2, <2>4
<1>9. Waiting' = Append(Waiting, hand[p])
  <2>1. Waiting' \in Seq(S) /\ Len(Waiting') = Available + 1
    BY <1>1, <1>4 DEF Shape
  <2>2. \A k \in 1 .. Available + 1 : Waiting'[k] = Append(Waiting, hand[p])[k]
    BY <1>1, <1>6, <1>7, <1>8 DEF Shape
  <2>3. QED
    BY <1>6, <2>1, <2>2, SeqEqual
<1>10. QED
  BY <1>2, <1>4, <1>9

(* To publish the read index is to take the head.                          *)
LEMMA PopTakes ==
  ASSUME IInv, TypeOK', PopReturns
  PROVE  /\ Waiting # <<>> /\ Waiting' = Tail(Waiting) /\ got = Head(Waiting)
         /\ Available' = Available - 1 /\ Available > 0
<1> USE DEF PopReturns, producerVars
<1>1. Shape /\ Shape'
  BY ShapeHolds, ShapeNext DEF IInv
<1>2. Available > 0
  BY DEF IInv, PopInv
<1>3. ridx' = IF ridx = Cap THEN 0 ELSE ridx + 1
  BY NextSlot DEF IInv, TypeOK
<1>4. Available' = Available - 1
  BY <1>1, <1>2, <1>3, QueueAssumption DEF Shape, IInv, TypeOK, Slots
<1> DEFINE S == Item \cup {None}
<1>5. Waiting \in Seq(S) /\ Len(Waiting) = Available /\ Waiting # <<>>
  BY <1>1, <1>2 DEF Shape
<1>6. /\ Tail(Waiting) \in Seq(S)
      /\ Len(Tail(Waiting)) = Available - 1
      /\ \A k \in 1 .. Available - 1 : Tail(Waiting)[k] = Waiting[k + 1]
  BY <1>5, HeadTailProperties
<1>7. got = Head(Waiting)
  <2>1. Waiting[1] = got
    BY <1>1, <1>2 DEF Shape
  <2>2. QED
    BY <1>5, <2>1
<1>8. ASSUME NEW k \in 1 .. Available - 1 PROVE Waiting'[k] = Waiting[k + 1]
  BY <1>1, <1>3, <1>4, QueueAssumption DEF Shape, IInv, TypeOK, Slots
<1>9. Waiting' = Tail(Waiting)
  <2>1. Waiting' \in Seq(S) /\ Len(Waiting') = Available - 1
    BY <1>1, <1>4 DEF Shape
  <2>2. \A k \in 1 .. Available - 1 : Waiting'[k] = Tail(Waiting)[k]
    BY <1>6, <1>8
  <2>3. QED
    BY <1>6, <2>1, <2>2, SeqEqual
<1>10. QED
  BY <1>2, <1>4, <1>5, <1>7, <1>9
-----------------------------------------------------------------------------
(* The inductive invariant.                                                *)

LEMMA RangeOfAppend ==
  ASSUME NEW S, NEW s \in Seq(S), NEW x \in S
  PROVE  Range(Append(s, x)) = Range(s) \cup {x}
  BY AppendProperties DEF Range

LEMMA RangeOfTail ==
  ASSUME NEW S, NEW s \in Seq(S), s # <<>>
  PROVE  Range(s) \subseteq Range(Tail(s)) \cup {Head(s)}
<1> SUFFICES ASSUME NEW k \in 1 .. Len(s)
             PROVE  s[k] \in Range(Tail(s)) \cup {Head(s)}
  BY DEF Range
<1>1. CASE k = 1
  BY <1>1
<1>2. CASE k # 1
  <2>1. k - 1 \in 1 .. Len(Tail(s)) /\ Tail(s)[k - 1] = s[k] /\ Tail(s) \in Seq(S)
    BY <1>2, HeadTailProperties
  <2>2. k - 1 \in DOMAIN Tail(s)
    BY <2>1, LenProperties
  <2>3. Tail(s)[k - 1] \in Range(Tail(s))
    BY <2>2, Zenon DEF Range
  <2>4. QED
    BY <2>1, <2>3
<1>3. QED
  BY <1>1, <1>2

LEMMA InitIInv == Init => IInv
<1> SUFFICES ASSUME Init PROVE IInv
  OBVIOUS
<1>1. TypeOK /\ HandInv /\ Shape
  BY InitTypes, ShapeHolds
<1>2. Available = 0
  BY <1>1 DEF Init, Shape
<1>3. PushInv /\ PopInv /\ WaitInv /\ KeptInv
  BY <1>2 DEF Init, PushInv, PopInv, WaitInv, KeptInv
<1>4. QED
  BY <1>1, <1>3 DEF IInv

(* With a place free the library does not find the ring full.              *)
LEMMA RoomAhead ==
  ASSUME TypeOK, Shape, Available < Cap
  PROVE  NextIndex(widx) # ridx
<1>1. /\ Available \in 0 .. Cap - 1 /\ ridx \in 0 .. Cap /\ widx \in 0 .. Cap /\ Cap \in Nat
      /\ Available = IF widx >= ridx THEN widx - ridx ELSE widx - ridx + Cap + 1
  BY QueueAssumption DEF Shape, TypeOK, Slots
<1>2. NextIndex(widx) = IF widx = Cap THEN 0 ELSE widx + 1
  BY <1>1, NextSlot DEF Slots
<1>3. QED
  BY <1>1, <1>2

(* A step that leaves the queue alone keeps what is known of it, if the    *)
(* threads may be where it leads them.                                     *)
LEMMA QuietStep ==
  ASSUME IInv, TypeOK', HandInv', Waiting' = Waiting, Available' = Available,
         UNCHANGED <<accepted, taken>>, PushInv', PopInv'
  PROVE  IInv'
  BY DEF IInv, WaitInv, KeptInv

(* Nothing about the queue depends on the producers.                       *)
LEMMA Untouched ==
  ASSUME UNCHANGED <<ring, widx, ridx, consumerVars>>
  PROVE  Waiting' = Waiting /\ Available' = Available
  BY DEF Waiting, Available, consumerVars

LEMMA StepIInv == OneProducer /\ IInv /\ [Next]_vars => IInv'
<1> SUFFICES ASSUME OneProducer, IInv, [Next]_vars PROVE IInv'
  OBVIOUS
<1>1. TypeOK' /\ HandInv' /\ Shape /\ Shape'
  BY StepTypes, ShapeHolds, ShapeNext DEF IInv
<1> USE DEF Goto, Return, producerVars, consumerVars
<1>2. ASSUME NEW p \in Producers, NEW x \in Item, StartPush(p, x) PROVE IInv'
  <2>1. Waiting' = Waiting /\ Available' = Available
    BY <1>2, Untouched DEF StartPush
  <2>2. PushInv' /\ PopInv'
    BY <1>2, <2>1 DEF StartPush, OneProducer, IInv, TypeOK, PushInv, PopInv
  <2>3. QED
    BY <1>1, <1>2, <2>1, <2>2, QuietStep DEF StartPush
<1>3. ASSUME NEW p \in Producers, Refuse(p) PROVE IInv'
  <2>1. Waiting' = Waiting /\ Available' = Available
    BY <1>3, Untouched DEF Refuse
  <2>2. PushInv' /\ PopInv'
    BY <1>3, <2>1 DEF Refuse, OneProducer, IInv, TypeOK, PushInv, PopInv
  <2>3. QED
    BY <1>1, <1>3, <2>1, <2>2, QuietStep DEF Refuse
<1>4. ASSUME NEW p \in Producers, FindRoom(p) PROVE IInv'
  <2>1. Waiting' = Waiting /\ Available' = Available
    BY <1>4, Untouched DEF FindRoom
  <2>2. Available < Cap
    BY <1>1, <1>4, QueueAssumption DEF FindRoom, CapReached, Shape
  <2>3. PushInv' /\ PopInv'
    BY <1>4, <2>1, <2>2 DEF FindRoom, OneProducer, IInv, TypeOK, PushInv, PopInv
  <2>4. QED
    BY <1>1, <1>4, <2>1, <2>3, QuietStep DEF FindRoom
<1>5. ASSUME NEW p \in Producers, LoadWriteIndex(p) PROVE IInv'
  <2>1. Waiting' = Waiting /\ Available' = Available
    BY <1>5, Untouched DEF LoadWriteIndex
  <2>2. Available < Cap
    BY <1>5 DEF LoadWriteIndex, IInv, PushInv
  <2>3. NextIndex(widx) # ridx
    BY <1>1, <2>2, RoomAhead DEF IInv
  <2>4. PushInv' /\ PopInv'
    BY <1>5, <2>1, <2>2, <2>3 DEF LoadWriteIndex, OneProducer, IInv, TypeOK, PushInv, PopInv
  <2>5. QED
    BY <1>1, <1>5, <2>1, <2>3, <2>4, QuietStep DEF LoadWriteIndex
<1>6. ASSUME NEW p \in Producers, WriteSlot(p) PROVE IInv'
  <2>1. Waiting' = Waiting /\ Available' = Available
    BY <1>1, <1>6, WriteKeeps
  <2>2. PushInv' /\ PopInv'
    BY <1>6, <2>1 DEF WriteSlot, OneProducer, IInv, TypeOK, PushInv, PopInv
  <2>3. QED
    BY <1>1, <1>6, <2>1, <2>2, QuietStep DEF WriteSlot
<1>7. ASSUME NEW p \in Producers, Publish(p) PROVE IInv'
  <2>1. /\ Waiting' = Append(Waiting, hand[p])
        /\ Available' = Available + 1
    BY <1>1, <1>7, PublishAppends
  <2>2. PushInv' /\ PopInv'
    BY <1>1, <1>7, <2>1 DEF Publish, Shape, OneProducer, IInv, TypeOK, PushInv, PopInv
  <2>3. hand[p] \in Item /\ hand[p] \in Item \cup {None}
    BY <1>7 DEF Publish, IInv, HandInv
  <2>4. Waiting \in Seq(Item \cup {None}) /\ Len(Waiting) = Available
    BY <1>1 DEF Shape
  <2>5. WaitInv'
    BY <1>1, <2>1, <2>3, <2>4, AppendProperties DEF Shape, IInv, WaitInv
  <2>6. Range(Waiting') = Range(Waiting) \cup {hand[p]}
    BY <2>1, <2>3, <2>4, RangeOfAppend
  <2>7. KeptInv'
    BY <1>7, <2>6 DEF Publish, IInv, KeptInv
  <2>8. QED
    BY <1>1, <2>2, <2>5, <2>7 DEF IInv
<1>8. CASE SeeItem
  <2>1. /\ Available' = Available /\ Available > 0
        /\ \A k \in 1 .. Available : Waiting'[k] = Waiting[k]
    BY <1>1, <1>8, QueueAssumption DEF SeeItem, Shape, IInv, TypeOK, Slots
  <2>2. Waiting' = Waiting
    BY <1>1, <1>8, <2>1, Unmoved DEF SeeItem, IInv
  <2>3. PushInv' /\ PopInv'
    BY <1>8, <2>1 DEF SeeItem, IInv, PushInv, PopInv
  <2>4. QED
    BY <1>1, <1>8, <2>1, <2>2, <2>3, QuietStep DEF SeeItem
<1>9. CASE MoveOut
  <2>1. Waiting' = Waiting /\ Available' = Available
    BY <1>1, <1>9, MoveOutKeeps
  <2>2. Available > 0
    BY <1>9 DEF MoveOut, IInv, PopInv
  <2>3. widx # ridx
    BY <1>1, <2>2 DEF Shape, IInv, TypeOK, Slots
  <2>4. ring'[widx] = ring[widx]
    BY <1>9, <2>3 DEF MoveOut, IInv, TypeOK
  <2>5. PushInv'
    BY <1>9, <2>1, <2>4 DEF MoveOut, IInv, PushInv
  <2>6. PopInv'
    BY <2>1, <2>2 DEF PopInv
  <2>7. QED
    BY <1>1, <1>9, <2>1, <2>5, <2>6, QuietStep DEF MoveOut
<1>10. CASE PopReturns
  <2>1. /\ Waiting # <<>> /\ Waiting' = Tail(Waiting) /\ got = Head(Waiting)
        /\ Available' = Available - 1 /\ Available > 0
    BY <1>1, <1>10, PopTakes
  <2>2. PushInv' /\ PopInv'
    <3>1. Available < Cap => Available' < Cap
      BY <1>1, <2>1, QueueAssumption DEF Shape
    <3>2. PushInv'
      BY <1>10, <3>1 DEF PopReturns, IInv, PushInv
    <3>3. PopInv'
      BY <1>10 DEF PopReturns, PopInv
    <3>4. QED
      BY <3>2, <3>3
  <2>3. Waiting \in Seq(Item \cup {None}) /\ Len(Waiting) = Available
    BY <1>1 DEF Shape
  <2>4. WaitInv'
    BY <1>1, <2>1, <2>3, HeadTailProperties DEF Shape, IInv, WaitInv
  <2>5. Range(Waiting) \subseteq Range(Waiting') \cup {got}
    BY <2>1, <2>3, RangeOfTail
  <2>6. Range(taken') = Range(taken) \cup {got}
    BY <1>10, RangeOfAppend DEF PopReturns, IInv, TypeOK
  <2>7. KeptInv'
    BY <1>10, <2>5, <2>6 DEF PopReturns, IInv, KeptInv
  <2>8. QED
    BY <1>1, <2>2, <2>4, <2>7 DEF IInv
<1>11. CASE UNCHANGED vars
  BY <1>11 DEF vars, IInv, TypeOK, HandInv, PushInv, PopInv, WaitInv, KeptInv, Waiting, Available
<1>12. QED
  BY <1>2, <1>3, <1>4, <1>5, <1>6, <1>7, <1>8, <1>9, <1>10, <1>11
  DEF Next, PushStep, Consume
-----------------------------------------------------------------------------
(* Theorems for a queue with one producer.                                 *)

THEOREM Invariance == OneProducer => (Spec => []IInv)
<1> SUFFICES ASSUME OneProducer PROVE Spec => []IInv
  OBVIOUS
<1>1. IInv /\ [Next]_vars => IInv'
  BY StepIInv
<1>2. QED
  BY InitIInv, <1>1, PTL DEF Spec

(* Nothing that was accepted is lost, whatever the two threads are doing:  *)
(* it is in a slot, in the hands of the running pop, or received.          *)
THEOREM NothingLost == OneProducer => (Spec => []LostOnlyWhenFull)
<1> SUFFICES ASSUME OneProducer PROVE Spec => []LostOnlyWhenFull
  OBVIOUS
<1>1. IInv => LostOnlyWhenFull
  <2> SUFFICES ASSUME IInv, NEW x \in accepted
               PROVE  x \in Range(ring) \cup Range(taken) \cup {got}
    BY DEF LostOnlyWhenFull
  <2>1. Shape
    BY ShapeHolds DEF IInv
  <2>2. CASE x \in Range(taken)
    BY <2>2
  <2>3. CASE x \in Range(Waiting)
    <3>1. PICK k \in 1 .. Available : x = Waiting[k]
      BY <2>1, <2>3 DEF Range, Shape
    <3> DEFINE place == IF ridx + k - 1 <= Cap THEN ridx + k - 1 ELSE ridx + k - 2 - Cap
    <3>2. place \in Slots
      BY <2>1, QueueAssumption DEF Shape, IInv, TypeOK, Slots
    <3>3. ring[place] \in Range(ring)
      BY <3>2 DEF Range, IInv, TypeOK
    <3>4. QED
      BY <2>1, <3>1, <3>3 DEF Shape
  <2>4. QED
    BY <2>2, <2>3 DEF IInv, KeptInv
<1>2. Spec => []IInv
  BY Invariance
<1>3. QED
  BY <1>1, <1>2, PTL

LEMMA InitMaps == Init => Promise!Init
<1> SUFFICES ASSUME Init PROVE Promise!Init
  OBVIOUS
<1>1. TypeOK /\ Shape
  BY InitTypes, ShapeHolds
<1>2. Available = 0
  BY <1>1 DEF Init, Shape
<1>3. Waiting = <<>>
  BY <1>1, <1>2, EmptySeq DEF Shape
<1>4. QED
  BY <1>3 DEF Init, Promise!Init

(* Publishing the write index is Put, the refusal Drop, publishing the     *)
(* read index Take; no other step is seen.                                 *)
LEMMA StepMaps ==
  OneProducer /\ IInv /\ TypeOK' /\ [Next]_vars
    => [Promise!Next]_<<Waiting, refused, taken>>
<1> SUFFICES ASSUME OneProducer, IInv, TypeOK', [Next]_vars
             PROVE  [Promise!Next]_<<Waiting, refused, taken>>
  OBVIOUS
<1>1. Shape /\ Shape'
  BY ShapeHolds, ShapeNext DEF IInv
<1> USE DEF Goto, Return, producerVars, consumerVars
<1>2. ASSUME NEW p \in Producers, NEW x \in Item, StartPush(p, x)
      PROVE  UNCHANGED <<Waiting, refused, taken>>
  BY <1>2, Untouched DEF StartPush
<1>3. ASSUME NEW p \in Producers, Refuse(p) PROVE Promise!Next
  <2>1. Waiting' = Waiting
    BY <1>3, Untouched DEF Refuse
  <2>2. Len(Waiting) = Cap
    BY <1>1, <1>3, QueueAssumption DEF Refuse, CapReached, Shape
  <2>3. hand[p] \in Item
    BY <1>3 DEF Refuse, IInv, HandInv
  <2>4. Promise!Drop(hand[p])
    BY <1>3, <2>1, <2>2 DEF Refuse, Promise!Drop
  <2>5. QED
    BY <2>3, <2>4 DEF Promise!Next
<1>4. ASSUME NEW p \in Producers, FindRoom(p)
      PROVE  UNCHANGED <<Waiting, refused, taken>>
  BY <1>4, Untouched DEF FindRoom
<1>5. ASSUME NEW p \in Producers, LoadWriteIndex(p)
      PROVE  UNCHANGED <<Waiting, refused, taken>>
  <2>1. Available < Cap
    BY <1>5 DEF LoadWriteIndex, IInv, PushInv
  <2>2. NextIndex(widx) # ridx
    BY <1>1, <2>1, RoomAhead DEF IInv
  <2>3. QED
    BY <1>5, <2>2, Untouched DEF LoadWriteIndex
<1>6. ASSUME NEW p \in Producers, WriteSlot(p)
      PROVE  UNCHANGED <<Waiting, refused, taken>>
  BY <1>6, WriteKeeps DEF WriteSlot
<1>7. ASSUME NEW p \in Producers, Publish(p) PROVE Promise!Next
  <2>1. /\ Waiting' = Append(Waiting, hand[p]) /\ Len(Waiting) < Cap
        /\ hand[p] \in Item
    BY <1>1, <1>7, PublishAppends DEF Shape, Publish, IInv, HandInv
  <2>2. Promise!Put(hand[p])
    BY <1>7, <2>1 DEF Publish, Promise!Put
  <2>3. QED
    BY <2>1, <2>2 DEF Promise!Next
<1>8. CASE SeeItem
  <2>1. \A k \in 1 .. Available : Waiting'[k] = Waiting[k]
    BY <1>1, <1>8, QueueAssumption DEF SeeItem, Shape, IInv, TypeOK, Slots
  <2>2. QED
    BY <1>8, <2>1, Unmoved DEF SeeItem, IInv
<1>9. CASE MoveOut
  BY <1>9, MoveOutKeeps DEF MoveOut
<1>10. CASE PopReturns
  <2>1. Waiting # <<>> /\ Waiting' = Tail(Waiting) /\ got = Head(Waiting)
    BY <1>10, PopTakes
  <2>2. Promise!Take
    BY <1>10, <2>1 DEF PopReturns, Promise!Take
  <2>3. QED
    BY <2>2 DEF Promise!Next
<1>11. CASE UNCHANGED vars
  BY <1>11 DEF vars, Waiting, Available
<1>12. QED
  BY <1>2, <1>3, <1>4, <1>5, <1>6, <1>7, <1>8, <1>9, <1>10, <1>11
  DEF Next, PushStep, Consume

(* With one producer the lock-free ring is a bounded first-in first-out    *)
(* buffer: items come out once and in order, and only a push into a full   *)
(* buffer is refused.                                                      *)
THEOREM Refinement == OneProducer => (Spec => IsBoundedQueue)
<1> SUFFICES ASSUME OneProducer PROVE Spec => IsBoundedQueue
  OBVIOUS
<1>1. IInv /\ IInv' /\ [Next]_vars => [Promise!Next]_<<Waiting, refused, taken>>
  BY StepMaps DEF IInv
<1>2. Spec => []IInv
  BY Invariance
<1>3. QED
  BY InitMaps, <1>1, <1>2, PTL DEF Spec, IsBoundedQueue, Promise!Spec
=============================================================================
