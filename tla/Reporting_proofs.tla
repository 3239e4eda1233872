--------------------------- MODULE Reporting_proofs ---------------------------
(***************************************************************************)
(* Proofs about Reporting, for any number of loaders, queue capacity and   *)
(* costs: every frame is counted once, and what the logger events have     *)
(* taken agrees.                                                           *)
(***************************************************************************)
EXTENDS Reporting, FiniteSetTheorems, TLAPS

(* Only cameras count what they push.                                      *)
CamerasCount == Uncounted \subseteq Cameras

(* Two loaders inside a push know of each other, and one that is alone     *)
(* there finds the room it saw.                                            *)
PushesInv ==
  /\ overlaps \subseteq Pushing
  /\ overlaps # {} => raced
  /\ \A l \in Pushing \ overlaps : Pushing = {l} /\ detectQ < Cap

(* Frames between the loaders and the counters: none is popped that was    *)
(* not pushed, and the detector has at most one in hand.                   *)
FramesInHand ==
  /\ raced \/ popped + detectQ <= pushed + filed
  /\ popped = searched + skipped + IF detector \in {"output", "search"} THEN 1 ELSE 0
  /\ detector = "start" => popped = 0 /\ searched = 0 /\ spent = 0

(* The inductive invariant.                                                *)
IInv ==
  /\ TypeOK
  /\ CamerasCount
  /\ PushesInv
  /\ FramesInHand
  /\ CountedOnce
  /\ TakenAgree

(* The counters are natural numbers.                                       *)
LEMMA CounterTypes ==
  ASSUME TypeOK
  PROVE  /\ metrics["model"] \in Counters
         /\ \A k \in Keys : metrics["model"][k] \in Nat /\ taken[k] \in Nat
  BY DEF TypeOK, Counters, Events

LEMMA CountTypes ==
  ASSUME TypeOK
  PROVE  /\ detectQ \in Nat /\ Cap \in Nat
         /\ pushed \in Nat /\ filed \in Nat /\ popped \in Nat
  BY ReportingAssumption DEF TypeOK

(* Adding changes one counter.                                             *)
LEMMA AddCounts ==
  ASSUME TypeOK, NEW k \in Keys, NEW n \in Nat, Add("model", k, n)
  PROVE  /\ metrics' \in [Events -> Counters]
         /\ \A j \in Keys : metrics'["model"][j] = metrics["model"][j] + IF j = k THEN n ELSE 0
  BY DEF TypeOK, Add, Counters, Events

LEMMA ZeroCounts == Zero \in Counters /\ \A k \in Keys : Zero[k] = 0
  BY DEF Zero, Counters

(* Sets of loaders are finite.                                             *)
LEMMA UncountedFinite ==
  /\ IsFiniteSet(Uncounted) /\ Cardinality(Uncounted) \in Nat
  /\ Cardinality(Cameras) \in Nat
  /\ CamerasCount => Cardinality(Uncounted) <= Cardinality(Cameras)
<1>1. IsFiniteSet(Uncounted) /\ IsFiniteSet(Cameras)
  BY FS_Subset, ReportingAssumption DEF Uncounted, Loaders
<1> QED
  BY <1>1, FS_CardinalityType, FS_Subset DEF CamerasCount

(* A loader enters the counting, or leaves it.                             *)
LEMMA OneMoreUncounted ==
  ASSUME TypeOK, NEW l \in Loaders, loader[l] # "count",
         loader' = [loader EXCEPT ![l] = "count"]
  PROVE  Uncounted' = Uncounted \cup {l} /\
         Cardinality(Uncounted') = Cardinality(Uncounted) + 1
<1>1. Uncounted' = Uncounted \cup {l} /\ l \notin Uncounted
  BY DEF Uncounted, TypeOK
<1> QED
  BY <1>1, UncountedFinite, FS_AddElement

LEMMA OneLessUncounted ==
  ASSUME TypeOK, NEW l \in Loaders, loader[l] = "count",
         loader' = [loader EXCEPT ![l] = "read"]
  PROVE  Uncounted' = Uncounted \ {l} /\
         Cardinality(Uncounted') = Cardinality(Uncounted) - 1
<1>1. Uncounted' = Uncounted \ {l} /\ l \in Uncounted
  BY DEF Uncounted, TypeOK
<1> QED
  BY <1>1, UncountedFinite, FS_RemoveElement

LEMMA InitIInv == Init => IInv
<1> SUFFICES ASSUME Init PROVE IInv
  OBVIOUS
<1>1. TypeOK
  <2>1. metrics \in [Events -> Counters] /\ taken \in Counters
    BY ZeroCounts DEF Init
  <2>2. read \in [Loaders -> 0 .. MaxFrames] /\ detectQ \in 0 .. Cap
    BY ReportingAssumption DEF Init
  <2> QED
    BY <2>1, <2>2 DEF Init, TypeOK, Steps
<1>2. Uncounted = {} /\ Pushing = {}
  BY DEF Init, Uncounted, Pushing
<1>3. CamerasCount /\ PushesInv /\ FramesInHand
  BY <1>2 DEF Init, CamerasCount, PushesInv, FramesInHand
<1>4. CountedOnce
  BY <1>2, FS_EmptySet, ZeroCounts DEF Init, CountedOnce, Here, Events, Keys
<1>5. TakenAgree
  BY UncountedFinite, ZeroCounts DEF Init, TakenAgree, Keys
<1> QED
  BY <1>1, <1>3, <1>4, <1>5 DEF IInv
-----------------------------------------------------------------------------
(* The loaders.                                                            *)

(* What a loader does once its frame is pushed or refused.                 *)
LEMMA CountedStep ==
  ASSUME IInv, NEW l \in Loaders, loader[l] # "count", Counted(l),
         loader' = [loader EXCEPT ![l] = AfterPush(l)],
         UNCHANGED <<metrics, detector, dispatching, output>>,
         raced => raced'
  PROVE  /\ pushed' \in Nat /\ filed' \in Nat
         /\ pushed' + filed' = pushed + filed + 1
         /\ loader' \in [Loaders -> {"read", "push", "count"}]
         /\ CamerasCount' /\ CountedOnce' /\ TakenAgree'
<1> USE DEF dispatching, output
<1>1. pushed' \in Nat /\ filed' \in Nat /\ pushed' + filed' = pushed + filed + 1
  BY DEF IInv, TypeOK, Counted
<1>2. loader' \in [Loaders -> {"read", "push", "count"}]
  BY DEF IInv, TypeOK, AfterPush
<1>3. /\ CamerasCount'
      /\ Cardinality(Uncounted') \in Nat
      /\ pushed' - Cardinality(Uncounted') = pushed - Cardinality(Uncounted)
  <2>1. CASE l \in Cameras
    <3>1. Uncounted' = Uncounted \cup {l} /\ Cardinality(Uncounted') = Cardinality(Uncounted) + 1
      BY <2>1, OneMoreUncounted DEF IInv, AfterPush
    <3> QED
      BY <2>1, <3>1, UncountedFinite DEF IInv, TypeOK, CamerasCount, Counted
  <2>2. CASE l \notin Cameras
    <3>1. Uncounted' = Uncounted
      BY <2>2 DEF Uncounted, AfterPush, IInv, TypeOK
    <3> QED
      BY <2>2, <3>1, UncountedFinite DEF IInv, CamerasCount, Counted
  <2> QED
    BY <2>1, <2>2
<1>4. CountedOnce'
  BY <1>3 DEF IInv, CountedOnce, Here
<1>5. TakenAgree'
  <2>1. taken["output"] \in Nat /\ taken["input"] \in Nat /\ filed' >= filed
    BY CounterTypes DEF IInv, TypeOK, Keys, Counted
  <2> QED
    BY <1>1, <2>1, UncountedFinite DEF IInv, TypeOK, TakenAgree
<1> QED
  BY <1>1, <1>2, <1>3, <1>4, <1>5

LEMMA ReadFrameStep ==
  ASSUME IInv, NEW l \in Loaders, ReadFrame(l)
  PROVE  IInv'
<1> USE DEF dispatching, output
<1>0. read' \in [Loaders -> 0 .. MaxFrames]
  BY ReportingAssumption DEF IInv, TypeOK, ReadFrame
<1>1. CASE detectQ >= Cap
  <2>1. Pushing' = Pushing
    BY <1>1 DEF IInv, TypeOK, Pushing, ReadFrame, AfterPush
  <2>2. /\ pushed' \in Nat /\ filed' \in Nat
        /\ pushed' + filed' = pushed + filed + 1
        /\ loader' \in [Loaders -> {"read", "push", "count"}]
        /\ CamerasCount' /\ CountedOnce' /\ TakenAgree'
    BY <1>1, CountedStep DEF ReadFrame, ring
  <2>3. TypeOK'
    BY <1>0, <1>1, <2>2 DEF IInv, TypeOK, ReadFrame, ring
  <2>4. PushesInv'
    BY <1>1, <2>1 DEF IInv, PushesInv, ReadFrame, ring
  <2>5. FramesInHand'
    <3>1. UNCHANGED <<raced, detectQ, popped, searched, skipped, spent, detector>>
      BY <1>1 DEF ReadFrame, ring
    <3>2. popped + detectQ <= pushed + filed => popped' + detectQ' <= pushed' + filed'
      BY <2>2, <3>1, CountTypes DEF IInv
    <3> QED
      BY <3>1, <3>2 DEF IInv, FramesInHand
  <2> QED
    BY <2>2, <2>3, <2>4, <2>5 DEF IInv
<1>2. CASE ~(detectQ >= Cap)
  <2>1. /\ loader' = [loader EXCEPT ![l] = "push"]
        /\ overlaps' = IF Pushing = {} THEN overlaps ELSE overlaps \cup Pushing \cup {l}
        /\ raced' = (raced \/ Pushing # {})
        /\ UNCHANGED <<detectQ, pushed, filed>>
    BY <1>2 DEF ReadFrame
  <2>2. Pushing' = Pushing \cup {l} /\ l \notin Pushing /\ Uncounted' = Uncounted
    BY <2>1 DEF IInv, TypeOK, Pushing, Uncounted, ReadFrame
  <2>3. TypeOK'
    BY <1>0, <2>1 DEF IInv, TypeOK, ReadFrame, Pushing
  <2>4. PushesInv'
    <3>1. CASE Pushing = {}
      <4>1. overlaps' = {} /\ Pushing' = {l}
        BY <2>1, <2>2, <3>1 DEF IInv, PushesInv
      <4>2. detectQ' < Cap
        BY <1>2, <2>1, CountTypes DEF IInv
      <4> QED
        BY <4>1, <4>2 DEF PushesInv
    <3>2. CASE Pushing # {}
      BY <2>1, <2>2, <3>2 DEF IInv, PushesInv
    <3> QED
      BY <3>1, <3>2
  <2>5. CamerasCount' /\ FramesInHand' /\ CountedOnce' /\ TakenAgree'
    BY <2>1, <2>2 DEF IInv, CamerasCount, FramesInHand, CountedOnce, TakenAgree, Here, ReadFrame
  <2> QED
    BY <2>3, <2>4, <2>5 DEF IInv
<1> QED
  BY <1>1, <1>2

LEMMA FramePushedStep ==
  ASSUME IInv, NEW l \in Loaders, FramePushed(l)
  PROVE  IInv'
<1> USE DEF dispatching, output
<1>1. Pushing' = Pushing \ {l} /\ l \in Pushing
  BY DEF IInv, TypeOK, Pushing, FramePushed, AfterPush
<1>2. /\ pushed' \in Nat /\ filed' \in Nat
      /\ pushed' + filed' = pushed + filed + 1
      /\ loader' \in [Loaders -> {"read", "push", "count"}]
      /\ CamerasCount' /\ CountedOnce' /\ TakenAgree'
  BY CountedStep DEF FramePushed
<1>3. detectQ' \in 0 .. Cap /\ (raced \/ detectQ' = detectQ + 1)
  BY <1>1, ReportingAssumption DEF IInv, TypeOK, PushesInv, FramePushed
<1>4. TypeOK'
  BY <1>2, <1>3 DEF IInv, TypeOK, FramePushed
<1>5. PushesInv'
  BY <1>1 DEF IInv, PushesInv, FramePushed
<1>6. FramesInHand'
  <2>1. UNCHANGED <<raced, popped, searched, skipped, spent, detector>>
    BY DEF FramePushed
  <2>2. raced \/ (popped + detectQ <= pushed + filed => popped' + detectQ' <= pushed' + filed')
    BY <1>2, <1>3, <2>1, CountTypes DEF IInv
  <2> QED
    BY <2>1, <2>2 DEF IInv, FramesInHand
<1> QED
  BY <1>2, <1>4, <1>5, <1>6 DEF IInv

LEMMA CountInputStep ==
  ASSUME IInv, NEW l \in Loaders, CountInput(l)
  PROVE  IInv'
<1> USE DEF ring, dispatching, input, output
<1>1. /\ metrics' \in [Events -> Counters]
      /\ \A j \in Keys : metrics'["model"][j] = metrics["model"][j] + IF j = "input" THEN 1 ELSE 0
  BY AddCounts DEF IInv, CountInput, Keys
<1>2. TypeOK'
  BY <1>1 DEF IInv, TypeOK, CountInput
<1>3. Uncounted' = Uncounted \ {l} /\ Cardinality(Uncounted') = Cardinality(Uncounted) - 1
  BY OneLessUncounted DEF IInv, CountInput
<1>4. Pushing' = Pushing
  BY DEF IInv, TypeOK, Pushing, CountInput
<1>5. CamerasCount' /\ PushesInv' /\ FramesInHand' /\ TakenAgree'
  BY <1>3, <1>4 DEF IInv, CamerasCount, PushesInv, FramesInHand, TakenAgree, CountInput
<1>6. CountedOnce'
  <2>1. /\ metrics'["model"]["input"] = metrics["model"]["input"] + 1
        /\ metrics'["model"]["output"] = metrics["model"]["output"]
        /\ metrics'["model"]["detect"] = metrics["model"]["detect"]
        /\ metrics'["model"]["cost"] = metrics["model"]["cost"]
    BY <1>1, CounterTypes DEF IInv, Keys
  <2> QED
    BY <1>3, <2>1, CounterTypes, UncountedFinite
    DEF IInv, TypeOK, CountedOnce, Here, Keys, CountInput
<1> QED
  BY <1>2, <1>5, <1>6 DEF IInv
-----------------------------------------------------------------------------
(* The detector.                                                           *)

(* What a step of the detector or dispatcher leaves alone.                 *)
LEMMA LoadersUnchanged ==
  ASSUME IInv, UNCHANGED <<loader, overlaps, raced>>, detectQ' <= detectQ, detectQ' \in 0 .. Cap
  PROVE  /\ CamerasCount' /\ PushesInv'
         /\ Uncounted' = Uncounted /\ Cardinality(Uncounted) \in Nat
<1>1. Uncounted' = Uncounted /\ Pushing' = Pushing
  BY DEF Uncounted, Pushing
<1> QED
  BY <1>1, UncountedFinite, ReportingAssumption DEF IInv, TypeOK, CamerasCount, PushesInv

LEMMA DetectorStartsStep ==
  ASSUME IInv, DetectorStarts
  PROVE  IInv'
<1> USE DEF ring, dispatching, input, output
<1>1. /\ metrics' \in [Events -> Counters]
      /\ \A j \in Keys : metrics'["model"][j] = IF j = "input" THEN metrics["model"][j] ELSE 0
  BY DEF IInv, TypeOK, DetectorStarts, Set, ZeroKeys, Counters, Events, Keys
<1>2. TypeOK'
  BY <1>1 DEF IInv, TypeOK, DetectorStarts, Steps
<1>3. CamerasCount' /\ PushesInv' /\ Uncounted' = Uncounted
  BY LoadersUnchanged DEF IInv, TypeOK, DetectorStarts
<1>4. FramesInHand' /\ TakenAgree'
  BY DEF IInv, FramesInHand, TakenAgree, DetectorStarts
<1>5. CountedOnce'
  <2>1. /\ metrics'["model"]["input"] = metrics["model"]["input"]
        /\ metrics'["model"]["output"] = 0
        /\ metrics'["model"]["detect"] = 0
        /\ metrics'["model"]["cost"] = 0
    BY <1>1 DEF Keys
  <2>2. popped = 0 /\ searched = 0 /\ spent = 0
    BY DEF IInv, FramesInHand, DetectorStarts
  <2>3. taken["output"] = 0 /\ taken["detect"] = 0 /\ taken["cost"] = 0
    BY <2>2, CounterTypes DEF IInv, CountedOnce, Here, Keys, DetectorStarts
  <2> QED
    BY <1>3, <2>1, <2>2, <2>3 DEF IInv, CountedOnce, Here, DetectorStarts
<1> QED
  BY <1>2, <1>3, <1>4, <1>5 DEF IInv

LEMMA PopStep ==
  ASSUME IInv, Pop
  PROVE  IInv'
<1> USE DEF dispatching, input
<1>1. TypeOK'
  BY ReportingAssumption DEF IInv, TypeOK, Pop, Steps
<1>2. CamerasCount' /\ PushesInv' /\ Uncounted' = Uncounted
  BY <1>1, LoadersUnchanged DEF IInv, TypeOK, Pop
<1>3. FramesInHand'
  BY DEF IInv, TypeOK, FramesInHand, Pop
<1>4. CountedOnce' /\ TakenAgree'
  BY <1>2 DEF IInv, TypeOK, CountedOnce, TakenAgree, Here, Pop
<1> QED
  BY <1>1, <1>2, <1>3, <1>4 DEF IInv

LEMMA CountOutputStep ==
  ASSUME IInv, CountOutput
  PROVE  IInv'
<1> USE DEF ring, dispatching, input, output
<1>1. /\ metrics' \in [Events -> Counters]
      /\ \A j \in Keys : metrics'["model"][j] = metrics["model"][j] + IF j = "output" THEN 1 ELSE 0
  BY AddCounts DEF IInv, CountOutput, Keys
<1>2. TypeOK'
  BY <1>1 DEF IInv, TypeOK, CountOutput, Steps
<1>3. CamerasCount' /\ PushesInv' /\ Uncounted' = Uncounted
  BY LoadersUnchanged DEF IInv, TypeOK, CountOutput
<1>4. FramesInHand' /\ TakenAgree'
  BY DEF IInv, FramesInHand, TakenAgree, CountOutput
<1>5. CountedOnce'
  <2>1. /\ metrics'["model"]["input"] = metrics["model"]["input"]
        /\ metrics'["model"]["output"] = metrics["model"]["output"] + 1
        /\ metrics'["model"]["detect"] = metrics["model"]["detect"]
        /\ metrics'["model"]["cost"] = metrics["model"]["cost"]
    BY <1>1, CounterTypes DEF IInv, Keys
  <2> QED
    BY <1>3, <2>1, CounterTypes DEF IInv, TypeOK, CountedOnce, Here, Keys, CountOutput
<1> QED
  BY <1>2, <1>3, <1>4, <1>5 DEF IInv

LEMMA SkipStep ==
  ASSUME IInv, Skip
  PROVE  IInv'
<1> USE DEF ring, dispatching, input
<1>1. TypeOK' /\ detector' \in {"pop", "ended"}
  BY DEF IInv, TypeOK, Skip, Steps
<1>2. CamerasCount' /\ PushesInv' /\ Uncounted' = Uncounted
  BY LoadersUnchanged DEF IInv, TypeOK, Skip
<1>3. FramesInHand' /\ CountedOnce'
  BY <1>1, <1>2 DEF IInv, TypeOK, FramesInHand, CountedOnce, Here, Skip
<1>4. TakenAgree'
  BY CounterTypes DEF IInv, TypeOK, TakenAgree, Keys, Skip
<1> QED
  BY <1>1, <1>2, <1>3, <1>4 DEF IInv

LEMMA SearchStep ==
  ASSUME IInv, Search
  PROVE  IInv'
<1> USE DEF ring, dispatching, input
<1>1. /\ metrics' \in [Events -> Counters]
      /\ \A j \in Keys : metrics'["model"][j] = metrics["model"][j] + IF j = "detect" THEN 1 ELSE 0
  BY AddCounts DEF IInv, Search, Keys
<1>2. TypeOK'
  BY <1>1 DEF IInv, TypeOK, Search, Steps
<1>3. CamerasCount' /\ PushesInv' /\ Uncounted' = Uncounted
  BY LoadersUnchanged DEF IInv, TypeOK, Search
<1>4. FramesInHand' /\ TakenAgree'
  BY DEF IInv, TypeOK, FramesInHand, TakenAgree, Search
<1>5. CountedOnce'
  <2>1. /\ metrics'["model"]["input"] = metrics["model"]["input"]
        /\ metrics'["model"]["output"] = metrics["model"]["output"]
        /\ metrics'["model"]["detect"] = metrics["model"]["detect"] + 1
        /\ metrics'["model"]["cost"] = metrics["model"]["cost"]
    BY <1>1, CounterTypes DEF IInv, Keys
  <2> QED
    BY <1>3, <2>1, CounterTypes DEF IInv, TypeOK, CountedOnce, Here, Keys, Search
<1> QED
  BY <1>2, <1>3, <1>4, <1>5 DEF IInv

LEMMA CountCostStep ==
  ASSUME IInv, CountCost
  PROVE  IInv'
<1> USE DEF ring, dispatching, input
<1>0. PICK d \in Costs : Add("model", "cost", d) /\ spent' = spent + d
  BY DEF CountCost
<1>1. /\ metrics' \in [Events -> Counters] /\ d \in Nat
      /\ \A j \in Keys : metrics'["model"][j] = metrics["model"][j] + IF j = "cost" THEN d ELSE 0
  BY <1>0, AddCounts, ReportingAssumption DEF IInv, Keys
<1>2. TypeOK'
  BY <1>0, <1>1 DEF IInv, TypeOK, CountCost, Steps
<1>3. CamerasCount' /\ PushesInv' /\ Uncounted' = Uncounted
  BY LoadersUnchanged DEF IInv, TypeOK, CountCost
<1>4. FramesInHand' /\ TakenAgree'
  BY DEF IInv, FramesInHand, TakenAgree, CountCost
<1>5. CountedOnce'
  <2>1. /\ metrics'["model"]["input"] = metrics["model"]["input"]
        /\ metrics'["model"]["output"] = metrics["model"]["output"]
        /\ metrics'["model"]["detect"] = metrics["model"]["detect"]
        /\ metrics'["model"]["cost"] = metrics["model"]["cost"] + d
    BY <1>1, CounterTypes DEF IInv, Keys
  <2> QED
    BY <1>0, <1>1, <1>3, <2>1, CounterTypes
    DEF IInv, TypeOK, CountedOnce, Here, Keys, CountCost
<1> QED
  BY <1>2, <1>3, <1>4, <1>5 DEF IInv

LEMMA TimerStep ==
  ASSUME IInv, Timer
  PROVE  IInv'
<1> USE DEF ring, input, output
<1>1. TypeOK'
  BY DEF IInv, TypeOK, Timer, Steps, Events
<1>2. CamerasCount' /\ PushesInv' /\ Uncounted' = Uncounted
  BY LoadersUnchanged DEF IInv, TypeOK, Timer
<1>3. FramesInHand' /\ CountedOnce' /\ TakenAgree'
  BY <1>2 DEF IInv, FramesInHand, CountedOnce, TakenAgree, Here, Timer
<1> QED
  BY <1>1, <1>2, <1>3 DEF IInv
-----------------------------------------------------------------------------
(* The dispatcher.                                                         *)
LEMMA DispatchStep ==
  ASSUME IInv, Dispatch
  PROVE  IInv'
<1> USE DEF ring, input, output
<1>1. TypeOK'
  BY DEF IInv, TypeOK, Dispatch
<1>2. CamerasCount' /\ PushesInv' /\ Uncounted' = Uncounted
  BY LoadersUnchanged DEF IInv, TypeOK, Dispatch
<1>3. FramesInHand' /\ CountedOnce' /\ TakenAgree'
  BY <1>2 DEF IInv, FramesInHand, CountedOnce, TakenAgree, Here, Dispatch
<1> QED
  BY <1>1, <1>2, <1>3 DEF IInv

LEMMA HandleStep ==
  ASSUME IInv, Handle
  PROVE  IInv'
<1> USE DEF ring, input, output
<1>1. CamerasCount' /\ PushesInv' /\ Uncounted' = Uncounted /\ Cardinality(Uncounted) \in Nat
  BY LoadersUnchanged DEF IInv, TypeOK, Handle
<1>2. FramesInHand'
  BY DEF IInv, FramesInHand, Handle
<1>3. CASE event = "image"
  <2>1. metrics'["model"] = metrics["model"] /\ UNCHANGED taken
    BY <1>3 DEF IInv, TypeOK, Handle, GetAndClear, Cleared, Events
  <2>2. metrics' \in [Events -> Counters]
    BY ZeroCounts DEF IInv, TypeOK, Handle, GetAndClear, Cleared
  <2>3. TypeOK'
    BY <2>1, <2>2 DEF IInv, TypeOK, Handle
  <2>4. CountedOnce' /\ TakenAgree'
    BY <1>1, <2>1 DEF IInv, CountedOnce, TakenAgree, Here, Handle
  <2> QED
    BY <1>1, <1>2, <2>3, <2>4 DEF IInv
<1>4. CASE event = "model"
  <2>1. metrics' \in [Events -> Counters] /\ metrics'["model"] = Zero
    BY <1>4, ZeroCounts DEF IInv, TypeOK, Handle, GetAndClear, Cleared, Events
  <2>2. \A k \in Keys : taken'[k] = taken[k] + metrics["model"][k]
    BY <1>4 DEF Handle, GetAndClear
  <2>3. taken' \in Counters
    BY <1>4, CounterTypes DEF IInv, Handle, GetAndClear, Counters
  <2>4. TypeOK'
    BY <2>1, <2>3 DEF IInv, TypeOK, Handle
  <2>5. /\ taken'["input"] = pushed - Cardinality(Uncounted)
        /\ taken'["output"] = popped - Here("output")
        /\ taken'["detect"] = searched
        /\ taken'["cost"] = spent
    BY <2>2, CounterTypes DEF IInv, CountedOnce, Keys
  <2>6. /\ metrics'["model"]["input"] = 0 /\ metrics'["model"]["output"] = 0
        /\ metrics'["model"]["detect"] = 0 /\ metrics'["model"]["cost"] = 0
    BY <2>1, ZeroCounts DEF Keys
  <2>7. CountedOnce'
    BY <1>1, <2>5, <2>6 DEF IInv, TypeOK, CountedOnce, Here, Handle
  <2>8. taken'["output"] - taken'["detect"] \in 0 .. skipped' + 1
    BY <2>5 DEF IInv, TypeOK, FramesInHand, Here, Handle
  <2>9. raced' \/ taken'["output"] <= taken'["input"] + filed' + Cardinality(Cameras)
    <3>1. Cardinality(Uncounted) <= Cardinality(Cameras) /\ Cardinality(Cameras) \in Nat
      BY UncountedFinite DEF IInv
    <3>2. raced \/ popped <= pushed + filed
      BY ReportingAssumption DEF IInv, TypeOK, FramesInHand
    <3> QED
      BY <1>1, <2>5, <3>1, <3>2 DEF IInv, TypeOK, Here, Handle
  <2>10. TakenAgree'
    BY <2>8, <2>9 DEF TakenAgree
  <2> QED
    BY <1>1, <1>2, <2>4, <2>7, <2>10 DEF IInv
<1> QED
  BY <1>3, <1>4 DEF Handle, Events
-----------------------------------------------------------------------------
LEMMA StepIInv == IInv /\ [Next]_vars => IInv'
<1> SUFFICES ASSUME IInv, [Next]_vars PROVE IInv'
  OBVIOUS
<1>1. ASSUME NEW l \in Loaders, ReadFrame(l) \/ FramePushed(l) \/ CountInput(l) PROVE IInv'
  BY <1>1, ReadFrameStep, FramePushedStep, CountInputStep
<1>2. ASSUME Detect PROVE IInv'
  BY <1>2, DetectorStartsStep, PopStep, CountOutputStep, SkipStep, SearchStep, CountCostStep,
     TimerStep
  DEF Detect
<1>3. ASSUME Dispatch \/ Handle PROVE IInv'
  BY <1>3, DispatchStep, HandleStep
<1>4. CASE UNCHANGED vars
  <2> USE DEF vars, ring, dispatching, input, output
  <2>1. TypeOK'
    BY <1>4 DEF IInv, TypeOK
  <2>2. CamerasCount' /\ PushesInv' /\ Uncounted' = Uncounted
    BY <1>4, LoadersUnchanged DEF IInv, TypeOK
  <2>3. FramesInHand' /\ CountedOnce' /\ TakenAgree'
    BY <1>4, <2>2 DEF IInv, FramesInHand, CountedOnce, TakenAgree, Here
  <2> QED
    BY <2>1, <2>2, <2>3 DEF IInv
<1> QED
  BY <1>1, <1>2, <1>3, <1>4 DEF Next
-----------------------------------------------------------------------------
(* Every state of the counting threads satisfies the inductive invariant.  *)
THEOREM Invariance == Spec => []IInv
  BY InitIInv, StepIInv, PTL DEF Spec

(* Every counter, queue and history keeps its type.                        *)
THEOREM TypeCorrect == Spec => []TypeOK
<1>1. IInv => TypeOK
  BY DEF IInv
<1> QED
  BY <1>1, Invariance, PTL

(* However many loaders add while the dispatcher takes and clears, every   *)
(* frame and every millisecond is in the counters or taken, once.          *)
THEOREM FramesCounted == Spec => []CountedOnce
<1>1. IInv => CountedOnce
  BY DEF IInv
<1> QED
  BY <1>1, Invariance, PTL

(* What has been taken never shows more detections than frames, nor, while *)
(* no two pushes overlapped, more frames out than in beyond the files' and *)
(* one for each camera.                                                    *)
THEOREM Agreement == Spec => []TakenAgree
<1>1. IInv => TakenAgree
  BY DEF IInv
<1> QED
  BY <1>1, Invariance, PTL
=============================================================================
