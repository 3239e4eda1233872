---------------------------- MODULE Startup_proofs ----------------------------
(***************************************************************************)
(* Proofs about Startup, for any lists of features and inputs and any size *)
(* of the pool: whoever looks a queue up finds the one all others found,   *)
(* no loader runs before the stages behind it, a service that polls is     *)
(* complete, and no task of the pool is ever in two places.                *)
(***************************************************************************)
EXTENDS Startup, SequenceTheorems, FiniteSetTheorems, TLAPS

Scheduled == Range(waiting) \cup running \cup left

Names ==
  {"DispatchProcessor", "FlowRpcAsynProcessor", "MonitorProcessor", "DetectorProcessor"} \cup
  {Loader[k] : k \in DOMAIN Loader}

(* The configuration, queues and tasks have their types.                   *)
Types ==
  /\ features \in Seq(STRING) /\ inputs \in Seq(DOMAIN KindOf)
  /\ at \in Nat \ {0} /\ made \in Nat
  /\ \A n \in DOMAIN queues : queues[n] \in 1 .. made
  /\ waiting \in Seq(Names \X Nat)

(* Whoever has looked a queue up holds the queue of that name.             *)
HeldInv ==
  \A t \in DOMAIN held : \A n \in DOMAIN held[t] :
    n \in DOMAIN queues /\ held[t][n] = queues[n]

(* A task that was initialised and handed to the pool.                     *)
Ready(t) == t \in DOMAIN held /\ t \in Scheduled

(* What is there at each step of the main thread: of the global tasks, ... *)
GlobalInv ==
  /\ step \in {"global", "flow", "build", "start", "add", "core", "video", "run", "loop"} =>
       version \in DOMAIN NetworkFiles
  /\ step = "env" => at = 1
  /\ step = "global" =>
       at \in 1 .. 2 /\ (at = 2 => "DispatchProcessor" \in DOMAIN queues
                                   /\ Ready(<<"DispatchProcessor", 1>>))
  /\ step \in {"flow", "build", "start", "add", "core", "video", "run", "loop"} =>
       /\ "DispatchProcessor" \in DOMAIN queues
       /\ Ready(<<"DispatchProcessor", 1>>) /\ Ready(<<"FlowRpcAsynProcessor", 1>>)
  /\ step \in {"build", "start", "add", "core", "video", "run", "loop"} => flow

(* ... of each feature, which is nothing at all if it is unknown, ...      *)
Monitored(i) == features[i] = "monitor"
Built(i) ==
  Monitored(i) => "MonitorProcessor" \in DOMAIN queues /\ <<"MonitorProcessor", i>> \in DOMAIN held
FeatureReady(i) == Built(i) /\ (Monitored(i) => Ready(<<"MonitorProcessor", i>>))

FeatureInv ==
  /\ step \in {"build", "start", "add"} =>
       at \in 1 .. Len(features) /\ \A i \in 1 .. at - 1 : FeatureReady(i)
  /\ step \in {"start", "add"} => Built(at)
  /\ step = "add" => FeatureReady(at)
  /\ step \in {"core", "video", "run", "loop"} =>
       \A i \in 1 .. Len(features) : FeatureReady(i)

(* ... of the detector and of the inputs.                                  *)
InputInv ==
  /\ step \in {"video", "run", "loop"} =>
       /\ "DetectorProcessor" \in DOMAIN queues /\ Ready(Detector)
       /\ \A i \in 1 .. Len(features) : Monitored(i)
  /\ step \in {"env", "global", "flow", "build", "start", "add", "core", "video"} =>
       started = {}
  /\ step \in {"env", "global", "flow", "build", "start", "add", "core"} =>
       executors = {}
  /\ step = "video" =>
       at \in 1 .. Len(inputs) + 1 /\ executors = {inputs[i] : i \in 1 .. at - 1}
  /\ step \in {"run", "loop"} => executors = Range(inputs) /\ inputs # <<>>
  /\ step = "loop" => started = executors

(* Loaders come last, in time and among the waiting tasks.                 *)
LoadersLast ==
  /\ Scheduled \cap Loaders # {} =>
       /\ step \in {"run", "loop", "leaving", "ended"}
       /\ flow /\ "DetectorProcessor" \in DOMAIN queues
       /\ Stages \subseteq Scheduled
  /\ \A i, j \in 1 .. Len(waiting) : i < j /\ waiting[i] \in Loaders => waiting[j] \in Loaders
  /\ running \cap Loaders # {} => Range(waiting) \subseteq Loaders

(* The inductive invariant.                                                *)
IInv ==
  /\ Types /\ HeldInv /\ GlobalInv /\ FeatureInv /\ InputInv /\ LoadersLast
-----------------------------------------------------------------------------
(* The chain of a feature is the monitor or nothing.                       *)
LEMMA Chains ==
  ASSUME Types, NEW i \in 1 .. Len(features)
  PROVE  /\ Monitored(i) => /\ Chain(features[i]) = <<"MonitorProcessor">>
                            /\ FeatureTasks(i) = << <<"MonitorProcessor", i>> >>
                            /\ Range(FeatureTasks(i)) = {<<"MonitorProcessor", i>>}
         /\ ~Monitored(i) => /\ Chain(features[i]) = <<>> /\ FeatureTasks(i) = <<>>
                             /\ Range(FeatureTasks(i)) = {}
<1>1. CASE Monitored(i)
  <2>1. Chain(features[i]) = <<"MonitorProcessor">>
    BY <1>1 DEF Chain, FeatureMap, Monitored
  <2>2. FeatureTasks(i) = << <<"MonitorProcessor", i>> >>
    BY <2>1 DEF FeatureTasks
  <2> QED
    BY <1>1, <2>1, <2>2 DEF Range
<1>2. CASE ~Monitored(i)
  <2>1. Chain(features[i]) = <<>>
    BY <1>2 DEF Chain, FeatureMap, Monitored
  <2>2. FeatureTasks(i) = <<>>
    BY <2>1 DEF FeatureTasks
  <2> QED
    BY <1>2, <2>1, <2>2 DEF Range
<1> QED
  BY <1>1, <1>2

(* Loaders are no stages.                                                  *)
LEMMA LoaderNames ==
  /\ \A t \in Loaders : /\ t[1] \notin {"DispatchProcessor", "FlowRpcAsynProcessor",
                                        "MonitorProcessor", "DetectorProcessor"}
                        /\ t \in Names \X Nat
  /\ \A i \in DOMAIN KindOf : LoaderTask(i) \in Names \X Nat /\ LoaderTask(i) \in Loaders
<1>1. \A i \in DOMAIN KindOf : KindOf[i] \in DOMAIN Loader /\ i \in Nat
  BY StartupAssumption
<1>2. \A k \in DOMAIN Loader :
        /\ Loader[k] \in Names
        /\ Loader[k] \notin {"DispatchProcessor", "FlowRpcAsynProcessor",
                             "MonitorProcessor", "DetectorProcessor"}
  <2>1. DOMAIN Loader = {"rtsp", "usb", "local", "hisi", "rtmp"}
    BY DEF Loader
  <2>2. /\ Loader["rtsp"] = "RtspLoaderProcessor" /\ Loader["usb"] = "UsbDeviceLoaderProcessor"
        /\ Loader["local"] = "LocalVideoLoaderProcessor"
        /\ Loader["hisi"] = "HisiCameraProcessor" /\ Loader["rtmp"] = ""
    BY DEF Loader
  <2> QED
    BY <2>1, <2>2 DEF Names
<1>3. \A i \in DOMAIN KindOf : LoaderTask(i) = <<Loader[KindOf[i]], i>>
  BY DEF LoaderTask
<1> QED
  BY <1>1, <1>2, <1>3 DEF Loaders

(* The stages, feature by feature.                                         *)
LEMMA StageNames ==
  ASSUME Types
  PROVE  Stages = {<<"DispatchProcessor", 1>>, <<"FlowRpcAsynProcessor", 1>>, Detector} \cup
                  {<<"MonitorProcessor", i>> : i \in {k \in 1 .. Len(features) : Monitored(k)}}
<1>1. {<<n, 1>> : n \in Range(global_executor_names_)} =
        {<<"DispatchProcessor", 1>>, <<"FlowRpcAsynProcessor", 1>>}
  BY DEF global_executor_names_, Range
<1>2. UNION {Range(FeatureTasks(i)) : i \in DOMAIN features} =
        {<<"MonitorProcessor", i>> : i \in {k \in 1 .. Len(features) : Monitored(k)}}
  <2>1. DOMAIN features = 1 .. Len(features)
    BY DEF Types
  <2> QED
    BY <2>1, Chains
<1> QED
  BY <1>1, <1>2 DEF Stages

(* What each processor looks up.                                           *)
LEMMA UsesOf ==
  /\ Uses(<<"DispatchProcessor", 1>>) = {"DispatchProcessor"}
  /\ Uses(<<"FlowRpcAsynProcessor", 1>>) = {}
  /\ \A i : Uses(<<"MonitorProcessor", i>>) = {"MonitorProcessor", "DispatchProcessor"}
  /\ Uses(Detector) \subseteq {"DetectorProcessor", "DispatchProcessor"} \cup
                              {n \in {"MonitorProcessor"} : "monitor" \in Range(features)}
  /\ \A t \in Loaders : Uses(t) = {"DetectorProcessor"}
<1>1. Uses(<<"DispatchProcessor", 1>>) = {"DispatchProcessor"}
  BY DEF Uses, Detector
<1>2. Uses(<<"FlowRpcAsynProcessor", 1>>) = {}
  BY DEF Uses, Detector
<1>3. \A i : Uses(<<"MonitorProcessor", i>>) = {"MonitorProcessor", "DispatchProcessor"}
  BY DEF Uses, Detector
<1>4. Uses(Detector) = {"DetectorProcessor", "DispatchProcessor"} \cup
         {FeatureMap[f][1] : f \in Range(features) \cap DOMAIN FeatureMap}
  BY DEF Uses, Detector
<1>5. \A f \in DOMAIN FeatureMap : f = "monitor" /\ FeatureMap[f][1] = "MonitorProcessor"
  BY DEF FeatureMap
<1>6. \A t \in Loaders : Uses(t) = {"DetectorProcessor"}
  BY LoaderNames DEF Uses, Detector
<1> QED
  BY <1>1, <1>2, <1>3, <1>4, <1>5, <1>6
-----------------------------------------------------------------------------
(* The operations.                                                         *)
LEMMA Scheduling ==
  ASSUME Types, NEW tasks \in Seq(Names \X Nat), Schedule(tasks), UNCHANGED <<running, left>>
  PROVE  /\ waiting' \in Seq(Names \X Nat)
         /\ Scheduled' = Scheduled \cup Range(tasks)
         /\ Range(waiting') = Range(waiting) \cup Range(tasks)
<1>1. waiting' = waiting \o tasks /\ waiting' \in Seq(Names \X Nat)
  BY DEF Types, Schedule
<1>3. /\ DOMAIN waiting = 1 .. Len(waiting) /\ DOMAIN waiting' = 1 .. Len(waiting')
      /\ DOMAIN tasks = 1 .. Len(tasks) /\ Len(waiting') = Len(waiting) + Len(tasks)
  BY <1>1 DEF Types
<1>2. Range(waiting') = Range(waiting) \cup Range(tasks)
  <2>1. \A i \in 1 .. Len(waiting) : i \in DOMAIN waiting' /\ waiting'[i] = waiting[i]
    BY <1>1 DEF Types
  <2>2. \A i \in 1 .. Len(tasks) :
          Len(waiting) + i \in DOMAIN waiting' /\ waiting'[Len(waiting) + i] = tasks[i]
    BY <1>1 DEF Types
  <2>3. \A i \in DOMAIN waiting' : i \in 1 .. Len(waiting) \/ i - Len(waiting) \in 1 .. Len(tasks)
    BY <1>1 DEF Types
  <2>4. ASSUME NEW x \in Range(waiting') PROVE x \in Range(waiting) \cup Range(tasks)
    <3>1. PICK i \in DOMAIN waiting' : x = waiting'[i]
      BY DEF Range
    <3>2. CASE i \in 1 .. Len(waiting)
      BY <1>3, <2>1, <3>1, <3>2 DEF Range
    <3>3. CASE i - Len(waiting) \in 1 .. Len(tasks)
      <4>1. Len(waiting) + (i - Len(waiting)) = i
        BY <1>1 DEF Types
      <4> QED
        BY <1>3, <2>2, <3>1, <3>3, <4>1 DEF Range
    <3> QED
      BY <2>3, <3>2, <3>3
  <2>5. ASSUME NEW x \in Range(waiting) PROVE x \in Range(waiting')
    <3>1. PICK i \in DOMAIN waiting : x = waiting[i]
      BY DEF Range
    <3> QED
      BY <1>3, <2>1, <3>1 DEF Range
  <2>6. ASSUME NEW x \in Range(tasks) PROVE x \in Range(waiting')
    <3>1. PICK i \in DOMAIN tasks : x = tasks[i]
      BY DEF Range
    <3> QED
      BY <1>3, <2>2, <3>1 DEF Range
  <2> QED
    BY <2>4, <2>5, <2>6
<1> QED
  BY <1>1, <1>2 DEF Scheduled

(* The next task moves from the queue of the pool to its threads.          *)
LEMMA Taking ==
  ASSUME Types, Take
  PROVE  /\ waiting' \in Seq(Names \X Nat)
         /\ Scheduled' = Scheduled
         /\ Range(waiting') \subseteq Range(waiting)
         /\ running' = running \cup {waiting[1]} /\ waiting[1] \in Range(waiting)
         /\ Len(waiting) \in Nat \ {0} /\ Len(waiting') = Len(waiting) - 1
         /\ \A i \in 1 .. Len(waiting') : waiting'[i] = waiting[i + 1]
<1>1. Len(waiting) \in Nat \ {0} /\ running' = running \cup {waiting[1]}
  BY DEF Types, Take, NextTask
<1>2. waiting' = SubSeq(waiting, 1, 0) \o SubSeq(waiting, 2, Len(waiting))
  BY DEF Take, NextTask, RemoveAt
<1>3. waiting \in Seq(Names \X Nat) /\ waiting # <<>>
  BY DEF Types, Take
<1>4. waiting' = Tail(waiting)
  <2>1. Tail(waiting) \in Seq(Names \X Nat) /\ Tail(waiting) = SubSeq(waiting, 2, Len(waiting))
    BY <1>3, HeadTailProperties, TailIsSubSeq
  <2>2. SubSeq(waiting, 1, 0) = <<>>
    BY SubSeqEmpty
  <2> QED
    BY <1>2, <2>1, <2>2
<1>5. /\ waiting' \in Seq(Names \X Nat) /\ Len(waiting') = Len(waiting) - 1
      /\ \A i \in 1 .. Len(waiting') : waiting'[i] = waiting[i + 1]
  BY <1>3, <1>4, HeadTailProperties
<1>0. DOMAIN waiting = 1 .. Len(waiting) /\ DOMAIN waiting' = 1 .. Len(waiting')
  BY <1>5 DEF Types
<1>6. waiting[1] \in Range(waiting)
  BY <1>1 DEF Range, Types
<1>7. Range(waiting') \subseteq Range(waiting)
  <2> SUFFICES ASSUME NEW i \in DOMAIN waiting' PROVE waiting'[i] \in Range(waiting)
    BY DEF Range
  <2>1. i + 1 \in DOMAIN waiting /\ waiting'[i] = waiting[i + 1]
    BY <1>0, <1>1, <1>5
  <2> QED
    BY <2>1 DEF Range
<1>8. \A x \in Range(waiting) : x = waiting[1] \/ x \in Range(waiting')
  <2>1. ASSUME NEW i \in DOMAIN waiting, i # 1 PROVE waiting[i] \in Range(waiting')
    <3>1. i - 1 \in DOMAIN waiting' /\ waiting'[i - 1] = waiting[i]
      BY <1>0, <1>1, <1>5, <2>1
    <3> QED
      BY <3>1 DEF Range
  <2> QED
    BY <2>1 DEF Range
<1>9. left' = left
  BY DEF Take
<1> QED
  BY <1>1, <1>5, <1>6, <1>7, <1>8, <1>9 DEF Scheduled

(* A queue that exists is kept, and the new one is there.                  *)
LEMMA Building ==
  ASSUME Types, NEW name, BuildProcessor(name)
  PROVE  /\ made' \in Nat /\ \A n \in DOMAIN queues' : queues'[n] \in 1 .. made'
         /\ DOMAIN queues' = DOMAIN queues \cup {name}
         /\ \A n \in DOMAIN queues : queues'[n] = queues[n]
         /\ queues' = SafeAdd(name)
<1>1. queues' = SafeAdd(name) /\ made' = made + 1
  BY DEF BuildProcessor
<1>2. DOMAIN queues' = DOMAIN queues \cup {name}
  BY <1>1 DEF SafeAdd
<1>3. \A n \in DOMAIN queues' : queues'[n] = IF n \in DOMAIN queues THEN queues[n] ELSE made + 1
  BY <1>1 DEF SafeAdd
<1> QED
  BY <1>1, <1>2, <1>3 DEF Types

(* A task whose queues exist keeps HeldInv.                                *)
LEMMA Initialising ==
  ASSUME HeldInv, NEW task, InitProcessor(queues', task), Uses(task) \subseteq DOMAIN queues',
         \A n \in DOMAIN queues : n \in DOMAIN queues' /\ queues'[n] = queues[n]
  PROVE  HeldInv' /\ DOMAIN held' = DOMAIN held \cup {task}
<1>1. DOMAIN held' = DOMAIN held \cup {task}
  BY DEF InitProcessor
<1>2. held'[task] = [n \in Uses(task) |-> queues'[n]]
  BY DEF InitProcessor, SafeGet
<1>3. \A t \in DOMAIN held : t # task => held'[t] = held[t]
  BY DEF InitProcessor
<1> QED
  BY <1>1, <1>2, <1>3 DEF HeldInv

(* Steps that take nothing away keep what is ready.                        *)
LEMMA ReadyKept ==
  ASSUME DOMAIN queues \subseteq DOMAIN queues', DOMAIN held \subseteq DOMAIN held',
         Scheduled \subseteq Scheduled', UNCHANGED features
  PROVE  /\ \A t : Ready(t) => Ready(t)'
         /\ \A i : Built(i) => Built(i)'
         /\ \A i : FeatureReady(i) => FeatureReady(i)'
         /\ \A i : Monitored(i)' = Monitored(i)
  BY DEF Ready, Built, FeatureReady, Monitored
-----------------------------------------------------------------------------
(* What steps keep that leave the main thread where it is, ...             *)
LEMMA MainKept ==
  ASSUME IInv, UNCHANGED <<config, step, at, flow, executors, started>>,
         DOMAIN queues \subseteq DOMAIN queues', DOMAIN held \subseteq DOMAIN held',
         Scheduled \subseteq Scheduled'
  PROVE  GlobalInv' /\ FeatureInv' /\ InputInv'
<1> USE DEF config
<1>1. /\ \A t : Ready(t) => Ready(t)'
      /\ \A i : Built(i) => Built(i)'
      /\ \A i : FeatureReady(i) => FeatureReady(i)'
      /\ \A i : Monitored(i)' = Monitored(i)
  BY ReadyKept
<1>2. GlobalInv'
  BY <1>1 DEF IInv, GlobalInv
<1>3. FeatureInv'
  BY <1>1 DEF IInv, FeatureInv
<1>4. InputInv'
  BY <1>1 DEF IInv, InputInv, Detector
<1> QED
  BY <1>2, <1>3, <1>4

(* ... or end it.                                                          *)
LEMMA MainEnds ==
  ASSUME step' \in {"leaving", "ended"}
  PROVE  GlobalInv' /\ FeatureInv' /\ InputInv'
  BY DEF GlobalInv, FeatureInv, InputInv

(* Before the inputs are started no loader is scheduled.                   *)
LEMMA Before ==
  ASSUME IInv, step \in {"env", "global", "flow", "build", "start", "add", "core", "video"}
  PROVE  Scheduled \cap Loaders = {}
  BY DEF IInv, LoadersLast

LEMMA NoLoaders ==
  ASSUME Types', (Scheduled \cap Loaders = {})'
  PROVE  LoadersLast'
<1>1. Range(waiting') \cap Loaders = {} /\ running' \cap Loaders = {}
  BY DEF Scheduled, Loaders, LoaderTask
<1>2. \A i \in 1 .. Len(waiting') : waiting'[i] \in Range(waiting')
  <2>1. DOMAIN waiting' = 1 .. Len(waiting')
    BY DEF Types
  <2> QED
    BY <2>1 DEF Range
<1> QED
  BY <1>1, <1>2 DEF LoadersLast, Loaders, LoaderTask

LEMMA StillNoLoaders ==
  ASSUME IInv, step \in {"env", "global", "flow", "build", "start", "add", "core", "video"},
         Types', UNCHANGED pool
  PROVE  LoadersLast'
<1>1. (Scheduled \cap Loaders = {})'
  BY Before DEF Scheduled, pool, Loaders, LoaderTask
<1> QED
  BY <1>1, NoLoaders

LEMMA StagesAreNoLoaders ==
  ASSUME IInv, step \in {"env", "global", "flow", "build", "start", "add", "core", "video"},
         Types', NEW tasks \in Seq(Names \X Nat), Schedule(tasks), UNCHANGED <<running, left>>,
         \A t \in Range(tasks) :
           t[1] \in {"DispatchProcessor", "FlowRpcAsynProcessor", "MonitorProcessor", "DetectorProcessor"}
  PROVE  LoadersLast'
<1>1. Range(tasks) \cap Loaders = {}
  BY LoaderNames
<1>2. (Scheduled \cap Loaders = {})'
  BY <1>1, Before, Scheduling DEF IInv, Loaders, LoaderTask
<1> QED
  BY <1>2, NoLoaders

LEMMA InitIInv == Init => IInv
<1> SUFFICES ASSUME Init PROVE IInv
  OBVIOUS
<1>1. Types
  BY StartupAssumption DEF Init, Types
<1>2. HeldInv /\ GlobalInv /\ FeatureInv /\ InputInv
  BY DEF Init, HeldInv, GlobalInv, FeatureInv, InputInv
<1>3. LoadersLast
  BY DEF Init, LoadersLast, Scheduled, Range
<1> QED
  BY <1>1, <1>2, <1>3 DEF IInv
-----------------------------------------------------------------------------
(* The main thread.                                                        *)
LEMMA InitEnvironmentStep ==
  ASSUME IInv, InitEnvironment
  PROVE  IInv'
<1> USE DEF config, pool
<1>1. Types' /\ HeldInv'
  BY DEF IInv, Types, HeldInv, InitEnvironment
<1>2. GlobalInv' /\ FeatureInv' /\ InputInv'
  <2>1. CASE Fault
    BY <2>1, MainEnds DEF Fault
  <2>2. CASE version \in DOMAIN NetworkFiles /\ Goes("global")
    BY <2>2 DEF IInv, Goes, GlobalInv, FeatureInv, InputInv, InitEnvironment
  <2> QED
    BY <2>1, <2>2 DEF InitEnvironment
<1>3. LoadersLast'
  BY <1>1, StillNoLoaders DEF InitEnvironment
<1> QED
  BY <1>1, <1>2, <1>3 DEF IInv

LEMMA BuildGlobalStep ==
  ASSUME IInv, BuildGlobal
  PROVE  IInv'
<1> USE DEF config
<1> DEFINE name == global_executor_names_[at]
           task == <<name, 1>>
<1>1. at \in 1 .. 2 /\ name = IF at = 1 THEN "DispatchProcessor" ELSE "FlowRpcAsynProcessor"
  BY DEF IInv, GlobalInv, BuildGlobal, global_executor_names_
<1>2. /\ made' \in Nat /\ \A n \in DOMAIN queues' : queues'[n] \in 1 .. made'
      /\ DOMAIN queues' = DOMAIN queues \cup {name}
      /\ \A n \in DOMAIN queues : queues'[n] = queues[n]
      /\ queues' = SafeAdd(name)
  BY Building DEF IInv, BuildGlobal
<1>3. HeldInv' /\ DOMAIN held' = DOMAIN held \cup {task}
  <2>1. Uses(task) \subseteq DOMAIN queues'
    BY <1>1, <1>2, UsesOf
  <2> QED
    BY <1>2, <2>1, Initialising DEF IInv, BuildGlobal
<1>4. /\ <<task>> \in Seq(Names \X Nat) /\ Range(<<task>>) = {task}
  BY <1>1 DEF Names, Range
<1>5. waiting' \in Seq(Names \X Nat) /\ Scheduled' = Scheduled \cup {task}
  BY <1>4, Scheduling DEF IInv, BuildGlobal
<1>6. Types'
  BY <1>2, <1>5 DEF IInv, Types, BuildGlobal
<1>7. \A t : t = task \/ Ready(t) => Ready(t)'
  BY <1>3, <1>5 DEF Ready
<1>8. GlobalInv' /\ FeatureInv' /\ InputInv'
  <2>1. at' = at + 1 /\ step' = IF at = 2 THEN "flow" ELSE "global"
    BY <1>1 DEF BuildGlobal, Goes, global_executor_names_
  <2>2. GlobalInv'
    <3>1. CASE at = 1
      BY <1>1, <1>2, <1>7, <2>1, <3>1 DEF IInv, GlobalInv, BuildGlobal
    <3>2. CASE at = 2
      <4>1. Ready(<<"DispatchProcessor", 1>>)' /\ Ready(<<"FlowRpcAsynProcessor", 1>>)'
        BY <1>1, <1>7, <3>2 DEF IInv, GlobalInv, BuildGlobal
      <4>2. version' \in DOMAIN NetworkFiles /\ "DispatchProcessor" \in DOMAIN queues'
        BY <1>2, <3>2 DEF IInv, GlobalInv, BuildGlobal
      <4> QED
        BY <2>1, <3>2, <4>1, <4>2 DEF GlobalInv
    <3> QED
      BY <1>1, <3>1, <3>2
  <2> QED
    BY <1>1, <2>1, <2>2 DEF IInv, FeatureInv, InputInv, BuildGlobal
<1>9. LoadersLast'
  <2>1. \A t \in Range(<<task>>) : t[1] \in {"DispatchProcessor", "FlowRpcAsynProcessor"}
    BY <1>1, <1>4
  <2>2. Schedule(<<task>>) /\ step = "global" /\ UNCHANGED <<running, left>>
    BY DEF BuildGlobal
  <2> HIDE DEF task
  <2> QED
    BY <1>4, <1>6, <2>1, <2>2, StagesAreNoLoaders
<1> QED
  BY <1>3, <1>6, <1>8, <1>9 DEF IInv

LEMMA SetFlowStep ==
  ASSUME IInv, SetFlow
  PROVE  IInv'
<1> USE DEF config, pool
<1>1. Types' /\ HeldInv'
  BY DEF IInv, Types, HeldInv, SetFlow
<1>2. /\ \A t : Ready(t) => Ready(t)'
      /\ step' = IF features = <<>> THEN "core" ELSE "build"
      /\ at' = 1 /\ flow'
  BY DEF Ready, Scheduled, SetFlow, Goes
<1>3. GlobalInv'
  BY <1>2 DEF IInv, GlobalInv, SetFlow
<1>4. FeatureInv'
  BY <1>2 DEF IInv, Types, FeatureInv, SetFlow
<1>5. InputInv'
  BY <1>2 DEF IInv, InputInv, SetFlow
<1>6. LoadersLast'
  BY <1>1, StillNoLoaders DEF SetFlow
<1> QED
  BY <1>1, <1>3, <1>4, <1>5, <1>6 DEF IInv

LEMMA BuildFeatureStep ==
  ASSUME IInv, BuildFeature
  PROVE  IInv'
<1> USE DEF config
<1>1. at \in 1 .. Len(features) /\ step' = "start" /\ UNCHANGED <<config, at, flow, executors, started, pool>>
  BY DEF IInv, FeatureInv, BuildFeature, Goes
<1>2. Scheduled' = Scheduled /\ Monitored(at)' = Monitored(at)
  BY <1>1 DEF Scheduled, pool, Monitored
<1>3. /\ Types' /\ HeldInv' /\ Built(at)'
      /\ DOMAIN queues \subseteq DOMAIN queues' /\ DOMAIN held \subseteq DOMAIN held'
  <2>1. CASE ~Monitored(at)
    <3>1. UNCHANGED <<queues, made, held>>
      BY <1>1, <2>1, Chains DEF IInv, BuildFeature
    <3> QED
      BY <1>1, <1>2, <2>1, <3>1 DEF IInv, Types, HeldInv, Built, pool
  <2>2. CASE Monitored(at)
    <3> DEFINE task == <<"MonitorProcessor", at>>
    <3>1. Chain(features[at]) = <<"MonitorProcessor">>
      BY <1>1, <2>2, Chains DEF IInv
    <3>2. BuildProcessor("MonitorProcessor") /\ InitProcessor(SafeAdd("MonitorProcessor"), task)
      BY <3>1 DEF BuildFeature
    <3>3. /\ made' \in Nat /\ \A n \in DOMAIN queues' : queues'[n] \in 1 .. made'
          /\ DOMAIN queues' = DOMAIN queues \cup {"MonitorProcessor"}
          /\ \A n \in DOMAIN queues : queues'[n] = queues[n]
          /\ queues' = SafeAdd("MonitorProcessor")
      BY <3>2, Building DEF IInv
    <3>4. Uses(task) \subseteq DOMAIN queues'
      BY <3>3, UsesOf DEF IInv, GlobalInv, BuildFeature
    <3>5. HeldInv' /\ DOMAIN held' = DOMAIN held \cup {task}
      BY <3>2, <3>3, <3>4, Initialising DEF IInv
    <3>6. Built(at)'
      BY <1>1, <3>3, <3>5 DEF Built
    <3>7. Types'
      BY <1>1, <3>3 DEF IInv, Types, pool
    <3> QED
      BY <3>3, <3>5, <3>6, <3>7
  <2> QED
    BY <2>1, <2>2
<1>4. /\ \A t : Ready(t) => Ready(t)'
      /\ \A i : FeatureReady(i) => FeatureReady(i)'
  BY <1>1, <1>2, <1>3, ReadyKept
<1>5. GlobalInv'
  BY <1>1, <1>3, <1>4 DEF IInv, GlobalInv, BuildFeature
<1>6. FeatureInv'
  <2>1. \A i \in 1 .. at - 1 : FeatureReady(i)
    BY DEF IInv, FeatureInv, BuildFeature
  <2>2. \A i \in 1 .. at - 1 : FeatureReady(i)'
    BY <1>4, <2>1
  <2> QED
    BY <1>1, <1>3, <2>2 DEF FeatureInv
<1>7. InputInv'
  BY <1>1 DEF IInv, InputInv, BuildFeature
<1>8. LoadersLast'
  BY <1>1, <1>3, StillNoLoaders DEF BuildFeature
<1> QED
  BY <1>3, <1>5, <1>6, <1>7, <1>8 DEF IInv

LEMMA StartFeatureStep ==
  ASSUME IInv, StartFeature
  PROVE  IInv'
<1> USE DEF config
<1>1. at \in 1 .. Len(features) /\ step' = "add" /\ UNCHANGED <<config, at, flow, executors, started, queues, made, held, running, left>>
  BY DEF IInv, FeatureInv, StartFeature, Goes
<1>2. /\ FeatureTasks(at) \in Seq(Names \X Nat)
      /\ \A t \in Range(FeatureTasks(at)) : t[1] = "MonitorProcessor"
      /\ Monitored(at) => <<"MonitorProcessor", at>> \in Range(FeatureTasks(at))
  <2>1. CASE Monitored(at)
    BY <1>1, <2>1, Chains DEF IInv, Names
  <2>2. CASE ~Monitored(at)
    <3>1. Range(FeatureTasks(at)) = {} /\ FeatureTasks(at) = <<>>
      BY <1>1, <2>2, Chains DEF IInv
    <3> QED
      BY <2>2, <3>1
  <2> QED
    BY <2>1, <2>2
<1>3. waiting' \in Seq(Names \X Nat) /\ Scheduled' = Scheduled \cup Range(FeatureTasks(at))
  BY <1>1, <1>2, Scheduling DEF IInv, StartFeature
<1>4. Types' /\ HeldInv'
  BY <1>1, <1>3 DEF IInv, Types, HeldInv
<1>5. /\ \A t : Ready(t) => Ready(t)'
      /\ \A i : FeatureReady(i) => FeatureReady(i)'
      /\ \A i : Built(i) => Built(i)'
  BY <1>1, <1>3, ReadyKept
<1>6. FeatureReady(at)'
  BY <1>1, <1>2, <1>3, <1>5 DEF IInv, FeatureInv, FeatureReady, Built, Ready, Monitored, StartFeature
<1>7. GlobalInv'
  BY <1>1, <1>5 DEF IInv, GlobalInv, StartFeature
<1>8. FeatureInv'
  <2>1. \A i \in 1 .. at - 1 : FeatureReady(i)
    BY DEF IInv, FeatureInv, StartFeature
  <2>2. \A i \in 1 .. at - 1 : FeatureReady(i)'
    BY <1>5, <2>1
  <2>3. Built(at)'
    BY <1>6 DEF FeatureReady
  <2> QED
    BY <1>1, <1>6, <2>2, <2>3 DEF FeatureInv
<1>9. InputInv'
  BY <1>1 DEF IInv, InputInv, StartFeature
<1>10. LoadersLast'
  BY <1>2, <1>4, StagesAreNoLoaders DEF StartFeature
<1> QED
  BY <1>4, <1>7, <1>8, <1>9, <1>10 DEF IInv

LEMMA AddPipelineStep ==
  ASSUME IInv, AddPipeline
  PROVE  IInv'
<1> USE DEF config, pool
<1>1. /\ at \in 1 .. Len(features) /\ at' = at + 1
      /\ step' = IF at = Len(features) THEN "core" ELSE "build"
      /\ UNCHANGED <<config, flow, executors, started, queues, made, held, pool>>
  BY DEF IInv, FeatureInv, AddPipeline, Goes
<1>2. Types' /\ HeldInv' /\ Scheduled' = Scheduled
  BY <1>1 DEF IInv, Types, HeldInv, Scheduled
<1>3. /\ \A t : Ready(t) => Ready(t)'
      /\ \A i : FeatureReady(i) => FeatureReady(i)'
  BY <1>1, <1>2, ReadyKept
<1>4. GlobalInv'
  BY <1>1, <1>3 DEF IInv, GlobalInv, AddPipeline
<1>5. FeatureInv'
  <2>1. \A i \in 1 .. at : FeatureReady(i)
    BY <1>1 DEF IInv, FeatureInv, AddPipeline, Types
  <2>2. \A i \in 1 .. at : FeatureReady(i)'
    BY <1>3, <2>1
  <2> QED
    BY <1>1, <2>2 DEF FeatureInv, IInv, Types
<1>6. InputInv'
  BY <1>1 DEF IInv, InputInv, AddPipeline
<1>7. LoadersLast'
  BY <1>2, StillNoLoaders DEF AddPipeline
<1> QED
  BY <1>2, <1>4, <1>5, <1>6, <1>7 DEF IInv

LEMMA BuildCoreStep ==
  ASSUME IInv, BuildCore
  PROVE  IInv'
<1> USE DEF config
<1>1. /\ made' \in Nat /\ \A n \in DOMAIN queues' : queues'[n] \in 1 .. made'
      /\ DOMAIN queues' = DOMAIN queues \cup {"DetectorProcessor"}
      /\ \A n \in DOMAIN queues : queues'[n] = queues[n]
      /\ queues' = SafeAdd("DetectorProcessor")
  BY Building DEF IInv, BuildCore, Detector
<1>2. at' = 1 /\ step = "core" /\ UNCHANGED <<features, inputs, version, flow, executors, started, running, left>>
  BY DEF BuildCore
<1>3. CASE ~AllKnown
  <2>1. Fault /\ UNCHANGED <<held, waiting>>
    BY <1>3 DEF BuildCore
  <2>2. Types'
    BY <1>1, <1>2, <2>1 DEF IInv, Types
  <2>3. HeldInv'
    BY <1>1, <2>1 DEF IInv, HeldInv
  <2>4. GlobalInv' /\ FeatureInv' /\ InputInv'
    BY <2>1, MainEnds DEF Fault
  <2>5. LoadersLast'
    BY <1>2, <2>1, <2>2, StillNoLoaders DEF pool
  <2> QED
    BY <2>2, <2>3, <2>4, <2>5 DEF IInv
<1>4. CASE AllKnown
  <2>1. InitProcessor(SafeAdd("DetectorProcessor"), Detector) /\ Schedule(<<Detector>>) /\ step' = "video"
    BY <1>4 DEF BuildCore, Detector, Goes
  <2>2. <<Detector>> \in Seq(Names \X Nat) /\ Range(<<Detector>>) = {Detector}
    BY DEF Detector, Names, Range
  <2>3. waiting' \in Seq(Names \X Nat) /\ Scheduled' = Scheduled \cup {Detector}
    BY <1>2, <2>1, <2>2, Scheduling DEF IInv
  <2>4. Types'
    BY <1>1, <1>2, <2>3 DEF IInv, Types
  <2>5. DOMAIN features = 1 .. Len(features) /\ \A k \in 1 .. Len(features) : Monitored(k)
    <3>1. DOMAIN features = 1 .. Len(features)
      BY DEF IInv, Types
    <3>2. \A k \in 1 .. Len(features) : Chain(features[k]) # <<>>
      BY <1>4, <3>1 DEF AllKnown, Range
    <3> QED
      BY <3>1, <3>2, Chains DEF IInv
  <2>6. Uses(Detector) \subseteq DOMAIN queues'
    <3>1. "DispatchProcessor" \in DOMAIN queues
      BY <1>2 DEF IInv, GlobalInv
    <3>2. "monitor" \in Range(features) => "MonitorProcessor" \in DOMAIN queues
      <4> SUFFICES ASSUME NEW k \in 1 .. Len(features)
                   PROVE  "MonitorProcessor" \in DOMAIN queues
        BY <2>5 DEF Range
      <4> QED
        BY <1>2, <2>5 DEF IInv, FeatureInv, FeatureReady, Built
    <3> QED
      BY <1>1, <3>1, <3>2, UsesOf
  <2>7. HeldInv' /\ DOMAIN held' = DOMAIN held \cup {Detector}
    BY <1>1, <2>1, <2>6, Initialising DEF IInv
  <2>8. /\ \A t : Ready(t) => Ready(t)'
        /\ \A k : FeatureReady(k) => FeatureReady(k)'
        /\ \A k : Monitored(k)' = Monitored(k)
    BY <1>1, <1>2, <2>3, <2>7, ReadyKept
  <2>9. GlobalInv'
    BY <1>1, <1>2, <2>1, <2>8 DEF IInv, GlobalInv
  <2>10. FeatureInv'
    BY <1>2, <2>1, <2>8 DEF IInv, FeatureInv
  <2>11. InputInv'
    <3>1. Ready(Detector)'
      BY <2>3, <2>7 DEF Ready, Detector
    <3>2. started = {} /\ executors = {}
      BY <1>2 DEF IInv, InputInv
    <3>3. at' \in 1 .. Len(inputs') + 1 /\ executors' = {inputs'[k] : k \in 1 .. at' - 1}
      BY <1>2, <3>2 DEF IInv, Types
    <3> QED
      BY <1>1, <1>2, <2>1, <2>5, <2>8, <3>1, <3>2, <3>3 DEF InputInv
  <2>12. LoadersLast'
    <3>1. \A t \in Range(<<Detector>>) : t[1] = "DetectorProcessor"
      BY <2>2 DEF Detector
    <3> QED
      BY <1>2, <2>1, <2>2, <2>4, <3>1, StagesAreNoLoaders
  <2> QED
    BY <2>4, <2>7, <2>9, <2>10, <2>11, <2>12 DEF IInv
<1> QED
  BY <1>3, <1>4

LEMMA BuildVideoInputStep ==
  ASSUME IInv, BuildVideoInput
  PROVE  IInv'
<1> USE DEF config, pool
<1> DEFINE name == Loader[KindOf[inputs[at]]]
<1>1. /\ step = "video" /\ at' = at + 1 /\ at \in 1 .. Len(inputs)
      /\ UNCHANGED <<features, inputs, version, held, flow, started, waiting, running, left>>
  BY DEF IInv, InputInv, Types, BuildVideoInput, AllBuilt
<1>2. Scheduled' = Scheduled
  BY <1>1 DEF Scheduled
<1>3. CASE name \notin Registered
  <2>1. Abort /\ UNCHANGED <<queues, made, executors>>
    BY <1>3 DEF BuildVideoInput
  <2>2. Types' /\ HeldInv'
    BY <1>1, <2>1 DEF IInv, Types, HeldInv
  <2>3. GlobalInv' /\ FeatureInv' /\ InputInv'
    BY <2>1, MainEnds DEF Abort
  <2>4. LoadersLast'
    BY <1>1, <2>2, StillNoLoaders
  <2> QED
    BY <2>2, <2>3, <2>4 DEF IInv
<1>4. CASE name \in Registered
  <2>1. BuildProcessor(name) /\ executors' = executors \cup {inputs[at]} /\ step' = "video"
    BY <1>1, <1>4 DEF BuildVideoInput, Goes
  <2>2. /\ made' \in Nat /\ \A n \in DOMAIN queues' : queues'[n] \in 1 .. made'
        /\ DOMAIN queues' = DOMAIN queues \cup {name}
        /\ \A n \in DOMAIN queues : queues'[n] = queues[n]
    BY <2>1, Building DEF IInv
  <2> HIDE DEF name
  <2>3. Types'
    BY <1>1, <2>2 DEF IInv, Types
  <2>4. HeldInv'
    BY <1>1, <2>2 DEF IInv, HeldInv
  <2>5. /\ \A t : Ready(t) => Ready(t)'
        /\ \A k : FeatureReady(k) => FeatureReady(k)'
        /\ \A k : Monitored(k)' = Monitored(k)
    BY <1>1, <1>2, <2>2, ReadyKept
  <2>6. GlobalInv'
    BY <1>1, <2>1, <2>2, <2>5 DEF IInv, GlobalInv
  <2>7. FeatureInv'
    BY <1>1, <2>1, <2>5 DEF IInv, FeatureInv
  <2>8. InputInv'
    <3>1. executors' = {inputs'[k] : k \in 1 .. at' - 1}
      <4>1. executors = {inputs[k] : k \in 1 .. at - 1}
        BY <1>1 DEF IInv, InputInv
      <4>2. 1 .. at' - 1 = (1 .. at - 1) \cup {at}
        BY <1>1
      <4>3. {inputs[k] : k \in (1 .. at - 1) \cup {at}} = {inputs[k] : k \in 1 .. at - 1} \cup {inputs[at]}
        OBVIOUS
      <4> QED
        BY <1>1, <2>1, <4>1, <4>2, <4>3
    <3>2. at' \in 1 .. Len(inputs') + 1
      BY <1>1
    <3>3. Ready(Detector)' /\ started' = {} /\ "DetectorProcessor" \in DOMAIN queues'
      BY <1>1, <2>2, <2>5 DEF IInv, InputInv, Detector
    <3>4. \A k \in 1 .. Len(features') : Monitored(k)'
      BY <1>1, <2>5 DEF IInv, InputInv
    <3> QED
      BY <2>1, <3>1, <3>2, <3>3, <3>4 DEF InputInv
  <2>9. LoadersLast'
    BY <1>1, <2>3, StillNoLoaders
  <2> QED
    BY <2>3, <2>4, <2>6, <2>7, <2>8, <2>9 DEF IInv
<1> QED
  BY <1>3, <1>4

LEMMA VideoInputBuiltStep ==
  ASSUME IInv, VideoInputBuilt
  PROVE  IInv'
<1> USE DEF config, pool
<1>1. /\ step = "video" /\ at > Len(inputs)
      /\ UNCHANGED <<features, inputs, version, at, queues, made, held, flow, executors, started,
                     waiting, running, left>>
  BY DEF VideoInputBuilt, AllBuilt
<1>2. Types' /\ HeldInv'
  BY <1>1 DEF IInv, Types, HeldInv
<1>4. GlobalInv' /\ FeatureInv' /\ InputInv'
  <2>1. CASE inputs = <<>>
    BY <2>1, MainEnds DEF VideoInputBuilt, Abort
  <2>2. CASE inputs # <<>>
    <3>1. step' = "run"
      BY <2>2 DEF VideoInputBuilt, Goes
    <3>2. /\ \A t : Ready(t) => Ready(t)'
          /\ \A k : FeatureReady(k) => FeatureReady(k)'
          /\ \A k : Monitored(k)' = Monitored(k)
      BY <1>1, ReadyKept DEF Scheduled
    <3>3. GlobalInv' /\ FeatureInv'
      BY <1>1, <3>1, <3>2 DEF IInv, GlobalInv, FeatureInv
    <3>4. executors' = Range(inputs')
      <4>1. at - 1 = Len(inputs) /\ DOMAIN inputs = 1 .. Len(inputs)
        BY <1>1 DEF IInv, Types, InputInv
      <4> QED
        BY <1>1, <4>1 DEF IInv, InputInv, Range
    <3>5. InputInv'
      BY <1>1, <2>2, <3>1, <3>2, <3>4 DEF IInv, InputInv, Detector
    <3> QED
      BY <3>3, <3>5
  <2> QED
    BY <2>1, <2>2
<1>5. LoadersLast'
  BY <1>1, <1>2, StillNoLoaders
<1> QED
  BY <1>2, <1>4, <1>5 DEF IInv

LEMMA StartVideoInputStep ==
  ASSUME IInv, StartVideoInput
  PROVE  IInv'
<1> USE DEF config
<1>1. PICK i \in executors \ started : started' = started \cup {i} /\ Schedule(<<LoaderTask(i)>>)
  BY DEF StartVideoInput
<1>2. /\ step = "run" /\ step' \in {"run", "loop"} /\ (step' = "loop" <=> started' = executors)
      /\ UNCHANGED <<features, inputs, version, at, queues, made, held, flow, executors, running, left>>
  BY DEF StartVideoInput, Goes
<1>3. i \in DOMAIN KindOf
  BY <1>1, <1>2 DEF IInv, InputInv, Types, Range
<1>4. <<LoaderTask(i)>> \in Seq(Names \X Nat) /\ Range(<<LoaderTask(i)>>) = {LoaderTask(i)}
  BY <1>3, LoaderNames DEF Range
<1>5. /\ waiting' \in Seq(Names \X Nat) /\ Scheduled' = Scheduled \cup {LoaderTask(i)}
      /\ Range(waiting') = Range(waiting) \cup {LoaderTask(i)}
  BY <1>1, <1>2, <1>4, Scheduling DEF IInv
<1>6. Types' /\ HeldInv'
  BY <1>2, <1>5 DEF IInv, Types, HeldInv
<1>7. /\ \A t : Ready(t) => Ready(t)'
      /\ \A k : FeatureReady(k) => FeatureReady(k)'
      /\ \A k : Monitored(k)' = Monitored(k)
  BY <1>2, <1>5, ReadyKept
<1>8. GlobalInv' /\ FeatureInv'
  BY <1>2, <1>7 DEF IInv, GlobalInv, FeatureInv
<1>9. InputInv'
  BY <1>2, <1>7 DEF IInv, InputInv, Detector
<1>10. LoadersLast'
  <2>1. flow' /\ "DetectorProcessor" \in DOMAIN queues'
    BY <1>2 DEF IInv, GlobalInv, InputInv
  <2>2. Stages \subseteq Scheduled
    <3>1. /\ <<"DispatchProcessor", 1>> \in Scheduled /\ <<"FlowRpcAsynProcessor", 1>> \in Scheduled
          /\ Detector \in Scheduled
      BY <1>2 DEF IInv, GlobalInv, InputInv, Ready
    <3>2. \A k \in 1 .. Len(features) : Monitored(k) => <<"MonitorProcessor", k>> \in Scheduled
      BY <1>2 DEF IInv, FeatureInv, FeatureReady, Ready
    <3> QED
      BY <3>1, <3>2, StageNames DEF IInv
  <2>3. Stages' = Stages
    BY <1>2 DEF Stages, FeatureTasks
  <2>4. ASSUME NEW j \in 1 .. Len(waiting'), NEW k \in 1 .. Len(waiting'), j < k, waiting'[j] \in Loaders
        PROVE  waiting'[k] \in Loaders
    <3>1. /\ Len(waiting') = Len(waiting) + 1 /\ Len(waiting) \in Nat
          /\ waiting'[Len(waiting) + 1] = LoaderTask(i)
          /\ \A n \in 1 .. Len(waiting) : waiting'[n] = waiting[n]
      BY <1>1, <1>4 DEF IInv, Types, Schedule
    <3>2. CASE k = Len(waiting) + 1
      BY <1>3, <3>1, <3>2, LoaderNames
    <3>3. CASE k # Len(waiting) + 1
      <4>1. j \in 1 .. Len(waiting) /\ k \in 1 .. Len(waiting)
        BY <2>4, <3>1, <3>3
      <4> QED
        BY <2>4, <3>1, <4>1 DEF IInv, LoadersLast
    <3> QED
      BY <3>2, <3>3
  <2>5. running \cap Loaders # {} => Range(waiting') \subseteq Loaders
    BY <1>3, <1>5, LoaderNames DEF IInv, LoadersLast
  <2>6. Loaders' = Loaders
    BY DEF Loaders, LoaderTask
  <2> QED
    BY <1>2, <1>5, <2>1, <2>2, <2>3, <2>4, <2>5, <2>6 DEF LoadersLast
<1> QED
  BY <1>6, <1>8, <1>9, <1>10 DEF IInv

-----------------------------------------------------------------------------
(* The pool, and the end.                                                  *)
LEMMA LoadersKept ==
  ASSUME IInv, UNCHANGED <<features, waiting, flow, queues>>,
         running' \subseteq running, Scheduled' = Scheduled,
         step' = step \/ step' \in {"leaving", "ended"}
  PROVE  LoadersLast'
<1>1. Stages' = Stages /\ Loaders' = Loaders
  BY DEF Stages, FeatureTasks, Loaders, LoaderTask
<1>2. Scheduled' \cap Loaders # {} =>
        /\ step' \in {"run", "loop", "leaving", "ended"}
        /\ flow' /\ "DetectorProcessor" \in DOMAIN queues'
        /\ Stages \subseteq Scheduled'
  BY DEF IInv, LoadersLast
<1>3. running' \cap Loaders # {} => Range(waiting') \subseteq Loaders
  BY DEF IInv, LoadersLast
<1>4. \A i, j \in 1 .. Len(waiting') : i < j /\ waiting'[i] \in Loaders => waiting'[j] \in Loaders
  BY DEF IInv, LoadersLast
<1> QED
  BY <1>1, <1>2, <1>3, <1>4 DEF LoadersLast

(* A step of no thread's work leaves the main thread where it is or ends it. *)
LEMMA NothingTaken ==
  ASSUME IInv, UNCHANGED <<config, at, queues, made, held, flow, executors, started, waiting>>,
         running' \subseteq running, Scheduled' = Scheduled,
         step' = step \/ step' \in {"leaving", "ended"}
  PROVE  IInv'
<1> USE DEF config
<1>1. Types' /\ HeldInv'
  BY DEF IInv, Types, HeldInv
<1>2. GlobalInv' /\ FeatureInv' /\ InputInv'
  <2>1. CASE step' = step
    BY <2>1, MainKept
  <2>2. CASE step' \in {"leaving", "ended"}
    BY <2>2, MainEnds
  <2> QED
    BY <2>1, <2>2
<1>3. LoadersLast'
  BY LoadersKept
<1> QED
  BY <1>1, <1>2, <1>3 DEF IInv

LEMMA TakeStep ==
  ASSUME IInv, Take
  PROVE  IInv'
<1> USE DEF config
<1>1. UNCHANGED <<config, step, at, queues, made, held, flow, executors, started>>
  BY DEF Take
<1>2. /\ waiting' \in Seq(Names \X Nat)
      /\ Scheduled' = Scheduled
      /\ Range(waiting') \subseteq Range(waiting)
      /\ running' = running \cup {waiting[1]} /\ waiting[1] \in Range(waiting)
      /\ Len(waiting) \in Nat \ {0} /\ Len(waiting') = Len(waiting) - 1
      /\ \A i \in 1 .. Len(waiting') : waiting'[i] = waiting[i + 1]
  BY Taking DEF IInv
<1>3. Types' /\ HeldInv'
  BY <1>1, <1>2 DEF IInv, Types, HeldInv
<1>4. GlobalInv' /\ FeatureInv' /\ InputInv'
  BY <1>1, <1>2, MainKept
<1>5. LoadersLast'
  <2>1. Stages' = Stages /\ Loaders' = Loaders
    BY <1>1 DEF Stages, FeatureTasks, Loaders, LoaderTask
  <2>2. Scheduled' \cap Loaders # {} =>
          /\ step' \in {"run", "loop", "leaving", "ended"}
          /\ flow' /\ "DetectorProcessor" \in DOMAIN queues'
          /\ Stages \subseteq Scheduled'
    BY <1>1, <1>2 DEF IInv, LoadersLast
  <2>3. ASSUME NEW i \in 1 .. Len(waiting'), NEW j \in 1 .. Len(waiting'), i < j, waiting'[i] \in Loaders
        PROVE  waiting'[j] \in Loaders
    <3>1. /\ i + 1 \in 1 .. Len(waiting) /\ j + 1 \in 1 .. Len(waiting) /\ i + 1 < j + 1
          /\ waiting'[i] = waiting[i + 1] /\ waiting'[j] = waiting[j + 1]
      BY <1>2, <2>3
    <3> QED
      BY <2>3, <3>1 DEF IInv, LoadersLast
  <2>4. ASSUME running' \cap Loaders # {} PROVE Range(waiting') \subseteq Loaders
    <3>1. CASE running \cap Loaders # {}
      BY <1>2, <3>1 DEF IInv, LoadersLast
    <3>2. CASE running \cap Loaders = {}
      <4>1. waiting[1] \in Loaders
        BY <1>2, <2>4, <3>2
      <4>2. \A j \in 1 .. Len(waiting') : waiting'[j] \in Loaders
        <5> SUFFICES ASSUME NEW j \in 1 .. Len(waiting') PROVE waiting[j + 1] \in Loaders
          BY <1>2
        <5>1. 1 \in 1 .. Len(waiting) /\ j + 1 \in 1 .. Len(waiting) /\ 1 < j + 1
          BY <1>2
        <5> QED
          BY <4>1, <5>1 DEF IInv, LoadersLast
      <4>3. DOMAIN waiting' = 1 .. Len(waiting')
        BY <1>2
      <4> QED
        BY <4>2, <4>3 DEF Range
    <3> QED
      BY <3>1, <3>2
  <2> QED
    BY <2>1, <2>2, <2>3, <2>4 DEF LoadersLast
<1> QED
  BY <1>3, <1>4, <1>5 DEF IInv

LEMMA InitLoaderStep ==
  ASSUME IInv, NEW t \in running, InitLoader(t)
  PROVE  IInv'
<1> USE DEF config, pool
<1>1. /\ t \in Loaders
      /\ UNCHANGED <<config, at, queues, made, flow, executors, started, waiting, running>>
      /\ Scheduled' = Scheduled
  BY DEF InitLoader, Scheduled
<1>2. CASE Abort /\ UNCHANGED held
  <2>1. step' = "ended" /\ held' = held
    BY <1>2 DEF Abort
  <2> QED
    BY <1>1, <2>1, NothingTaken
<1>3. CASE InitProcessor(queues, t) /\ UNCHANGED step
  <2>1. InitProcessor(queues', t)
    BY <1>1, <1>3
  <2>2. Uses(t) \subseteq DOMAIN queues'
    <3>1. Scheduled \cap Loaders # {}
      BY <1>1 DEF Scheduled
    <3> QED
      BY <1>1, <3>1, UsesOf DEF IInv, LoadersLast
  <2>3. HeldInv' /\ DOMAIN held' = DOMAIN held \cup {t}
    BY <1>1, <2>1, <2>2, Initialising DEF IInv
  <2>4. Types'
    BY <1>1 DEF IInv, Types
  <2>5. GlobalInv' /\ FeatureInv' /\ InputInv'
    BY <1>1, <1>3, <2>3, MainKept
  <2>6. LoadersLast'
    BY <1>1, <1>3, LoadersKept
  <2> QED
    BY <2>3, <2>4, <2>5, <2>6 DEF IInv
<1> QED
  BY <1>2, <1>3 DEF InitLoader

LEMMA LeaveStep ==
  ASSUME IInv, NEW t \in running, Leave(t)
  PROVE  IInv'
<1>1. Scheduled' = Scheduled
  BY DEF Leave, Scheduled
<1> QED
  BY <1>1, NothingTaken DEF Leave

(* The steps that only stop the service.                                   *)
LEMMA StopSteps ==
  ASSUME IInv,
         DaemonStops \/ Signal \/ Exit \/ (\E t \in running : UseDestroyed(t)) \/ UNCHANGED vars
  PROVE  IInv'
<1>1. /\ UNCHANGED <<config, at, queues, made, held, flow, executors, started, pool>>
      /\ step' = step \/ step' \in {"leaving", "ended"}
  BY DEF DaemonStops, Signal, Exit, UseDestroyed, vars
<1>2. Scheduled' = Scheduled /\ UNCHANGED waiting /\ running' \subseteq running
  BY <1>1 DEF Scheduled, pool
<1> QED
  BY <1>1, <1>2, NothingTaken

LEMMA StepIInv == IInv /\ [Next]_vars => IInv'
<1> SUFFICES ASSUME IInv, [Next]_vars PROVE IInv'
  OBVIOUS
<1>1. CASE Main
  BY <1>1, InitEnvironmentStep, BuildGlobalStep, SetFlowStep, BuildFeatureStep, StartFeatureStep,
     AddPipelineStep, BuildCoreStep, BuildVideoInputStep, VideoInputBuiltStep,
     StartVideoInputStep, StopSteps DEF Main
<1>2. CASE Take
  BY <1>2, TakeStep
<1>3. ASSUME NEW t \in running, InitLoader(t) PROVE IInv'
  BY <1>3, InitLoaderStep
<1>4. ASSUME NEW t \in running, Leave(t) PROVE IInv'
  BY <1>4, LeaveStep
<1>5. CASE Signal \/ Exit \/ (\E t \in running : UseDestroyed(t)) \/ UNCHANGED vars
  BY <1>5, StopSteps
<1> QED
  BY <1>1, <1>2, <1>3, <1>4, <1>5 DEF Next
-----------------------------------------------------------------------------
(* What was built so far is there at every step of the start: the strength *)
(* the three properties below need.                                        *)
THEOREM Invariance == Spec => []IInv
<1>1. Init => IInv
  BY InitIInv
<1>2. IInv /\ [Next]_vars => IInv'
  BY StepIInv
<1> QED
  BY <1>1, <1>2, PTL DEF Spec

(* SafeGet never finds nothing, and no second queue of a name comes in     *)
(* between those who share the first, for any lists of features and inputs, *)
(* also repeated ones.                                                     *)
THEOREM QueuesConnected == Spec => []Connected
<1>1. IInv => Connected
  <2> SUFFICES ASSUME IInv, NEW t \in DOMAIN held, NEW u \in DOMAIN held,
                      NEW n \in DOMAIN held[t] \cap DOMAIN held[u]
               PROVE  held[t][n] # 0 /\ held[t][n] = held[u][n]
    BY DEF Connected
  <2>1. n \in DOMAIN queues /\ held[t][n] = queues[n] /\ held[u][n] = queues[n]
    BY DEF IInv, HeldInv
  <2>2. queues[n] \in 1 .. made /\ made \in Nat
    BY <2>1 DEF IInv, Types
  <2> QED
    BY <2>1, <2>2
<1> QED
  BY <1>1, Invariance, PTL

(* The pool serves in order, so that no frame is read before every stage   *)
(* behind the loaders has a thread, however small the pool is.             *)
THEOREM StagesFirst == Spec => []PipelineFirst
<1>1. IInv => PipelineFirst
  <2> SUFFICES ASSUME IInv, running \cap Loaders # {}
               PROVE  flow /\ Stages \subseteq running \cup left
    BY DEF PipelineFirst
  <2>1. flow /\ Stages \subseteq Scheduled /\ Range(waiting) \subseteq Loaders
    BY DEF IInv, LoadersLast, Scheduled
  <2>2. Stages \cap Loaders = {}
    BY StageNames, LoaderNames DEF IInv, Detector
  <2> QED
    BY <2>1, <2>2 DEF Scheduled
<1> QED
  BY <1>1, Invariance, PTL

(* A service that polls knows its network and every feature, and has       *)
(* started a loader for each input.                                        *)
THEOREM StartsComplete == Spec => []Complete
<1>1. IInv => Complete
  <2> SUFFICES ASSUME IInv, step = "loop"
               PROVE  /\ version \in DOMAIN NetworkFiles
                      /\ \A i \in DOMAIN features : Chain(features[i]) # <<>>
                      /\ inputs # <<>> /\ started = Range(inputs)
                      /\ Stages \subseteq DOMAIN held
    BY DEF Complete
  <2>1. version \in DOMAIN NetworkFiles
    BY DEF IInv, GlobalInv
  <2>2. inputs # <<>> /\ started = Range(inputs)
    BY DEF IInv, InputInv
  <2>3. DOMAIN features = 1 .. Len(features) /\ \A i \in 1 .. Len(features) : Monitored(i)
    BY DEF IInv, InputInv, Types
  <2>4. \A i \in DOMAIN features : Chain(features[i]) # <<>>
    BY <2>3, Chains DEF IInv
  <2>5. /\ <<"DispatchProcessor", 1>> \in DOMAIN held
        /\ <<"FlowRpcAsynProcessor", 1>> \in DOMAIN held /\ Detector \in DOMAIN held
    BY DEF IInv, GlobalInv, InputInv, Ready
  <2>6. \A i \in 1 .. Len(features) : Monitored(i) => <<"MonitorProcessor", i>> \in DOMAIN held
    BY DEF IInv, FeatureInv, FeatureReady, Built
  <2>7. Stages \subseteq DOMAIN held
    BY <2>5, <2>6, StageNames DEF IInv
  <2> QED
    BY <2>1, <2>2, <2>4, <2>7
<1> QED
  BY <1>1, Invariance, PTL
-----------------------------------------------------------------------------
(* WHERE THE TASKS ARE                                                     *)

(* Each task the pool has got is one that the main thread has come by.     *)
Due(t) ==
  \/ t = <<"DispatchProcessor", 1>> /\ step # "env" /\ (step = "global" => at = 2)
  \/ t = <<"FlowRpcAsynProcessor", 1>> /\ step \notin {"env", "global"}
  \/ \E i \in 1 .. Len(features) :
       /\ t = <<"MonitorProcessor", i>>
       /\ step \notin {"env", "global", "flow"}
       /\ step \in {"build", "start"} => i < at
       /\ step = "add" => i <= at
  \/ t = Detector /\ step \notin {"env", "global", "flow", "build", "start", "add", "core"}
  \/ \E i \in started : t = LoaderTask(i)

(* No task is in two places or twice in one, nor are there more running    *)
(* than threads.                                                           *)
Placed ==
  /\ \A i, j \in 1 .. Len(waiting) : waiting[i] = waiting[j] => i = j
  /\ Range(waiting) \cap (running \cup left) = {} /\ running \cap left = {}
  /\ IsFiniteSet(running) /\ Cardinality(running) <= PoolSize

PoolInv == Placed /\ \A t \in Scheduled : Due(t)

(* The rest of the variables, and the inputs whose loader could be built.  *)
OtherTypes ==
  /\ features \in FeatureLists /\ inputs \in InputLists /\ version \in Versions
  /\ step \in {"env", "global", "flow", "build", "start", "add", "core", "video",
               "run", "loop", "leaving", "ended"}
  /\ DOMAIN queues \subseteq Registered
  /\ DOMAIN held \subseteq Tasks
  /\ flow \in BOOLEAN /\ sys_quit \in BOOLEAN /\ dying \in BOOLEAN
  /\ pipelines \subseteq STRING
  /\ dangling \subseteq Tasks
  /\ started \subseteq executors /\ executors \subseteq DOMAIN KindOf
  /\ \A i \in executors : Loader[KindOf[i]] \in Registered

(* Which of the tasks it is tells how the main thread came by it.          *)
LEMMA DueOf ==
  ASSUME OtherTypes, NEW t, Due(t)
  PROVE  /\ t[1] = "DispatchProcessor" => step # "env" /\ (step = "global" => at = 2)
         /\ t[1] = "FlowRpcAsynProcessor" => step \notin {"env", "global"}
         /\ t[1] = "MonitorProcessor" =>
              /\ t[2] \in 1 .. Len(features)
              /\ step \notin {"env", "global", "flow"}
              /\ step \in {"build", "start"} => t[2] < at
              /\ step = "add" => t[2] <= at
         /\ t[1] = "DetectorProcessor" =>
              step \notin {"env", "global", "flow", "build", "start", "add", "core"}
         /\ t \in Loaders => t[2] \in started
<1>1. \A i \in started : /\ LoaderTask(i) \in Loaders /\ LoaderTask(i)[2] = i
                         /\ LoaderTask(i)[1] \notin {"DispatchProcessor", "FlowRpcAsynProcessor",
                                                     "MonitorProcessor", "DetectorProcessor"}
  <2>1. \A i \in started : i \in DOMAIN KindOf  BY DEF OtherTypes
  <2> QED  BY <2>1, LoaderNames DEF LoaderTask
<1>2. \A l \in Loaders : l[1] \notin {"DispatchProcessor", "FlowRpcAsynProcessor",
                                     "MonitorProcessor", "DetectorProcessor"}
  BY LoaderNames
<1>3. Detector[1] = "DetectorProcessor"  BY DEF Detector
<1>4. CASE \E i \in started : t = LoaderTask(i)
  BY <1>1, <1>4
<1>5. CASE ~\E i \in started : t = LoaderTask(i)
  BY <1>2, <1>3, <1>5 DEF Due
<1> QED  BY <1>4, <1>5

(* All of them are tasks of processors that are registered.                *)
LEMMA AllRegistered ==
  /\ {"DispatchProcessor", "FlowRpcAsynProcessor", "MonitorProcessor", "DetectorProcessor"}
       \subseteq Registered
  /\ \A i \in DOMAIN KindOf : Loader[KindOf[i]] \in Registered => LoaderTask(i) \in Tasks
<1>1. Range(global_executor_names_) = {"DispatchProcessor", "FlowRpcAsynProcessor"}
  BY DEF global_executor_names_, Range
<1>2. \A i \in DOMAIN KindOf : i \in Nat \ {0}  BY StartupAssumption
<1> QED  BY <1>1, <1>2 DEF Registered, Tasks, LoaderTask

LEMMA ScheduledAreTasks ==
  ASSUME OtherTypes, PoolInv
  PROVE  Scheduled \subseteq Tasks
<1> SUFFICES ASSUME NEW t \in Scheduled PROVE t \in Tasks
  OBVIOUS
<1>1. Due(t)  BY DEF PoolInv
<1>2. \A n \in {"DispatchProcessor", "FlowRpcAsynProcessor", "MonitorProcessor",
                "DetectorProcessor"}, i \in Nat \ {0} : <<n, i>> \in Tasks
  BY AllRegistered DEF Tasks
<1>3. \A i \in 1 .. Len(features) : i \in Nat \ {0}
  BY StartupAssumption DEF OtherTypes
<1>4. \A i \in started : LoaderTask(i) \in Tasks
  BY AllRegistered DEF OtherTypes
<1> QED  BY <1>1, <1>2, <1>3, <1>4 DEF Due, Detector

(* A task that is handed over once has one place.                          *)
LEMMA OneMoreTask ==
  ASSUME Types, Placed, NEW t \in Names \X Nat, t \notin Scheduled,
         Schedule(<<t>>), UNCHANGED <<running, left>>
  PROVE  Placed' /\ Scheduled' = Scheduled \cup {t}
<1>1. <<t>> \in Seq(Names \X Nat) /\ Range(<<t>>) = {t}  BY DEF Range
<1>2. Scheduled' = Scheduled \cup {t} /\ Range(waiting') = Range(waiting) \cup {t}
  BY <1>1, Scheduling
<1>3. /\ Len(waiting) \in Nat /\ Len(waiting') = Len(waiting) + 1
      /\ waiting'[Len(waiting) + 1] = t
      /\ \A i \in 1 .. Len(waiting) : waiting'[i] = waiting[i]
  BY <1>1 DEF Types, Schedule
<1>4. \A i \in 1 .. Len(waiting) : waiting[i] # t
  <2>1. DOMAIN waiting = 1 .. Len(waiting)  BY DEF Types
  <2> QED  BY <2>1 DEF Scheduled, Range
<1>5. ASSUME NEW i \in 1 .. Len(waiting'), NEW j \in 1 .. Len(waiting'),
             waiting'[i] = waiting'[j]
      PROVE  i = j
  <2>1. CASE i \in 1 .. Len(waiting) /\ j \in 1 .. Len(waiting)
    BY <1>3, <1>5, <2>1 DEF Placed
  <2>2. CASE i = Len(waiting) + 1 \/ j = Len(waiting) + 1
    BY <1>3, <1>4, <1>5, <2>2
  <2> QED  BY <1>3, <2>1, <2>2
<1>6. Range(waiting') \cap (running' \cup left') = {}
  BY <1>2 DEF Placed, Scheduled
<1> QED  BY <1>2, <1>5, <1>6 DEF Placed

(* A thread of the pool takes the first of the tasks and leaves the rest.  *)
LEMMA TakePlaces ==
  ASSUME Types, Placed, Take
  PROVE  Placed'
<1>1. /\ waiting' \in Seq(Names \X Nat)
      /\ Range(waiting') \subseteq Range(waiting)
      /\ running' = running \cup {waiting[1]} /\ waiting[1] \in Range(waiting)
      /\ Len(waiting) \in Nat \ {0} /\ Len(waiting') = Len(waiting) - 1
      /\ \A i \in 1 .. Len(waiting') : waiting'[i] = waiting[i + 1]
  BY Taking
<1>2. left' = left /\ Cardinality(running) < PoolSize  BY DEF Take, ThreadFree
<1>3. \A i \in 1 .. Len(waiting') : i + 1 \in 1 .. Len(waiting)  BY <1>1
<1>4. \A i, j \in 1 .. Len(waiting') : waiting'[i] = waiting'[j] => i = j
  BY <1>1, <1>3 DEF Placed
<1>5. waiting[1] \notin Range(waiting')
  <2> SUFFICES ASSUME waiting[1] \in Range(waiting') PROVE FALSE
    OBVIOUS
  <2>1. DOMAIN waiting' = 1 .. Len(waiting')  BY <1>1
  <2>2. PICK i \in 1 .. Len(waiting') : waiting'[i] = waiting[1]
    BY <2>1 DEF Range
  <2>3. waiting[i + 1] = waiting[1] /\ i + 1 \in 1 .. Len(waiting) /\ 1 \in 1 .. Len(waiting)
    BY <1>1, <1>3, <2>2
  <2>4. i + 1 = 1  BY <2>3 DEF Placed
  <2> QED  BY <2>4
<1>6. /\ Range(waiting') \cap (running' \cup left') = {}
      /\ running' \cap left' = {}
  BY <1>1, <1>2, <1>5 DEF Placed
<1>7. waiting[1] \notin running  BY <1>1 DEF Placed
<1>8. IsFiniteSet(running') /\ Cardinality(running') = Cardinality(running) + 1
  BY <1>1, <1>7, FS_AddElement DEF Placed
<1>9. Cardinality(running) \in Nat  BY FS_CardinalityType DEF Placed
<1>10. Cardinality(running') <= PoolSize
  BY <1>2, <1>8, <1>9, StartupAssumption
<1> QED  BY <1>4, <1>6, <1>8, <1>10 DEF Placed

LEMMA SamePlaces ==
  ASSUME Placed, UNCHANGED pool
  PROVE  Placed' /\ Scheduled' = Scheduled
<1> USE DEF pool
<1>1. Range(waiting') = Range(waiting)  OBVIOUS
<1> QED  BY <1>1 DEF Placed, Scheduled

(* A task that ends gives its thread back.                                 *)
LEMMA LeavePlaces ==
  ASSUME Placed, NEW t \in running, Leave(t)
  PROVE  Placed' /\ Scheduled' = Scheduled
<1>1. running' = running \ {t} /\ left' = left \cup {t} /\ waiting' = waiting
  BY DEF Leave
<1>2. IsFiniteSet(running') /\ Cardinality(running') = Cardinality(running) - 1
  BY <1>1, FS_RemoveElement DEF Placed
<1>3. Cardinality(running) \in Nat  BY FS_CardinalityType DEF Placed
<1>4. Cardinality(running') <= PoolSize
  BY <1>2, <1>3, StartupAssumption DEF Placed
<1>5. Range(waiting') = Range(waiting)  BY <1>1
<1> QED  BY <1>1, <1>2, <1>4, <1>5 DEF Placed, Scheduled

(* The steps of the main thread hand over tasks that are not there yet.    *)
LEMMA MainPlaces ==
  ASSUME IInv, OtherTypes, PoolInv, Main
  PROVE  PoolInv'
<1> USE DEF config, pool
<1>0. Types /\ GlobalInv /\ FeatureInv /\ InputInv  BY DEF IInv
<1>1. Placed /\ \A t \in Scheduled : Due(t)  BY DEF PoolInv
<1>2. features' = features /\ \A i : LoaderTask(i)' = LoaderTask(i)
  BY DEF Main, InitEnvironment, BuildGlobal, SetFlow, BuildFeature, StartFeature, AddPipeline,
         BuildCore, BuildVideoInput, VideoInputBuilt, StartVideoInput, DaemonStops, LoaderTask
<1>3. CASE InitEnvironment
  <2>1. UNCHANGED <<pool, started>> /\ step = "env" /\ step' \in {"global", "leaving"}
    BY <1>3 DEF InitEnvironment, Goes, Fault
  <2>2. \A t : Due(t) => Due(t)'  BY <1>2, <2>1 DEF Due
  <2> QED  BY <1>1, <2>1, <2>2, SamePlaces DEF PoolInv
<1>4. CASE BuildGlobal
  <2>0. PICK task : task = <<global_executor_names_[at], 1>>
    OBVIOUS
  <2>1. /\ Schedule(<<task>>) /\ UNCHANGED <<running, left, started>>
        /\ at \in 1 .. 2 /\ at' = at + 1
        /\ step = "global" /\ step' = IF at = 2 THEN "flow" ELSE "global"
    BY <1>0, <1>4, <2>0 DEF GlobalInv, BuildGlobal, Goes, global_executor_names_
  <2>2. task = IF at = 1 THEN <<"DispatchProcessor", 1>> ELSE <<"FlowRpcAsynProcessor", 1>>
    BY <2>0, <2>1 DEF global_executor_names_
  <2>3. task \in Names \X Nat  BY <2>2 DEF Names
  <2>4. task \notin Scheduled
    <3>1. ~Due(task)
      <4> SUFFICES ASSUME Due(task) PROVE FALSE
        OBVIOUS
      <4>1. task[1] = IF at = 1 THEN "DispatchProcessor" ELSE "FlowRpcAsynProcessor"
        BY <2>2
      <4> QED  BY <2>1, <4>1, DueOf
    <3> QED  BY <1>1, <3>1
  <2>5. Placed' /\ Scheduled' = Scheduled \cup {task}
    BY <1>0, <1>1, <2>1, <2>3, <2>4, OneMoreTask
  <2>6. \A t : Due(t) => Due(t)'  BY <1>2, <2>1 DEF Due
  <2>7. Due(task)'  BY <2>1, <2>2 DEF Due
  <2> QED  BY <1>1, <2>5, <2>6, <2>7 DEF PoolInv
<1>5. CASE SetFlow
  <2>1. UNCHANGED <<pool, started>> /\ step = "flow" /\ step' \in {"core", "build"}
    BY <1>5 DEF SetFlow, Goes
  <2>2. \A t : Due(t) => Due(t)'  BY <1>2, <2>1 DEF Due
  <2> QED  BY <1>1, <2>1, <2>2, SamePlaces DEF PoolInv
<1>6. CASE BuildFeature
  <2>1. UNCHANGED <<pool, started, at>> /\ step = "build" /\ step' = "start"
    BY <1>6 DEF BuildFeature, Goes
  <2>2. \A t : Due(t) => Due(t)'  BY <1>2, <2>1 DEF Due
  <2> QED  BY <1>1, <2>1, <2>2, SamePlaces DEF PoolInv
<1>7. CASE StartFeature
  <2>1. /\ Schedule(FeatureTasks(at)) /\ UNCHANGED <<running, left, started, at>>
        /\ step = "start" /\ step' = "add"
    BY <1>7 DEF StartFeature, Goes
  <2>2. at \in 1 .. Len(features) /\ at \in Nat /\ Len(features) \in Nat
    BY <1>0, <2>1 DEF FeatureInv, Types
  <2>3. \A t : Due(t) => Due(t)'  BY <1>2, <2>1, <2>2 DEF Due
  <2>4. CASE Monitored(at)
    <3>0. PICK task : task = <<"MonitorProcessor", at>>
      OBVIOUS
    <3>1. FeatureTasks(at) = <<task>>  BY <1>0, <2>2, <2>4, <3>0, Chains
    <3>2. task \in Names \X Nat /\ task[1] = "MonitorProcessor" /\ task[2] = at
      BY <2>2, <3>0 DEF Names
    <3>3. task \notin Scheduled
      <4>1. ~Due(task)  BY <2>1, <2>2, <3>2, DueOf
      <4> QED  BY <1>1, <4>1
    <3>4. Placed' /\ Scheduled' = Scheduled \cup {task}
      BY <1>0, <1>1, <2>1, <3>1, <3>2, <3>3, OneMoreTask
    <3>5. Due(task)'  BY <1>2, <2>1, <2>2, <3>0 DEF Due
    <3> QED  BY <1>1, <2>3, <3>4, <3>5 DEF PoolInv
  <2>5. CASE ~Monitored(at)
    <3>1. FeatureTasks(at) = <<>>  BY <1>0, <2>2, <2>5, Chains
    <3>2. waiting' = waiting  BY <1>0, <2>1, <3>1 DEF Schedule, Types
    <3> QED  BY <1>1, <2>1, <2>3, <3>2, SamePlaces DEF PoolInv
  <2> QED  BY <2>4, <2>5
<1>8. CASE AddPipeline
  <2>1. /\ UNCHANGED <<pool, started>> /\ at' = at + 1
        /\ step = "add" /\ step' \in {"core", "build"}
    BY <1>8 DEF AddPipeline, Goes
  <2>2. at \in Nat /\ Len(features) \in Nat  BY <1>0 DEF Types
  <2>3. \A t : Due(t) => Due(t)'  BY <1>2, <2>1, <2>2 DEF Due
  <2> QED  BY <1>1, <2>1, <2>3, SamePlaces DEF PoolInv
<1>9. CASE BuildCore
  <2>1. step = "core" /\ UNCHANGED <<running, left, started>>
    BY <1>9 DEF BuildCore
  <2>2. CASE AllKnown
    <3>1. Schedule(<<Detector>>) /\ step' = "video"
      BY <1>9, <2>2 DEF BuildCore, Goes
    <3>2. Detector \in Names \X Nat /\ Detector[1] = "DetectorProcessor"
      BY DEF Detector, Names
    <3>3. Detector \notin Scheduled
      <4>1. ~Due(Detector)  BY <2>1, <3>2, DueOf
      <4> QED  BY <1>1, <4>1
    <3>4. Placed' /\ Scheduled' = Scheduled \cup {Detector}
      BY <1>0, <1>1, <2>1, <3>1, <3>2, <3>3, OneMoreTask
    <3>5. \A t : t = Detector \/ Due(t) => Due(t)'  BY <1>2, <2>1, <3>1 DEF Due, Detector
    <3> QED  BY <1>1, <3>4, <3>5 DEF PoolInv
  <2>3. CASE ~AllKnown
    <3>1. UNCHANGED pool /\ step' = "leaving"
      BY <1>9, <2>1, <2>3 DEF BuildCore, Fault
    <3>2. \A t : Due(t) => Due(t)'  BY <1>2, <2>1, <3>1 DEF Due, Detector
    <3> QED  BY <1>1, <3>1, <3>2, SamePlaces DEF PoolInv
  <2> QED  BY <2>2, <2>3
<1>10. CASE BuildVideoInput \/ VideoInputBuilt \/ DaemonStops
  <2>1. /\ UNCHANGED <<pool, started>>
        /\ step \in {"video", "loop"} /\ step' \in {"video", "run", "leaving", "ended"}
    BY <1>10 DEF BuildVideoInput, VideoInputBuilt, DaemonStops, Goes, Abort
  <2>2. \A t : Due(t) => Due(t)'  BY <1>2, <2>1 DEF Due, Detector
  <2> QED  BY <1>1, <2>1, <2>2, SamePlaces DEF PoolInv
<1>11. CASE StartVideoInput
  <2>1. PICK i \in executors \ started :
          started' = started \cup {i} /\ Schedule(<<LoaderTask(i)>>)
    BY <1>11 DEF StartVideoInput
  <2>2. step = "run" /\ step' \in {"run", "loop"} /\ UNCHANGED <<running, left>>
    BY <1>11 DEF StartVideoInput, Goes
  <2>3. i \in DOMAIN KindOf  BY <2>1 DEF OtherTypes
  <2>4. LoaderTask(i) \in Names \X Nat /\ LoaderTask(i) \in Loaders
    BY <2>3, LoaderNames
  <2>5. LoaderTask(i) \notin Scheduled
    <3>1. LoaderTask(i)[2] = i  BY DEF LoaderTask
    <3>2. ~Due(LoaderTask(i))  BY <2>1, <2>4, <3>1, DueOf
    <3> QED  BY <1>1, <3>2
  <2>6. Placed' /\ Scheduled' = Scheduled \cup {LoaderTask(i)}
    BY <1>0, <1>1, <2>1, <2>2, <2>4, <2>5, OneMoreTask
  <2>7. \A t : Due(t) => Due(t)'  BY <1>2, <2>1, <2>2 DEF Due, Detector
  <2>8. Due(LoaderTask(i))'  BY <1>2, <2>1 DEF Due
  <2> QED  BY <1>1, <2>6, <2>7, <2>8 DEF PoolInv
<1> QED
  BY <1>3, <1>4, <1>5, <1>6, <1>7, <1>8, <1>9, <1>10, <1>11 DEF Main

LEMMA StepPlaces ==
  ASSUME IInv, OtherTypes, PoolInv, [Next]_vars
  PROVE  PoolInv'
<1>1. Types  BY DEF IInv
<1>2. Placed /\ \A t \in Scheduled : Due(t)  BY DEF PoolInv
<1>3. ASSUME UNCHANGED <<config, at, started>>, step' = step \/ step' \in {"leaving", "ended"},
             NEW t, Due(t)
      PROVE  Due(t)'
  BY <1>3 DEF Due, config, Detector, LoaderTask
<1>4. CASE Take
  <2>1. Scheduled' = Scheduled  BY <1>1, <1>4, Taking
  <2>2. Placed'  BY <1>1, <1>2, <1>4, TakePlaces
  <2>3. UNCHANGED <<config, step, at, started>>  BY <1>4 DEF Take
  <2> QED  BY <1>2, <1>3, <2>1, <2>2, <2>3 DEF PoolInv
<1>5. ASSUME NEW t \in running, Leave(t) PROVE PoolInv'
  <2>1. UNCHANGED <<config, step, at, started>>  BY <1>5 DEF Leave
  <2> QED  BY <1>2, <1>3, <1>5, <2>1, LeavePlaces DEF PoolInv
<1>6. CASE Signal \/ Exit \/ UNCHANGED vars
           \/ \E t \in running : InitLoader(t) \/ UseDestroyed(t)
  <2>1. /\ UNCHANGED <<config, at, started, pool>>
        /\ step' = step \/ step' \in {"leaving", "ended"}
    BY <1>6 DEF Signal, Exit, InitLoader, UseDestroyed, InitProcessor, Abort, vars
  <2> QED  BY <1>2, <1>3, <2>1, SamePlaces DEF PoolInv
<1>7. CASE Main
  BY <1>7, MainPlaces
<1> QED  BY <1>4, <1>5, <1>6, <1>7 DEF Next

(* What is built is registered.                                            *)
LEMMA BuildingRegistered ==
  ASSUME Types, OtherTypes, NEW name \in Registered, BuildProcessor(name)
  PROVE  DOMAIN queues' \subseteq Registered
<1>1. DOMAIN queues' = DOMAIN queues \cup {name}  BY Building
<1> QED  BY <1>1 DEF OtherTypes

LEMMA StepOtherTypes ==
  ASSUME IInv, OtherTypes, PoolInv, [Next]_vars
  PROVE  OtherTypes'
<1> USE DEF config, pool
<1>0. Types /\ GlobalInv /\ FeatureInv /\ InputInv  BY DEF IInv
<1>1. Scheduled \subseteq Tasks  BY ScheduledAreTasks
<1>2. \A n \in {"DispatchProcessor", "FlowRpcAsynProcessor", "MonitorProcessor",
                "DetectorProcessor"} : n \in Registered /\ \A i \in Nat \ {0} : <<n, i>> \in Tasks
  BY AllRegistered DEF Tasks
<1>3. CASE InitEnvironment
  BY <1>3 DEF OtherTypes, InitEnvironment, Goes, Fault
<1>4. CASE BuildGlobal
  <2>1. global_executor_names_[at] \in {"DispatchProcessor", "FlowRpcAsynProcessor"}
    BY <1>0, <1>4 DEF GlobalInv, BuildGlobal, global_executor_names_
  <2>2. DOMAIN queues' \subseteq Registered
    <3>1. BuildProcessor(global_executor_names_[at])  BY <1>4 DEF BuildGlobal
    <3> QED  BY <1>0, <1>2, <2>1, <3>1, BuildingRegistered
  <2>3. DOMAIN held' \subseteq Tasks
    BY <1>2, <1>4, <2>1 DEF BuildGlobal, InitProcessor, OtherTypes
  <2> QED  BY <1>4, <2>2, <2>3 DEF OtherTypes, BuildGlobal, Goes
<1>5. CASE SetFlow
  BY <1>5 DEF OtherTypes, SetFlow, Goes
<1>6. CASE BuildFeature
  <2>1. at \in 1 .. Len(features)  BY <1>0, <1>6 DEF FeatureInv, BuildFeature
  <2>2. CASE Monitored(at)
    <3>1. Chain(features[at]) = <<"MonitorProcessor">>  BY <1>0, <2>1, <2>2, Chains
    <3>2. /\ BuildProcessor("MonitorProcessor")
          /\ InitProcessor(SafeAdd("MonitorProcessor"), <<"MonitorProcessor", at>>)
      BY <1>6, <3>1 DEF BuildFeature
    <3>3. DOMAIN queues' \subseteq Registered
      BY <1>0, <1>2, <3>2, BuildingRegistered
    <3>4. DOMAIN held' \subseteq Tasks
      BY <1>0, <1>2, <3>2 DEF InitProcessor, OtherTypes, Types
    <3> QED  BY <1>6, <3>3, <3>4 DEF OtherTypes, BuildFeature, Goes
  <2>3. CASE ~Monitored(at)
    <3>1. Chain(features[at]) = <<>>  BY <1>0, <2>1, <2>3, Chains
    <3> QED  BY <1>6, <3>1 DEF OtherTypes, BuildFeature, Goes
  <2> QED  BY <2>2, <2>3
<1>7. CASE StartFeature
  BY <1>7 DEF OtherTypes, StartFeature, Goes
<1>8. CASE AddPipeline
  <2>1. at \in 1 .. Len(features)  BY <1>0, <1>8 DEF FeatureInv, AddPipeline
  <2>2. features[at] \in STRING  BY <1>0, <2>1 DEF Types
  <2>3. Range(FeatureTasks(at)) \subseteq Tasks
    <3>1. Range(FeatureTasks(at)) \subseteq {<<"MonitorProcessor", at>>}
      BY <1>0, <2>1, Chains
    <3> QED  BY <1>0, <1>2, <3>1 DEF Types
  <2>4. pipelines' \subseteq STRING /\ dangling' \subseteq Tasks
    BY <1>8, <2>2, <2>3 DEF AddPipeline, OtherTypes
  <2> QED  BY <1>8, <2>4 DEF OtherTypes, AddPipeline, Goes
<1>9. CASE BuildCore
  <2>1. DOMAIN queues' \subseteq Registered
    <3>1. BuildProcessor("DetectorProcessor")  BY <1>9 DEF BuildCore, Detector
    <3> QED  BY <1>0, <1>2, <3>1, BuildingRegistered
  <2>2. DOMAIN held' \subseteq Tasks
    BY <1>2, <1>9 DEF BuildCore, InitProcessor, OtherTypes, Detector
  <2> QED  BY <1>9, <2>1, <2>2 DEF OtherTypes, BuildCore, Goes, Fault
<1>10. CASE BuildVideoInput
  <2> DEFINE name == Loader[KindOf[inputs[at]]]
  <2>1. CASE name \in Registered
    <3>1. inputs[at] \in DOMAIN KindOf
      BY <1>0, <1>10 DEF InputInv, BuildVideoInput, AllBuilt, Types
    <3>2. DOMAIN queues' \subseteq Registered
      <4>1. BuildProcessor(name)  BY <1>10, <2>1 DEF BuildVideoInput
      <4> HIDE DEF name
      <4> QED  BY <1>0, <2>1, <4>1, BuildingRegistered
    <3>3. executors' = executors \cup {inputs[at]}
      BY <1>10, <2>1 DEF BuildVideoInput
    <3>4. /\ executors' \subseteq DOMAIN KindOf /\ started' \subseteq executors'
          /\ \A i \in executors' : Loader[KindOf[i]] \in Registered
      BY <1>10, <2>1, <3>1, <3>3 DEF OtherTypes, BuildVideoInput
    <3> QED  BY <1>10, <2>1, <3>2, <3>4 DEF OtherTypes, BuildVideoInput, Goes
  <2>2. CASE name \notin Registered
    BY <1>10, <2>2 DEF OtherTypes, BuildVideoInput, Abort
  <2> QED  BY <2>1, <2>2
<1>11. CASE VideoInputBuilt
  BY <1>11 DEF OtherTypes, VideoInputBuilt, Goes, Abort
<1>12. CASE StartVideoInput
  BY <1>12 DEF OtherTypes, StartVideoInput, Goes
<1>13. CASE DaemonStops \/ Take \/ Signal \/ Exit \/ UNCHANGED vars
  BY <1>13 DEF OtherTypes, DaemonStops, Take, Signal, Exit, vars
<1>14. ASSUME NEW t \in running, InitLoader(t) PROVE OtherTypes'
  <2>1. t \in Tasks  BY <1>1 DEF Scheduled
  <2>2. DOMAIN held' \subseteq DOMAIN held \cup {t}
    BY <1>14 DEF InitLoader, InitProcessor
  <2>3. DOMAIN held' \subseteq Tasks  BY <2>1, <2>2 DEF OtherTypes
  <2>4. /\ UNCHANGED <<features, inputs, version, queues, flow, sys_quit, dying, pipelines,
                       dangling, executors, started>>
        /\ step' \in {step, "ended"}
    BY <1>14 DEF InitLoader, Abort
  <2> QED  BY <2>3, <2>4 DEF OtherTypes
<1>15. ASSUME NEW t \in running, Leave(t) \/ UseDestroyed(t) PROVE OtherTypes'
  BY <1>15 DEF OtherTypes, Leave, UseDestroyed
<1> QED
  BY <1>3, <1>4, <1>5, <1>6, <1>7, <1>8, <1>9, <1>10, <1>11, <1>12, <1>13, <1>14, <1>15
     DEF Next, Main

(* No task is handed over twice, none gets two threads, and never more     *)
(* run than there are threads, for any size of the pool and also for       *)
(* features and inputs that are configured twice.                          *)
THEOREM TypeCorrect == Spec => []TypeOK
<1> DEFINE Inv == OtherTypes /\ PoolInv
<1>1. Init => Inv
  <2> SUFFICES ASSUME Init PROVE Inv
    OBVIOUS
  <2>1. OtherTypes
    <3>1. DOMAIN queues = {} /\ DOMAIN held = {}  BY DEF Init
    <3> QED  BY <3>1 DEF Init, OtherTypes
  <2>2. Scheduled = {} /\ waiting = <<>> /\ Range(waiting) = {}
    BY DEF Init, Scheduled, Range
  <2>3. Placed
    BY <2>2, FS_EmptySet, StartupAssumption DEF Init, Placed
  <2> QED  BY <2>1, <2>2, <2>3 DEF PoolInv
<1>2. IInv /\ Inv /\ [Next]_vars => Inv'
  BY StepPlaces, StepOtherTypes
<1>3. IInv /\ Inv => TypeOK
  <2> SUFFICES ASSUME IInv, OtherTypes, PoolInv PROVE TypeOK
    OBVIOUS
  <2>1. Scheduled \subseteq Tasks  BY ScheduledAreTasks
  <2> QED  BY <2>1 DEF IInv, Types, OtherTypes, PoolInv, Placed, TypeOK, Scheduled
<1> HIDE DEF Inv
<1> QED  BY <1>1, <1>2, <1>3, Invariance, PTL DEF Spec
=============================================================================
