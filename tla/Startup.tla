------------------------------- MODULE Startup -------------------------------
(***************************************************************************)
(* From main to the polling loop of ServiceDaemon: SolutionPipeline creates *)
(* the processors the configuration asks for and the queues between them,  *)
(* and hands each processor's run to a pool of threads, which every one of *)
(* them then keeps for ever.                                               *)
(*                                                                         *)
(* A queue is known by the order of its creation, 0 is a null pointer.  A  *)
(* task is a processor with the place, in the configuration, it was built  *)
(* for.  stream_queue is left out: no queue of that name is ever built, and *)
(* it is used only if stream_connect is set, which nothing does.           *)
(***************************************************************************)
EXTENDS Integers, Sequences, FiniteSets, SequencesExt

CONSTANTS
  FeatureLists,  \* bound: values of "feature"
  InputLists,    \* bound: values of "video_input"
  KindOf,        \* what BuildVideoInput finds in the name of an input
  Versions,      \* bound: values of "det_model_version"
  PoolSize       \* threads of the CPU executor

Loader ==
  [rtsp |-> "RtspLoaderProcessor", usb |-> "UsbDeviceLoaderProcessor",
   local |-> "LocalVideoLoaderProcessor", hisi |-> "HisiCameraProcessor",
   rtmp |-> ""]

ASSUME StartupAssumption ==
  /\ FeatureLists \subseteq Seq(STRING)
  /\ KindOf \in Seq(DOMAIN Loader)
  /\ InputLists \subseteq Seq(DOMAIN KindOf)
  /\ Versions \subseteq STRING
  /\ PoolSize \in Nat \ {0}

VARIABLES
  features, inputs, version,  \* the configuration
  step, at,    \* where the main thread is, and at which entry of a list
  queues,      \* QueueManager: name -> queue
  made,        \* queues created
  held,        \* task -> the queues it looked up, by name
  flow,        \* FlowRpcAsynProcessor_flow is set
  pipelines,   \* SolutionPipelineManager
  dangling,    \* tasks whose SolutionPipeline was destroyed
  executors,   \* global_video_input_executors_, by input
  started,     \* the inputs whose loader was handed to the pool
  waiting,     \* tasks of the executor without a thread
  running, left,
  sys_quit,
  dying        \* a thread is in its last 15 seconds before exit(0)

config == <<features, inputs, version>>
pool == <<waiting, running, left>>
vars == <<config, step, at, queues, made, held, flow, pipelines, dangling,
          executors, started, pool, sys_quit, dying>>

(* feature_map; any other name yields an empty list.                       *)
FeatureMap == [f \in {"monitor"} |-> <<"MonitorProcessor">>]
Chain(f) == IF f \in DOMAIN FeatureMap THEN FeatureMap[f] ELSE <<>>

(* The network files of each version: init reads two of them.              *)
NetworkFiles ==
  [PED_V3 |-> 2, Monitor_V1 |-> 2, Huishoubao_V2 |-> 2, Capture_V2 |-> 2,
   Vehicle_V1 |-> 1]

global_executor_names_ == <<"DispatchProcessor", "FlowRpcAsynProcessor">>
Detector == <<"DetectorProcessor", 1>>
Registered == Range(global_executor_names_) \cup
              {"DetectorProcessor", "MonitorProcessor"} \cup
              {Loader[k] : k \in {"rtsp", "usb", "local"}}

FeatureTasks(i) == [k \in DOMAIN Chain(features[i]) |-> <<Chain(features[i])[k], i>>]
LoaderTask(i) == <<Loader[KindOf[i]], i>>
Loaders == {LoaderTask(i) : i \in DOMAIN KindOf}
Tasks == Registered \X (Nat \ {0})

TypeOK ==
  /\ features \in FeatureLists /\ inputs \in InputLists /\ version \in Versions
  /\ step \in {"env", "global", "flow", "build", "start", "add", "core", "video",
               "run", "loop", "leaving", "ended"}
  /\ at \in Nat \ {0} /\ made \in Nat
  /\ DOMAIN queues \subseteq Registered
  /\ \A n \in DOMAIN queues : queues[n] \in 1 .. made
  /\ DOMAIN held \subseteq Tasks
  /\ flow \in BOOLEAN /\ sys_quit \in BOOLEAN /\ dying \in BOOLEAN
  /\ pipelines \subseteq STRING
  /\ dangling \subseteq Tasks
  /\ started \subseteq executors /\ executors \subseteq DOMAIN KindOf
  /\ Range(waiting) \subseteq Tasks
  /\ running \subseteq Tasks /\ left \subseteq Tasks
  /\ Cardinality(running) <= PoolSize
  /\ Range(waiting) \cap (running \cup left) = {} /\ running \cap left = {}

Init ==
  /\ features \in FeatureLists /\ inputs \in InputLists /\ version \in Versions
  /\ step = "env" /\ at = 1
  /\ queues = <<>> /\ made = 0 /\ held = <<>>
  /\ flow = FALSE /\ pipelines = {} /\ dangling = {}
  /\ executors = {} /\ started = {}
  /\ waiting = <<>> /\ running = {} /\ left = {}
  /\ sys_quit = FALSE /\ dying = FALSE
-----------------------------------------------------------------------------
(* Mutant: the last queue of a name replaces the first.                    *)
SafeAdd_Replaces(name) ==
  [n \in DOMAIN queues \cup {name} |-> IF n = name THEN made + 1 ELSE queues[n]]

(* QueueManager::SafeAdd of a new queue: the first of a name is kept.      *)
SafeAdd(name) ==
  [n \in DOMAIN queues \cup {name} |->
     IF n \in DOMAIN queues THEN queues[n] ELSE made + 1]

SafeGet(known, name) == IF name \in DOMAIN known THEN known[name] ELSE 0

(* buildProcessor of a registered one.                                     *)
BuildProcessor(name) == queues' = SafeAdd(name) /\ made' = made + 1

(* What the init of each processor looks up: loaders their successor, the  *)
(* others their own queue and those they push to.                          *)
Uses(task) ==
  CASE task[1] = "DispatchProcessor" -> {"DispatchProcessor"}
    [] task[1] = "FlowRpcAsynProcessor" -> {}
    [] task[1] = "MonitorProcessor" -> {"MonitorProcessor", "DispatchProcessor"}
    [] task = Detector ->
         {"DetectorProcessor", "DispatchProcessor"} \cup
         {FeatureMap[f][1] : f \in Range(features) \cap DOMAIN FeatureMap}
    [] OTHER -> {"DetectorProcessor"}

(* Every processor overrides Processor::init: no null is reported.         *)
InitProcessor(known, task) ==
  held' = [t \in DOMAIN held \cup {task} |->
             IF t = task THEN [n \in Uses(task) |-> SafeGet(known, n)] ELSE held[t]]

Schedule(tasks) == waiting' = waiting \o tasks

(* LOG(FATAL) aborts; a SIGSEGV of the main thread leaves it in the signal *)
(* handler.                                                                *)
Abort == step' = "ended" /\ UNCHANGED <<sys_quit, dying>>
Fault == step' = "leaving" /\ sys_quit' = TRUE /\ dying' = TRUE
Goes(next) == step' = next /\ UNCHANGED <<sys_quit, dying>>
-----------------------------------------------------------------------------
(* EnvironmentInit::init.  The files of an unknown version are read from   *)
(* an empty vector; reading the second of one file is undefined.           *)
InitEnvironment ==
  /\ step = "env"
  /\ \/ version \in DOMAIN NetworkFiles /\ Goes("global")
     \/ /\ version \in DOMAIN NetworkFiles => NetworkFiles[version] < 2
        /\ Fault
  /\ UNCHANGED <<config, at, queues, made, held, flow, pipelines, dangling,
                 executors, started, pool>>

BuildGlobal ==
  /\ step = "global"
  /\ at <= Len(global_executor_names_)
  /\ LET name == global_executor_names_[at] task == <<name, 1>> IN
       /\ BuildProcessor(name)
       /\ InitProcessor(SafeAdd(name), task)
       /\ Schedule(<<task>>)
  /\ at' = at + 1
  /\ Goes(IF at = Len(global_executor_names_) THEN "flow" ELSE step)
  /\ UNCHANGED <<config, flow, pipelines, dangling, executors, started, running, left>>

SetFlow ==
  /\ step = "flow"
  /\ flow' = TRUE
  /\ at' = 1
  /\ Goes(IF features = <<>> THEN "core" ELSE "build")
  /\ UNCHANGED <<config, queues, made, held, pipelines, dangling, executors,
                 started, pool>>

(* SolutionPipeline::Build, for the chains of one processor that           *)
(* feature_map has; an unknown feature builds nothing.                     *)
BuildFeature ==
  /\ step = "build"
  /\ IF Chain(features[at]) = <<>>
     THEN UNCHANGED <<queues, made, held>>
     ELSE LET name == Chain(features[at])[1] IN
            /\ BuildProcessor(name)
            /\ InitProcessor(SafeAdd(name), <<name, at>>)
  /\ Goes("start")
  /\ UNCHANGED <<config, at, flow, pipelines, dangling, executors, started, pool>>

StartFeature ==
  /\ step = "start"
  /\ Schedule(FeatureTasks(at))
  /\ Goes("add")
  /\ UNCHANGED <<config, at, queues, made, held, flow, pipelines, dangling,
                 executors, started, running, left>>

(* SolutionPipelineManager refuses the second pipeline of a feature, which *)
(* is then destroyed with the processors its tasks refer to.               *)
AddPipeline ==
  /\ step = "add"
  /\ pipelines' = pipelines \cup {features[at]}
  /\ dangling' = IF features[at] \in pipelines
                 THEN dangling \cup Range(FeatureTasks(at)) ELSE dangling
  /\ at' = at + 1
  /\ Goes(IF at = Len(features) THEN "core" ELSE "build")
  /\ UNCHANGED <<config, queues, made, held, flow, executors, started, pool>>

(* Mutant: an unknown feature is skipped.                                  *)
AllKnown_Skips == TRUE

(* DetectorProcessor::init takes the first processor of every feature.     *)
AllKnown == \A f \in Range(features) : Chain(f) # <<>>

BuildCore ==
  /\ step = "core"
  /\ BuildProcessor(Detector[1])
  /\ at' = 1
  /\ IF AllKnown
     THEN /\ InitProcessor(SafeAdd(Detector[1]), Detector)
          /\ Schedule(<<Detector>>)
          /\ Goes("video")
     ELSE Fault /\ UNCHANGED <<held, waiting>>
  /\ UNCHANGED <<config, flow, pipelines, dangling, executors, started, running, left>>

(* Mutant: the loaders are started before the last one is built.           *)
AllBuilt_Early == at >= Len(inputs)

AllBuilt == at > Len(inputs)

(* BuildVideoInput: a processor that is not registered, as for rtmp and    *)
(* hisi, is fatal, and so is an empty list.                                *)
BuildVideoInput ==
  /\ step = "video" /\ ~AllBuilt
  /\ LET name == Loader[KindOf[inputs[at]]] IN
       IF name \in Registered
       THEN BuildProcessor(name) /\ executors' = executors \cup {inputs[at]} /\ Goes(step)
       ELSE Abort /\ UNCHANGED <<queues, made, executors>>
  /\ at' = at + 1
  /\ UNCHANGED <<config, held, flow, pipelines, dangling, started, pool>>

VideoInputBuilt ==
  /\ step = "video" /\ AllBuilt
  /\ IF inputs = <<>> THEN Abort ELSE Goes("run")
  /\ UNCHANGED <<config, at, queues, made, held, flow, pipelines, dangling,
                 executors, started, pool>>

(* StartVideoInput, in the order of the unordered map.                     *)
StartVideoInput ==
  /\ step = "run"
  /\ \E i \in executors \ started :
       /\ started' = started \cup {i}
       /\ Schedule(<<LoaderTask(i)>>)
  /\ Goes(IF started' = executors THEN "loop" ELSE step)
  /\ UNCHANGED <<config, at, queues, made, held, flow, pipelines, dangling,
                 executors, running, left>>

(* ServiceDaemon::Loop.                                                    *)
DaemonStops ==
  /\ step = "loop" /\ sys_quit
  /\ step' = "leaving" /\ dying' = TRUE
  /\ UNCHANGED <<config, at, queues, made, held, flow, pipelines, dangling,
                 executors, started, pool, sys_quit>>
-----------------------------------------------------------------------------
(* The pool.                                                               *)

(* Mutant: the task handed over last gets the next thread.                 *)
NextTask_Last == Len(waiting)

(* Tasks get threads in the order they were added in.                      *)
NextTask == 1

(* Mutant: one thread too many.                                            *)
ThreadFree_OneMore == Cardinality(running) <= PoolSize

ThreadFree == Cardinality(running) < PoolSize

Take ==
  /\ step # "ended"
  /\ waiting # <<>> /\ ThreadFree
  /\ running' = running \cup {waiting[NextTask]}
  /\ waiting' = RemoveAt(waiting, NextTask)
  /\ UNCHANGED <<config, step, at, queues, made, held, flow, pipelines, dangling,
                 executors, started, left, sys_quit, dying>>

(* A loader is initialised on its thread of the pool.  A USB device is     *)
(* searched until there is one; a path without a video is fatal.           *)
InitLoader(t) ==
  /\ step # "ended"
  /\ t \in (running \cap Loaders) \ DOMAIN held
  /\ \/ InitProcessor(queues, t) /\ UNCHANGED <<step, sys_quit, dying>>
     \/ t[1] = Loader["local"] /\ Abort /\ UNCHANGED held
  /\ UNCHANGED <<config, at, queues, made, flow, pipelines, dangling, executors,
                 started, pool>>

(* A task ends after sys_quit, except the uploader, which sleeps on; the   *)
(* loader of a local video also ends the service after its last one.       *)
Leave(t) ==
  /\ step # "ended"
  /\ t \in running \cap DOMAIN held
  /\ \/ sys_quit /\ t[1] # "FlowRpcAsynProcessor" /\ UNCHANGED sys_quit
     \/ t[1] = Loader["local"] /\ sys_quit' = TRUE
  /\ running' = running \ {t} /\ left' = left \cup {t}
  /\ UNCHANGED <<config, step, at, queues, made, held, flow, pipelines, dangling,
                 executors, started, waiting, dying>>

(* A task whose processor is gone may fault; the handler keeps its thread. *)
UseDestroyed(t) ==
  /\ step # "ended" /\ ~dying
  /\ t \in running \cap dangling
  /\ sys_quit' = TRUE /\ dying' = TRUE
  /\ UNCHANGED <<config, step, at, queues, made, held, flow, pipelines, dangling,
                 executors, started, pool>>

(* SIGINT or SIGTERM, which the main thread may get or any other.          *)
Signal ==
  /\ step # "ended" /\ ~dying
  /\ sys_quit' = TRUE /\ dying' = TRUE
  /\ step' \in {step, "leaving"}
  /\ UNCHANGED <<config, at, queues, made, held, flow, pipelines, dangling,
                 executors, started, pool>>

Exit ==
  /\ step # "ended" /\ dying
  /\ step' = "ended"
  /\ UNCHANGED <<config, at, queues, made, held, flow, pipelines, dangling,
                 executors, started, pool, sys_quit, dying>>
-----------------------------------------------------------------------------
Main ==
  \/ InitEnvironment \/ BuildGlobal \/ SetFlow
  \/ BuildFeature \/ StartFeature \/ AddPipeline
  \/ BuildCore \/ BuildVideoInput \/ VideoInputBuilt \/ StartVideoInput
  \/ DaemonStops

Next ==
  \/ Main \/ Take \/ Signal \/ Exit
  \/ \E t \in running : InitLoader(t) \/ Leave(t) \/ UseDestroyed(t)

Spec == Init /\ [][Next]_vars

(* The main thread and the pool go on, and a sleep of 15 seconds ends.     *)
FairSpec == Spec /\ WF_vars(Main) /\ WF_vars(Take) /\ WF_vars(Exit)
-----------------------------------------------------------------------------
(* PROPERTIES                                                              *)

(* Whoever has looked a queue up holds a queue, and the same one as all    *)
(* others that name it: SafeGet and SafeAdd fail silently, the order of    *)
(* building must make up for it, also for a feature or a kind of input     *)
(* that is configured twice.                                               *)
Connected ==
  \A t, u \in DOMAIN held : \A n \in DOMAIN held[t] \cap DOMAIN held[u] :
    held[t][n] # 0 /\ held[t][n] = held[u][n]

Stages ==
  {<<n, 1>> : n \in Range(global_executor_names_)} \cup {Detector} \cup
  UNION {Range(FeatureTasks(i)) : i \in DOMAIN features}

(* However few threads the pool has, no loader gets one before every stage *)
(* its frames pass through has one and events can be uploaded.             *)
PipelineFirst ==
  running \cap Loaders # {} => flow /\ Stages \subseteq running \cup left

(* A service that polls has all it was configured with: a known network,   *)
(* the stages of every feature, a loader for every input.                  *)
Complete ==
  step = "loop" =>
    /\ version \in DOMAIN NetworkFiles
    /\ \A i \in DOMAIN features : Chain(features[i]) # <<>>
    /\ inputs # <<>> /\ started = Range(inputs)
    /\ Stages \subseteq DOMAIN held

(* The start ends in the polling loop or with the process, and all tasks   *)
(* get a thread if there are enough of them.                               *)
Enough == Cardinality(Stages) + Cardinality(Range(inputs)) <= PoolSize

ComesUp == <>(step = "ended" \/ (step = "loop" /\ (Enough => waiting = <<>>)))
=============================================================================
