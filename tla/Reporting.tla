------------------------------ MODULE Reporting ------------------------------
(***************************************************************************)
(* The counters of ServiceMetricManager, to which loaders and detector     *)
(* add and which the logger events take and clear.  A logger event puts    *)
(* what it took in a local Json object, or in the log, and returns: what   *)
(* counts here is that each counter is taken once.                         *)
(*                                                                         *)
(* An operation of ServiceMetricManager is one step, for it holds          *)
(* global_mt.  The loaders share the ring of the detect queue: a push      *)
(* takes two steps, and after two that overlap the ring may hold anything. *)
(* The dispatch queue has two producers as well (see Pipeline): from it    *)
(* comes any event that was once pushed.  A process that has crashed does  *)
(* nothing more, which is a behaviour of every model.                      *)
(***************************************************************************)
EXTENDS Integers, FiniteSets

CONSTANTS
  Cameras, Files,    \* RTSP and USB loaders, loaders of local videos
  Cap,               \* capacity of a queue
  MaxFrames,         \* bound: frames read by each loader
  Costs,             \* bound: durations of a detection
  None

Keys == {"input", "output", "detect", "cost"}
Loaders == Cameras \cup Files
Events == {"model", "image"}    \* the actions of the logger events

ASSUME ReportingAssumption ==
  /\ Cap \in Nat \ {0} /\ MaxFrames \in Nat
  /\ Costs \subseteq Nat
  /\ Cameras \cap Files = {} /\ IsFiniteSet(Loaders)
  /\ None \notin Events

VARIABLES
  metrics,    \* metrics_: action -> key -> value
  loader,     \* loader -> "read", "push" inside Push, "count" before add
  detectQ,    \* frames in the queue of the detector
  overlaps,   \* loaders in a push during which another pushed
  detector,   \* where the detector is
  sent,       \* events that were pushed to the dispatch queue
  event,      \* the event the dispatcher handles
  raced,               \* history: two pushes of frames have overlapped
  read,                \* history: loader -> frames read
  pushed, filed,       \* history: frames cameras and files pushed, or lost
  popped, searched, skipped, spent,
  taken                \* history: what the model's events have taken

ring == <<detectQ, overlaps, raced>>
dispatching == <<sent, event, taken>>
input == <<read, pushed, filed>>
output == <<popped, searched, skipped, spent>>
vars == <<metrics, loader, ring, detector, dispatching, input, output>>

Counters == [Keys -> Nat]
Zero == [k \in Keys |-> 0]
Steps == {"start", "pop", "output", "search", "cost", "image", "model", "ended"}

TypeOK ==
  /\ metrics \in [Events -> Counters]
  /\ loader \in [Loaders -> {"read", "push", "count"}]
  /\ detectQ \in 0 .. Cap
  /\ overlaps \subseteq Loaders /\ raced \in BOOLEAN
  /\ detector \in Steps
  /\ sent \subseteq Events
  /\ event \in Events \cup {None}
  /\ read \in [Loaders -> 0 .. MaxFrames]
  /\ pushed \in Nat /\ filed \in Nat
  /\ popped \in Nat /\ searched \in Nat /\ skipped \in Nat /\ spent \in Nat
  /\ taken \in Counters

Init ==
  /\ metrics = [e \in Events |-> Zero]
  /\ loader = [l \in Loaders |-> "read"]
  /\ detectQ = 0 /\ overlaps = {} /\ raced = FALSE
  /\ detector = "start"
  /\ sent = {} /\ event = None
  /\ read = [l \in Loaders |-> 0]
  /\ pushed = 0 /\ filed = 0
  /\ popped = 0 /\ searched = 0 /\ skipped = 0 /\ spent = 0
  /\ taken = Zero
-----------------------------------------------------------------------------
(* ServiceMetricManager.  A key that is missing is one that counts 0.      *)

Set(action, K) ==
  metrics' = [metrics EXCEPT ![action] = [k \in Keys |-> IF k \in K THEN 0 ELSE @[k]]]

Add(action, key, n) == metrics' = [metrics EXCEPT ![action][key] = @ + n]

(* Mutant: the counters are read but stay.                                 *)
Cleared_Keeps(action) == metrics

Cleared(action) == [metrics EXCEPT ![action] = Zero]

GetAndClear(action) ==
  /\ taken' = IF action = "model"
              THEN [k \in Keys |-> taken[k] + metrics[action][k]] ELSE taken
  /\ metrics' = Cleared(action)
-----------------------------------------------------------------------------
(* Loaders.  A camera's frame is counted once it was pushed, or refused by *)
(* a full queue; a video's is not.                                         *)

AfterPush(l) == IF l \in Cameras THEN "count" ELSE "read"

Counted(l) ==
  IF l \in Cameras THEN pushed' = pushed + 1 /\ UNCHANGED filed
                   ELSE filed' = filed + 1 /\ UNCHANGED pushed

Pushing == {l \in Loaders : loader[l] = "push"}

ReadFrame(l) ==
  /\ loader[l] = "read" /\ read[l] < MaxFrames
  /\ read' = [read EXCEPT ![l] = @ + 1]
  /\ IF detectQ >= Cap
     THEN /\ loader' = [loader EXCEPT ![l] = AfterPush(l)]
          /\ Counted(l)
          /\ UNCHANGED ring
     ELSE /\ loader' = [loader EXCEPT ![l] = "push"]
          /\ overlaps' = IF Pushing = {} THEN overlaps ELSE overlaps \cup Pushing \cup {l}
          /\ raced' = (raced \/ Pushing # {})
          /\ UNCHANGED <<detectQ, pushed, filed>>
  /\ UNCHANGED <<metrics, detector, dispatching, output>>

FramePushed(l) ==
  /\ loader[l] = "push"
  /\ detectQ' \in IF l \in overlaps THEN 0 .. Cap ELSE {detectQ + 1}
  /\ overlaps' = overlaps \ {l}
  /\ loader' = [loader EXCEPT ![l] = AfterPush(l)]
  /\ Counted(l)
  /\ UNCHANGED <<metrics, raced, detector, dispatching, read, output>>

CountInput(l) ==
  /\ loader[l] = "count"
  /\ Add("model", "input", 1)
  /\ loader' = [loader EXCEPT ![l] = "read"]
  /\ UNCHANGED <<ring, detector, dispatching, input, output>>
-----------------------------------------------------------------------------
(* The detector.                                                           *)

(* Mutant: the input is set to zero as well.                               *)
ZeroKeys_All == Keys

ZeroKeys == Keys \ {"input"}

DetectorStarts ==
  /\ detector = "start"
  /\ Set("model", ZeroKeys)
  /\ detector' = "pop"
  /\ UNCHANGED <<loader, ring, dispatching, input, output>>

Pop ==
  /\ detector = "pop" /\ detectQ > 0
  /\ detectQ' = detectQ - 1
  /\ popped' = popped + 1
  /\ detector' = "output"
  /\ UNCHANGED <<metrics, loader, overlaps, raced, dispatching, input,
                 searched, skipped, spent>>

CountOutput ==
  /\ detector = "output"
  /\ Add("model", "output", 1)
  /\ detector' = "search"
  /\ UNCHANGED <<loader, ring, dispatching, input, output>>

(* A frame without an image; or, once pushes have overlapped, a slot       *)
(* without a frame: the any_cast throws and the thread ends.               *)
Skip ==
  /\ detector = "search"
  /\ skipped' = skipped + 1
  /\ detector' \in IF raced THEN {"pop", "ended"} ELSE {"pop"}
  /\ UNCHANGED <<metrics, loader, ring, dispatching, input, popped, searched, spent>>

Search ==
  /\ detector = "search"
  /\ searched' = searched + 1
  /\ Add("model", "detect", 1)
  /\ detector' = "cost"
  /\ UNCHANGED <<loader, ring, dispatching, input, popped, skipped, spent>>

CountCost ==
  /\ detector = "cost"
  /\ \E d \in Costs : Add("model", "cost", d) /\ spent' = spent + d
  /\ detector' = "image"
  /\ UNCHANGED <<loader, ring, dispatching, input, popped, searched, skipped>>

(* The timers of the image and of the model, each due or not; then the     *)
(* frame goes on to the monitor.                                           *)
Timer ==
  /\ detector \in {"image", "model"}
  /\ sent' \in {sent, sent \cup {detector}}
  /\ detector' = IF detector = "image" THEN "model" ELSE "pop"
  /\ UNCHANGED <<metrics, loader, ring, event, taken, input, output>>
-----------------------------------------------------------------------------
(* The dispatcher and LoggerEvent::handler: it takes the counters of its   *)
(* action first and changes nothing after, whatever uploadImage, which     *)
(* returns no value, is taken to have answered.                            *)

Dispatch ==
  /\ event = None
  /\ event' \in sent
  /\ UNCHANGED <<metrics, loader, ring, detector, sent, taken, input, output>>

Handle ==
  /\ event \in Events
  /\ GetAndClear(event)
  /\ event' = None
  /\ UNCHANGED <<loader, ring, detector, sent, input, output>>
-----------------------------------------------------------------------------
Detect ==
  \/ DetectorStarts \/ Pop \/ CountOutput \/ Skip \/ Search \/ CountCost \/ Timer

Next ==
  \/ \E l \in Loaders : ReadFrame(l) \/ FramePushed(l) \/ CountInput(l)
  \/ Detect \/ Dispatch \/ Handle

Spec == Init /\ [][Next]_vars
-----------------------------------------------------------------------------
(* PROPERTIES                                                              *)

Here(at) == IF detector = at THEN 1 ELSE 0
Uncounted == {l \in Loaders : loader[l] = "count"}

(* Whatever the logger events take and clear in between, every frame and   *)
(* every millisecond is in the counters or was taken by one of them, once: *)
(* adding, clearing and setting to zero race in several threads, and a     *)
(* damaged queue does not disturb the count.                               *)
CountedOnce ==
  LET total(k) == metrics["model"][k] + taken[k] IN
  /\ total("input") = pushed - Cardinality(Uncounted)
  /\ total("output") = popped - Here("output")
  /\ total("detect") = searched
  /\ total("cost") = spent

(* What has been taken agrees, although no two counters are taken together *)
(* with what they count: at most one frame more than detections and frames *)
(* without an image, and no more frames out than in, but for the files,    *)
(* which are not counted, and one frame of each camera; the latter until   *)
(* two loaders were inside Push of the detect queue at once.               *)
TakenAgree ==
  /\ taken["output"] - taken["detect"] \in 0 .. skipped + 1
  /\ raced \/ taken["output"] <= taken["input"] + filed + Cardinality(Cameras)
=============================================================================
