------------------------------ MODULE Pipeline ------------------------------
(***************************************************************************)
(* The threads of the service and the queues between them:                 *)
(*                                                                         *)
(*   video inputs --detect--> detector --monitor--> monitor                *)
(*                               |                     |                   *)
(*                               +------dispatch-------+--> dispatcher     *)
(*                                                                         *)
(* with sys_quit, the flag every loop tests, and the daemon that ends the  *)
(* process.  What the detector finds and whether one of its timers is due  *)
(* is any choice; the counters of ServiceMetricManager are in Reporting.   *)
(*                                                                         *)
(* A queue is a single-producer ring.  With one producer (monitor) it is a *)
(* bounded buffer, as SpscQueue shows, and a push is one step.  The inputs *)
(* share the detect queue, detector and monitor the dispatch queue: there  *)
(* a push takes two steps, and after two that overlap the ring may hold    *)
(* anything: entries overwritten, old ones again, slots without an object. *)
(***************************************************************************)
EXTENDS Integers, Sequences, FiniteSets, SequencesExt

CONSTANTS
  Rtsp, Usb, Local, \* the video inputs of each kind
  Cap,              \* capacity of a queue: 10
  Interval,         \* monitor_interval
  None,             \* no frame, or a slot without an object
  MaxReads,         \* bound: how often each input may be read, a set of choices
  MaxVideos         \* bound: video files of a local input

Cameras == Rtsp \cup Usb \cup Local

ASSUME PipelineAssumption ==
  /\ Rtsp \cap Usb = {} /\ Rtsp \cap Local = {} /\ Usb \cap Local = {}
  /\ Cap \in Nat \ {0}
  /\ Interval \in Nat \ {0}
  /\ Cameras \cap {"detector", "monitor"} = {}
  /\ MaxReads \subseteq [Rtsp \cup Usb \cup Local -> Nat] /\ MaxVideos \in Nat

VARIABLES
  sys_quit,   \* gt->sys_quit
  daemon,     \* ServiceDaemon::Loop, or the signal handler once it runs
  loader,     \* program counter of each video input
  frame_id,   \* frame_id_ of each video input
  videos,     \* length of localVideoList_
  detectQ, monitorQ, dispatchQ,
  overlaps,   \* threads in a push during which another pushed to the queue
  raced,      \* history: the queues on which two pushes have overlapped
  det, frame, \* program counter of the detector, the frame it holds
  mon, cnt,   \* program counter of the monitor, cur_interval_cnt_
  disp,       \* program counter of the dispatcher
  reads,      \* history: reads of each input
  shown,      \* history: the last frame of each input the monitor handled
  late        \* history: items each stage took after sys_quit was set

loaderVars == <<loader, frame_id, videos, reads>>
detectorVars == <<det, frame>>
monitorVars == <<mon, cnt, shown>>
pushes == <<overlaps, raced>>
queues == <<detectQ, monitorQ, dispatchQ, pushes>>
quitting == <<sys_quit, daemon>>
vars == <<quitting, loaderVars, queues, detectorVars, monitorVars, disp,
          late>>

Frames == [cam : Cameras, id : Nat]
Events == {"logger", "monitor"}
Stages == {"detector", "monitor", "dispatcher"}

TypeOK ==
  /\ sys_quit \in BOOLEAN
  /\ daemon \in {"watch", "stopping", "exited"}
  /\ loader \in [Cameras -> {"check", "read", "push", "pushing", "reopen", "drain", "ended"}]
  /\ frame_id \in [Cameras -> Nat]
  /\ videos \in [Local -> Nat]
  /\ detectQ \in Seq(Frames \cup {None}) /\ monitorQ \in Seq(Frames)
  /\ dispatchQ \in Seq(Events \cup {None})
  /\ overlaps \subseteq Cameras \cup {"detector", "monitor"}
  /\ raced \subseteq {"detect", "dispatch"}
  /\ det \in {"check", "pop", "search", "image", "image_push", "model", "model_push",
              "forward", "ended"}
  /\ frame \in Frames \cup {None}
  /\ mon \in {"check", "pop", "push", "pushing", "ended"}
  /\ cnt \in 0 .. Interval - 1
  /\ disp \in {"check", "pop", "asleep", "ended"} \cup Events
  /\ reads \in [Cameras -> Nat]
  /\ shown \in [Cameras -> Nat]
  /\ late \in [Stages -> Nat]

Init ==
  /\ sys_quit = FALSE
  /\ daemon = "watch"
  /\ loader = [c \in Cameras |-> "check"]
  /\ frame_id = [c \in Cameras |-> 0]
  /\ videos \in [Local -> 0 .. MaxVideos]
  /\ detectQ = <<>> /\ monitorQ = <<>> /\ dispatchQ = <<>>
  /\ overlaps = {} /\ raced = {}
  /\ det = "check" /\ frame = None
  /\ mon = "check" /\ cnt = 0
  /\ disp = "check"
  /\ reads = [c \in Cameras |-> 0]
  /\ shown = [c \in Cameras |-> 0]
  /\ late = [s \in Stages |-> 0]

(* Queue::Push refuses what does not fit; its result is ignored.           *)
Full(queue) == Len(queue) >= Cap

Push(queue, x) == IF Full(queue) THEN queue ELSE Append(queue, x)

(* Queue::Push up to the load of the write index, while the others are     *)
(* inside a push to the same queue.                                        *)
StartsPush(thread, name, others) ==
  /\ overlaps' = IF others = {} THEN overlaps ELSE overlaps \cup others \cup {thread}
  /\ raced' = IF others = {} THEN raced ELSE raced \cup {name}

(* The slot and the write index are stored.  If another push overlapped,   *)
(* both wrote the same slot, or this one stores an index of the past: what *)
(* lies between the indices is any of the items seen, or no object.        *)
FinishesPush(thread) == overlaps' = overlaps \ {thread} /\ UNCHANGED raced

Pushed(thread, queue, x, seen) ==
  IF thread \in overlaps THEN SeqOf(seen \cup {None}, Cap) ELSE {Append(queue, x)}

(* What copying from a slot without an object comes to: the any_cast       *)
(* throws, which ends the stage but is noticed by nobody; or SIGSEGV, for  *)
(* which the handler is sig_proc; or the process is aborted.               *)
Fault ==
  \/ UNCHANGED quitting
  \/ sys_quit' = TRUE /\ daemon' = "stopping"
  \/ daemon' = "exited" /\ UNCHANGED sys_quit

Took(stage) == late' = [late EXCEPT ![stage] = IF sys_quit THEN @ + 1 ELSE @]
-----------------------------------------------------------------------------
(* The video inputs.                                                       *)
Goto(c, label) == loader' = [loader EXCEPT ![c] = label]

(* The bound on what is read; an input that is never read has no more     *)
(* files.                                                                  *)
MayRead(c) ==
  \E most \in MaxReads :
    /\ reads[c] < most[c]
    /\ \A d \in Cameras : reads[d] <= most[d]
    /\ \A d \in Local : videos[d] <= most[d]

(* The head of the loop; an RTSP input counts the frame before it reads.   *)
StartRead(c) ==
  /\ loader[c] = "check"
  /\ ~sys_quit
  /\ MayRead(c)
  /\ Goto(c, "read")
  /\ reads' = [reads EXCEPT ![c] = @ + 1]
  /\ frame_id' = [frame_id EXCEPT ![c] = IF c \in Rtsp THEN @ + 1 ELSE @]
  /\ UNCHANGED <<quitting, videos, queues, detectorVars, monitorVars,
                 disp, late>>

LoaderQuits(c) ==
  /\ loader[c] = "check"
  /\ sys_quit
  /\ Goto(c, "ended")
  /\ UNCHANGED <<quitting, frame_id, videos, reads, queues,
                 detectorVars, monitorVars, disp, late>>

(* Mutant: the number of the frame is not advanced.                        *)
NextFrameId_Same(c) == frame_id

NextFrameId(c) == [frame_id EXCEPT ![c] = IF c \in Rtsp THEN @ ELSE @ + 1]

ReadFrame(c) ==
  /\ loader[c] = "read"
  /\ frame_id' = NextFrameId(c)
  /\ Goto(c, "push")
  /\ UNCHANGED <<quitting, videos, reads, queues, detectorVars,
                 monitorVars, disp, late>>

Pushing == {c \in Cameras : loader[c] = "pushing"}

PushFrame(c) ==
  /\ loader[c] = "push"
  /\ IF Full(detectQ)
     THEN Goto(c, "check") /\ UNCHANGED pushes
     ELSE Goto(c, "pushing") /\ StartsPush(c, "detect", Pushing \ {c})
  /\ UNCHANGED <<quitting, frame_id, videos, reads, detectQ, monitorQ, dispatchQ,
                 detectorVars, monitorVars, disp, late>>

FramesSoFar == UNION {[cam : {c}, id : 1 .. reads[c]] : c \in Cameras}

FramePushed(c) ==
  /\ loader[c] = "pushing"
  /\ detectQ' \in Pushed(c, detectQ, [cam |-> c, id |-> frame_id[c]], FramesSoFar)
  /\ FinishesPush(c)
  /\ Goto(c, "check")
  /\ UNCHANGED <<quitting, frame_id, videos, reads, monitorQ, dispatchQ,
                 detectorVars, monitorVars, disp, late>>

CameraLost(c) ==
  /\ c \notin Local
  /\ loader[c] = "read"
  /\ Goto(c, "reopen")
  /\ UNCHANGED <<quitting, frame_id, videos, reads, queues,
                 detectorVars, monitorVars, disp, late>>

(* reopenCamera tries for ever, whatever sys_quit says; a USB camera then  *)
(* numbers its frames from the start.                                      *)
Reopened(c) ==
  /\ loader[c] = "reopen"
  /\ frame_id' = [frame_id EXCEPT ![c] = IF c \in Usb THEN 0 ELSE @]
  /\ Goto(c, "check")
  /\ UNCHANGED <<quitting, videos, reads, queues, detectorVars,
                 monitorVars, disp, late>>

(* A video file has ended: the next one, which aborts the process if it     *)
(* cannot be opened, or sys_quit ten seconds later.                        *)
EndOfVideo(c) ==
  /\ c \in Local
  /\ loader[c] = "read"
  /\ IF videos[c] > 0
     THEN /\ videos' = [videos EXCEPT ![c] = @ - 1]
          /\ Goto(c, "check")
          /\ daemon' \in {daemon, "exited"}
     ELSE /\ Goto(c, "drain")
          /\ UNCHANGED <<videos, daemon>>
  /\ UNCHANGED <<sys_quit, frame_id, reads, queues, detectorVars,
                 monitorVars, disp, late>>

LastVideoDone(c) ==
  /\ loader[c] = "drain"
  /\ sys_quit' = TRUE
  /\ Goto(c, "ended")
  /\ UNCHANGED <<daemon, frame_id, videos, reads, queues,
                 detectorVars, monitorVars, disp, late>>
-----------------------------------------------------------------------------
(* The detector.                                                           *)

DetectorChecks ==
  /\ det = "check"
  /\ det' = IF sys_quit THEN "ended" ELSE "pop"
  /\ UNCHANGED <<quitting, loaderVars, queues, frame, monitorVars, disp,
                 late>>

(* Mutant: the last item of the queue is not seen.                         *)
NothingWaits_OffByOne(queue) == Len(queue) <= 1

NothingWaits(queue) == queue = <<>>

DetectorIdle ==
  /\ det = "pop"
  /\ NothingWaits(detectQ)
  /\ det' = "check"
  /\ UNCHANGED <<quitting, loaderVars, queues, frame, monitorVars, disp,
                 late>>

DetectorPops ==
  /\ det = "pop"
  /\ ~NothingWaits(detectQ)
  /\ detectQ' = Tail(detectQ)
  /\ Took("detector")
  /\ IF Head(detectQ) # None
     THEN frame' = Head(detectQ) /\ det' = "search" /\ UNCHANGED quitting
     ELSE det' = "ended" /\ Fault /\ UNCHANGED frame
  /\ UNCHANGED <<loaderVars, monitorQ, dispatchQ, pushes, monitorVars, disp>>

(* Mutant: after a frame the flag is not tested again.                     *)
NextRound_NoTest == "pop"

NextRound == "check"

(* A frame without an image.                                               *)
DetectorSkips ==
  /\ det = "search"
  /\ frame' = None
  /\ det' = NextRound
  /\ UNCHANGED <<quitting, loaderVars, queues, monitorVars, disp, late>>

DetectorSearches ==
  /\ det = "search"
  /\ det' = "image"
  /\ UNCHANGED <<quitting, loaderVars, queues, frame, monitorVars, disp, late>>

(* The timers of the image and of the model: each may be due.              *)
AfterTimer == IF det \in {"image", "image_push"} THEN "model" ELSE "forward"

TimerPassed ==
  /\ det \in {"image", "model"}
  /\ det' = AfterTimer
  /\ UNCHANGED <<quitting, loaderVars, queues, frame, monitorVars, disp, late>>

PushLogger ==
  /\ det \in {"image", "model"}
  /\ ~Full(dispatchQ)
  /\ det' = IF det = "image" THEN "image_push" ELSE "model_push"
  /\ StartsPush("detector", "dispatch", {t \in {"monitor"} : mon = "pushing"})
  /\ UNCHANGED <<quitting, loaderVars, detectQ, monitorQ, dispatchQ, frame,
                 monitorVars, disp, late>>

LoggerPushed ==
  /\ det \in {"image_push", "model_push"}
  /\ dispatchQ' \in Pushed("detector", dispatchQ, "logger", Events)
  /\ FinishesPush("detector")
  /\ det' = AfterTimer
  /\ UNCHANGED <<quitting, loaderVars, detectQ, monitorQ, frame, monitorVars,
                 disp, late>>

DetectorForwards ==
  /\ det = "forward"
  /\ monitorQ' = Push(monitorQ, frame)
  /\ frame' = None
  /\ det' = NextRound
  /\ UNCHANGED <<quitting, loaderVars, detectQ, dispatchQ, pushes, monitorVars,
                 disp, late>>
-----------------------------------------------------------------------------
(* The monitor.                                                            *)

MonitorChecks ==
  /\ mon = "check"
  /\ mon' = IF sys_quit THEN "ended" ELSE "pop"
  /\ UNCHANGED <<quitting, loaderVars, queues, detectorVars, cnt, shown, disp,
                 late>>

MonitorIdle ==
  /\ mon = "pop"
  /\ NothingWaits(monitorQ)
  /\ mon' = "check"
  /\ UNCHANGED <<quitting, loaderVars, queues, detectorVars, cnt, shown, disp,
                 late>>

AfterReport == 0

(* handle: every Interval-th frame, the confirmed persons in sight, if     *)
(* there are any, are put in a MonitorEvent.                               *)
MonitorHandles ==
  /\ mon = "pop"
  /\ ~NothingWaits(monitorQ)
  /\ LET f == Head(monitorQ) IN
       shown' = [shown EXCEPT ![f.cam] = f.id]
  /\ monitorQ' = Tail(monitorQ)
  /\ Took("monitor")
  /\ IF (cnt + 1) % Interval = 0
     THEN cnt' = AfterReport /\ mon' \in {"check", "push"}
     ELSE cnt' = cnt + 1 /\ mon' = "check"
  /\ UNCHANGED <<quitting, loaderVars, detectQ, dispatchQ, pushes, detectorVars,
                 disp>>

PushMonitor ==
  /\ mon = "push"
  /\ IF Full(dispatchQ)
     THEN mon' = "check" /\ UNCHANGED pushes
     ELSE /\ mon' = "pushing"
          /\ StartsPush("monitor", "dispatch",
                        {t \in {"detector"} : det \in {"image_push", "model_push"}})
  /\ UNCHANGED <<quitting, loaderVars, detectQ, monitorQ, dispatchQ, detectorVars,
                 cnt, shown, disp, late>>

MonitorPushed ==
  /\ mon = "pushing"
  /\ dispatchQ' \in Pushed("monitor", dispatchQ, "monitor", Events)
  /\ FinishesPush("monitor")
  /\ mon' = "check"
  /\ UNCHANGED <<quitting, loaderVars, detectQ, monitorQ, detectorVars, cnt, shown,
                 disp, late>>
-----------------------------------------------------------------------------
(* The dispatcher.                                                         *)

DispatcherChecks ==
  /\ disp = "check"
  /\ disp' = IF sys_quit THEN "ended" ELSE "pop"
  /\ UNCHANGED <<quitting, loaderVars, queues, detectorVars, monitorVars,
                 late>>

(* sleep(100)                                                              *)
DispatcherSleeps ==
  /\ disp = "pop"
  /\ NothingWaits(dispatchQ)
  /\ disp' = "asleep"
  /\ UNCHANGED <<quitting, loaderVars, queues, detectorVars, monitorVars,
                 late>>

(* Mutant: the dispatcher wakes only to quit.                              *)
WakesUp_ToQuit == sys_quit

WakesUp == TRUE

DispatcherWakes ==
  /\ disp = "asleep"
  /\ WakesUp
  /\ disp' = "check"
  /\ UNCHANGED <<quitting, loaderVars, queues, detectorVars, monitorVars,
                 late>>

DispatcherPops ==
  /\ disp = "pop"
  /\ ~NothingWaits(dispatchQ)
  /\ dispatchQ' = Tail(dispatchQ)
  /\ Took("dispatcher")
  /\ IF Head(dispatchQ) # None
     THEN disp' = Head(dispatchQ) /\ UNCHANGED quitting
     ELSE disp' = "ended" /\ Fault
  /\ UNCHANGED <<loaderVars, detectQ, monitorQ, pushes, detectorVars, monitorVars>>

(* The handler of the event: an image upload, an HTTP post.                *)
DispatcherHandles ==
  /\ disp \in Events
  /\ disp' = "check"
  /\ UNCHANGED <<quitting, loaderVars, queues, detectorVars, monitorVars, late>>
-----------------------------------------------------------------------------
(* The end of the process.                                                 *)

(* Mutant: the daemon waits for the queues to run empty.                   *)
MayStop_Drained == sys_quit /\ detectQ = <<>> /\ monitorQ = <<>> /\ dispatchQ = <<>>

MayStop == sys_quit

DaemonStops ==
  /\ daemon = "watch"
  /\ MayStop
  /\ daemon' = "stopping"
  /\ UNCHANGED <<sys_quit, loaderVars, queues, detectorVars, monitorVars, disp,
                 late>>

(* sig_proc                                                                *)
Signal ==
  /\ daemon = "watch"
  /\ sys_quit' = TRUE
  /\ daemon' = "stopping"
  /\ UNCHANGED <<loaderVars, queues, detectorVars, monitorVars, disp,
                 late>>

(* exit(0), fifteen seconds later, wherever the threads are.               *)
Exit ==
  /\ daemon = "stopping"
  /\ daemon' = "exited"
  /\ UNCHANGED <<sys_quit, loaderVars, queues, detectorVars, monitorVars, disp,
                 late>>
-----------------------------------------------------------------------------
Capture(c) == ReadFrame(c) \/ CameraLost(c) \/ Reopened(c) \/ EndOfVideo(c)

Load(c) ==
  \/ StartRead(c) \/ LoaderQuits(c) \/ PushFrame(c) \/ FramePushed(c)
  \/ LastVideoDone(c)

Detector ==
  \/ DetectorChecks \/ DetectorIdle \/ DetectorPops \/ DetectorSkips
  \/ DetectorSearches \/ TimerPassed \/ PushLogger \/ LoggerPushed
  \/ DetectorForwards

Monitor ==
  \/ MonitorChecks \/ MonitorIdle \/ MonitorHandles \/ PushMonitor
  \/ MonitorPushed

Dispatcher ==
  \/ DispatcherChecks \/ DispatcherSleeps \/ DispatcherWakes
  \/ DispatcherPops \/ DispatcherHandles

Daemon == DaemonStops \/ Exit

(* Nothing runs once the process has exited.                               *)
Next ==
  /\ daemon # "exited"
  /\ \/ \E c \in Cameras : Load(c) \/ Capture(c)
     \/ Detector \/ Monitor \/ Dispatcher \/ Daemon \/ Signal

Spec == Init /\ [][Next]_vars

(* Every thread keeps running; a capture device need not answer and a      *)
(* signal need not come.                                                   *)
Running(A) == daemon # "exited" /\ A

Fairness ==
  /\ \A c \in Cameras : WF_vars(Running(Load(c)))
  /\ WF_vars(Running(Detector))
  /\ WF_vars(Running(Monitor))
  /\ WF_vars(Running(Dispatcher))
  /\ WF_vars(Running(Daemon))

FairSpec == Spec /\ Fairness
-----------------------------------------------------------------------------
(* PROPERTIES                                                              *)

(* The frames of an input reach the monitor in the order they were read,   *)
(* each at most once, through two queues that drop frames; only a reopened *)
(* USB camera starts its numbers again.  This holds until two inputs are   *)
(* inside Queue::Push of the detect queue at once.                         *)
FramesInOrder ==
  [][MonitorHandles =>
       LET f == Head(monitorQ) IN
       f.cam \in Usb \/ f.id > shown[f.cam] \/ "detect" \in raced]_vars

(* Once sys_quit is set a stage takes at most the one item whose round had *)
(* already begun, whatever the queues hold.                                *)
AtMostOneLate == \A s \in Stages : late[s] <= 1

Ending == sys_quit \/ daemon = "exited"

(* A queued frame comes to the detector, and a queued event is handled,    *)
(* although both threads poll, unless the service is told to quit first or *)
(* two pushes to that queue overlap, which only one producer excludes.     *)
FramesHandled == detectQ # <<>> ~> det = "search" \/ Ending \/ "detect" \in raced
EventsHandled == dispatchQ # <<>> ~> disp \in Events \/ Ending \/ "dispatch" \in raced

(* Once sys_quit is set the process ends, whatever the threads are doing:  *)
(* in particular with an input that tries to reopen its camera for ever,   *)
(* or with a stage that a damaged queue has ended.                         *)
QuitEnds == sys_quit ~> daemon = "exited"
=============================================================================
