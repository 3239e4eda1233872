-------------------------- MODULE Pipeline_proofs --------------------------
(***************************************************************************)
(* Proofs about Pipeline, for any video inputs, queue capacities and       *)
(* intervals: no stage goes on taking work once sys_quit is set, and the   *)
(* frames of an input reach the monitor in the order they were read.       *)
(***************************************************************************)
EXTENDS Pipeline, TLAPS

(* Nothing is late before sys_quit is set, and a stage that is about to    *)
(* take an item has taken none since.                                      *)
LateInv ==
  /\ \A s \in Stages : late[s] <= 1 /\ (~sys_quit => late[s] = 0)
  /\ det = "pop" => late["detector"] = 0
  /\ mon = "pop" => late["monitor"] = 0
  /\ disp = "pop" => late["dispatcher"] = 0

(* The detector searches and forwards a frame it has popped.               *)
Holding == det \in {"search", "image", "image_push", "model", "model_push", "forward"}
HoldsFrame == Holding => frame \in Frames

(* The inductive invariant.                                                *)
IInv == TypeOK /\ LateInv /\ HoldsFrame

(* What is pushed on a queue leaves it a queue of the same kind, also when *)
(* pushes overlap.                                                         *)
LEMMA PushTypes ==
  ASSUME NEW T, NEW queue \in Seq(T), NEW x \in T
  PROVE  Push(queue, x) \in Seq(T)
  BY DEF Push

LEMMA PushedTypes ==
  ASSUME NEW T, NEW queue \in Seq(T \cup {None}), NEW x \in T, NEW seen, seen \subseteq T,
         NEW thread, NEW q \in Pushed(thread, queue, x, seen)
  PROVE  q \in Seq(T \cup {None})
<1>1. CASE thread \in overlaps
  <2>1. PICK n \in 0 .. Cap : q \in [1 .. n -> seen \cup {None}]
    BY <1>1 DEF Pushed, SeqOf
  <2>2. n \in Nat
    BY PipelineAssumption
  <2> QED
    BY <2>1, <2>2
<1>2. CASE thread \notin overlaps
  BY <1>2 DEF Pushed
<1> QED
  BY <1>1, <1>2

(* Threads in a push, and the queues on which two have overlapped.         *)
LEMMA PushesTypes ==
  ASSUME IInv, NEW thread \in Cameras \cup {"detector", "monitor"}, NEW others,
         others \subseteq Cameras \cup {"detector", "monitor"},
         NEW name \in {"detect", "dispatch"},
         StartsPush(thread, name, others) \/ FinishesPush(thread) \/ UNCHANGED pushes
  PROVE  /\ overlaps' \subseteq Cameras \cup {"detector", "monitor"}
         /\ raced' \subseteq {"detect", "dispatch"}
<1>1. CASE StartsPush(thread, name, others)
  BY <1>1 DEF StartsPush, IInv, TypeOK
<1>2. CASE FinishesPush(thread)
  BY <1>2 DEF FinishesPush, IInv, TypeOK
<1>3. CASE UNCHANGED pushes
  BY <1>3 DEF pushes, IInv, TypeOK
<1> QED
  BY <1>1, <1>2, <1>3

(* A queue that is not empty gives up its first item.                      *)
LEMMA PopTypes ==
  ASSUME NEW T, NEW queue \in Seq(T), ~NothingWaits(queue)
  PROVE  Head(queue) \in T /\ Tail(queue) \in Seq(T)
  BY DEF NothingWaits

(* The monitor's interval counter stays below the interval.                *)
LEMMA CountTypes ==
  ASSUME NEW n \in 0 .. Interval - 1, (n + 1) % Interval # 0
  PROVE  n + 1 \in 0 .. Interval - 1
<1>1. Interval \in Nat /\ Interval > 0 /\ n \in Nat
  BY PipelineAssumption
<1>2. Interval % Interval = 0
  BY <1>1
<1>3. n + 1 # Interval
  BY <1>2
<1> QED
  BY <1>1, <1>3

(* Taking an item counts as late only after sys_quit.                      *)
LEMMA TookTypes ==
  ASSUME IInv, NEW s \in Stages, Took(s), late[s] = 0
  PROVE  /\ late' \in [Stages -> Nat]
         /\ \A r \in Stages : late'[r] <= 1 /\ (~sys_quit => late'[r] = 0)
         /\ \A r \in Stages \ {s} : late'[r] = late[r]
  BY DEF IInv, TypeOK, LateInv, Took

LEMMA InitIInv == Init => IInv
<1> SUFFICES ASSUME Init PROVE IInv
  OBVIOUS
<1>1. videos \in [Local -> Nat]
  BY PipelineAssumption DEF Init
<1>2. /\ detectQ \in Seq(Frames \cup {None}) /\ monitorQ \in Seq(Frames)
      /\ dispatchQ \in Seq(Events \cup {None})
  BY DEF Init
<1>3. /\ loader \in [Cameras -> {"check", "read", "push", "pushing", "reopen", "drain", "ended"}]
      /\ frame_id \in [Cameras -> Nat] /\ reads \in [Cameras -> Nat]
      /\ shown \in [Cameras -> Nat] /\ late \in [Stages -> Nat]
  BY DEF Init
<1>4. cnt \in 0 .. Interval - 1
  BY PipelineAssumption DEF Init
<1>5. TypeOK
  BY <1>1, <1>2, <1>3, <1>4 DEF Init, TypeOK
<1>6. LateInv
  BY DEF Init, LateInv, Stages
<1> QED
  BY <1>5, <1>6 DEF Init, IInv, HoldsFrame, Holding

LEMMA StepIInv == IInv /\ [Next]_vars => IInv'
<1> SUFFICES ASSUME IInv, [Next]_vars PROVE IInv'
  OBVIOUS
<1> USE DEF IInv, quitting, loaderVars, queues, pushes, detectorVars, monitorVars, Holding
<1>1. ASSUME NEW c \in Cameras, StartRead(c) PROVE IInv'
  <2>1. TypeOK'
    BY <1>1 DEF TypeOK, StartRead, Goto
  <2>2. LateInv'
    BY <1>1 DEF TypeOK, LateInv, StartRead, Goto, Events, Stages
  <2>3. HoldsFrame'
    BY <1>1 DEF HoldsFrame, StartRead, Goto
  <2> QED
    BY <2>1, <2>2, <2>3
<1>2. ASSUME NEW c \in Cameras, LoaderQuits(c) PROVE IInv'
  <2>1. TypeOK'
    BY <1>2 DEF TypeOK, LoaderQuits, Goto
  <2>2. LateInv'
    BY <1>2 DEF TypeOK, LateInv, LoaderQuits, Goto, Events, Stages
  <2>3. HoldsFrame'
    BY <1>2 DEF HoldsFrame, LoaderQuits, Goto
  <2> QED
    BY <2>1, <2>2, <2>3
<1>3. ASSUME NEW c \in Cameras, PushFrame(c) PROVE IInv'
  <2>1. overlaps' \subseteq Cameras \cup {"detector", "monitor"} /\ raced' \subseteq {"detect", "dispatch"}
    <3>1. Pushing \ {c} \subseteq Cameras
      BY DEF Pushing
    <3>2. StartsPush(c, "detect", Pushing \ {c}) \/ UNCHANGED pushes
      BY <1>3 DEF PushFrame
    <3> QED
      BY <3>1, <3>2, PushesTypes
  <2>2. loader' \in [Cameras -> {"check", "read", "push", "pushing", "reopen", "drain", "ended"}]
    BY <1>3 DEF TypeOK, PushFrame, Goto
  <2>3. TypeOK'
    BY <1>3, <2>1, <2>2 DEF TypeOK, PushFrame
  <2>4. LateInv'
    BY <1>3 DEF TypeOK, LateInv, PushFrame
  <2>5. HoldsFrame'
    BY <1>3 DEF HoldsFrame, PushFrame
  <2> QED
    BY <2>3, <2>4, <2>5
<1>31. ASSUME NEW c \in Cameras, FramePushed(c) PROVE IInv'
  <2>1. overlaps' \subseteq Cameras \cup {"detector", "monitor"} /\ raced' \subseteq {"detect", "dispatch"}
    BY <1>31, PushesTypes DEF FramePushed
  <2>2. detectQ' \in Seq(Frames \cup {None})
    <3>1. [cam |-> c, id |-> frame_id[c]] \in Frames /\ FramesSoFar \subseteq Frames
      BY DEF TypeOK, Frames, FramesSoFar
    <3> QED
      BY <1>31, <3>1, PushedTypes DEF TypeOK, FramePushed
  <2>3. loader' \in [Cameras -> {"check", "read", "push", "pushing", "reopen", "drain", "ended"}]
    BY <1>31 DEF TypeOK, FramePushed, Goto
  <2>4. TypeOK'
    BY <1>31, <2>1, <2>2, <2>3 DEF TypeOK, FramePushed
  <2>5. LateInv'
    BY <1>31 DEF TypeOK, LateInv, FramePushed
  <2>6. HoldsFrame'
    BY <1>31 DEF HoldsFrame, FramePushed
  <2> QED
    BY <2>4, <2>5, <2>6
<1>4. ASSUME NEW c \in Cameras, LastVideoDone(c) PROVE IInv'
  <2>1. TypeOK'
    BY <1>4 DEF TypeOK, LastVideoDone, Goto
  <2>2. LateInv'
    BY <1>4 DEF TypeOK, LateInv, LastVideoDone, Goto, Events, Stages
  <2>3. HoldsFrame'
    BY <1>4 DEF HoldsFrame, LastVideoDone, Goto
  <2> QED
    BY <2>1, <2>2, <2>3
<1>5. ASSUME NEW c \in Cameras, ReadFrame(c) PROVE IInv'
  <2>1. frame_id' \in [Cameras -> Nat]
    BY <1>5 DEF TypeOK, ReadFrame, NextFrameId
  <2>2. TypeOK'
    BY <1>5, <2>1 DEF TypeOK, ReadFrame, Goto
  <2>3. LateInv'
    BY <1>5, <2>1 DEF TypeOK, LateInv, ReadFrame, Goto, Events, Stages
  <2>4. HoldsFrame'
    BY <1>5, <2>1 DEF HoldsFrame, ReadFrame, Goto
  <2> QED
    BY <2>2, <2>3, <2>4
<1>6. ASSUME NEW c \in Cameras, CameraLost(c) PROVE IInv'
  <2>1. TypeOK'
    BY <1>6 DEF TypeOK, CameraLost, Goto
  <2>2. LateInv'
    BY <1>6 DEF TypeOK, LateInv, CameraLost, Goto, Events, Stages
  <2>3. HoldsFrame'
    BY <1>6 DEF HoldsFrame, CameraLost, Goto
  <2> QED
    BY <2>1, <2>2, <2>3
<1>7. ASSUME NEW c \in Cameras, Reopened(c) PROVE IInv'
  <2>1. TypeOK'
    BY <1>7 DEF TypeOK, Reopened, Goto
  <2>2. LateInv'
    BY <1>7 DEF TypeOK, LateInv, Reopened, Goto, Events, Stages
  <2>3. HoldsFrame'
    BY <1>7 DEF HoldsFrame, Reopened, Goto
  <2> QED
    BY <2>1, <2>2, <2>3
<1>8. ASSUME NEW c \in Cameras, EndOfVideo(c) PROVE IInv'
  <2>1. TypeOK'
    <3>1. videos' \in [Local -> Nat]
      <4>1. CASE videos[c] > 0
        <5>1. c \in Local /\ videos' = [videos EXCEPT ![c] = videos[c] - 1]
          BY <1>8, <4>1 DEF EndOfVideo
        <5>2. videos[c] - 1 \in Nat
          BY <4>1, <5>1 DEF TypeOK
        <5> QED
          BY <5>1, <5>2 DEF TypeOK
      <4>2. CASE ~(videos[c] > 0)
        BY <1>8, <4>2 DEF TypeOK, EndOfVideo
      <4> QED
        BY <4>1, <4>2
    <3>2. loader' \in [Cameras -> {"check", "read", "push", "pushing", "reopen", "drain", "ended"}]
      BY <1>8 DEF TypeOK, EndOfVideo, Goto
    <3> QED
      BY <1>8, <3>1, <3>2 DEF TypeOK, EndOfVideo
  <2>2. LateInv'
    BY <1>8 DEF TypeOK, LateInv, EndOfVideo, Goto, Events, Stages
  <2>3. HoldsFrame'
    BY <1>8 DEF HoldsFrame, EndOfVideo, Goto
  <2> QED
    BY <2>1, <2>2, <2>3
<1>9. ASSUME DetectorChecks PROVE IInv'
  <2>1. TypeOK'
    BY <1>9 DEF TypeOK, DetectorChecks
  <2>2. LateInv'
    BY <1>9 DEF TypeOK, LateInv, DetectorChecks, Events, Stages
  <2>3. HoldsFrame'
    BY <1>9 DEF HoldsFrame, DetectorChecks
  <2> QED
    BY <2>1, <2>2, <2>3
<1>10. ASSUME DetectorIdle PROVE IInv'
  <2>1. TypeOK'
    BY <1>10 DEF TypeOK, DetectorIdle
  <2>2. LateInv'
    BY <1>10 DEF TypeOK, LateInv, DetectorIdle, Events, Stages
  <2>3. HoldsFrame'
    BY <1>10 DEF HoldsFrame, DetectorIdle
  <2> QED
    BY <2>1, <2>2, <2>3
<1>11. ASSUME DetectorPops PROVE IInv'
  <2>1. /\ Head(detectQ) \in Frames \cup {None} /\ detectQ' \in Seq(Frames \cup {None})
        /\ frame' \in Frames \cup {None} /\ (det' = "search" => frame' \in Frames)
    BY <1>11, PopTypes DEF TypeOK, DetectorPops
  <2>2. /\ late' \in [Stages -> Nat]
        /\ \A r \in Stages : late'[r] <= 1 /\ (~sys_quit => late'[r] = 0)
        /\ \A r \in Stages \ {"detector"} : late'[r] = late[r]
    BY <1>11, TookTypes DEF LateInv, DetectorPops, Stages
  <2>3. /\ sys_quit' \in BOOLEAN /\ (sys_quit => sys_quit')
        /\ daemon' \in {"watch", "stopping", "exited"} /\ det' \in {"search", "ended"}
    BY <1>11 DEF TypeOK, DetectorPops, Fault
  <2>4. TypeOK'
    BY <1>11, <2>1, <2>2, <2>3 DEF TypeOK, DetectorPops
  <2>5. LateInv'
    BY <1>11, <2>2, <2>3 DEF TypeOK, LateInv, DetectorPops, Events, Stages
  <2>6. HoldsFrame'
    BY <2>1, <2>3 DEF HoldsFrame
  <2> QED
    BY <2>4, <2>5, <2>6
<1>12. ASSUME DetectorSkips \/ DetectorSearches \/ TimerPassed PROVE IInv'
  <2>1. TypeOK'
    BY <1>12 DEF TypeOK, DetectorSkips, DetectorSearches, TimerPassed, NextRound, AfterTimer
  <2>2. LateInv'
    BY <1>12 DEF TypeOK, LateInv, DetectorSkips, DetectorSearches, TimerPassed, NextRound,
                 AfterTimer
  <2>3. HoldsFrame'
    BY <1>12 DEF HoldsFrame, DetectorSkips, DetectorSearches, TimerPassed, NextRound, AfterTimer
  <2> QED
    BY <2>1, <2>2, <2>3
<1>32. ASSUME PushLogger PROVE IInv'
  <2>1. overlaps' \subseteq Cameras \cup {"detector", "monitor"} /\ raced' \subseteq {"detect", "dispatch"}
    BY <1>32, PushesTypes DEF PushLogger
  <2>2. TypeOK'
    BY <1>32, <2>1 DEF TypeOK, PushLogger
  <2>3. LateInv'
    BY <1>32 DEF TypeOK, LateInv, PushLogger
  <2>4. HoldsFrame'
    BY <1>32 DEF HoldsFrame, PushLogger
  <2> QED
    BY <2>2, <2>3, <2>4
<1>33. ASSUME LoggerPushed PROVE IInv'
  <2>1. overlaps' \subseteq Cameras \cup {"detector", "monitor"} /\ raced' \subseteq {"detect", "dispatch"}
    BY <1>33, PushesTypes DEF LoggerPushed
  <2>2. dispatchQ' \in Seq(Events \cup {None})
    BY <1>33, PushedTypes DEF TypeOK, LoggerPushed, Events
  <2>3. TypeOK'
    BY <1>33, <2>1, <2>2 DEF TypeOK, LoggerPushed, AfterTimer
  <2>4. LateInv'
    BY <1>33 DEF TypeOK, LateInv, LoggerPushed, AfterTimer
  <2>5. HoldsFrame'
    BY <1>33 DEF HoldsFrame, LoggerPushed, AfterTimer
  <2> QED
    BY <2>3, <2>4, <2>5
<1>13. ASSUME DetectorForwards PROVE IInv'
  <2>1. monitorQ' \in Seq(Frames)
    <3>1. frame \in Frames
      BY <1>13 DEF HoldsFrame, DetectorForwards
    <3> QED
      BY <1>13, <3>1, PushTypes DEF TypeOK, DetectorForwards
  <2>2. TypeOK'
    BY <1>13, <2>1 DEF TypeOK, DetectorForwards, NextRound
  <2>3. LateInv'
    BY <1>13, <2>1 DEF TypeOK, LateInv, DetectorForwards, NextRound, Events, Stages
  <2>4. HoldsFrame'
    BY <1>13, <2>1 DEF HoldsFrame, DetectorForwards, NextRound
  <2> QED
    BY <2>2, <2>3, <2>4
<1>14. ASSUME MonitorChecks PROVE IInv'
  <2>1. TypeOK'
    BY <1>14 DEF TypeOK, MonitorChecks
  <2>2. LateInv'
    BY <1>14 DEF TypeOK, LateInv, MonitorChecks, Events, Stages
  <2>3. HoldsFrame'
    BY <1>14 DEF HoldsFrame, MonitorChecks
  <2> QED
    BY <2>1, <2>2, <2>3
<1>15. ASSUME MonitorIdle PROVE IInv'
  <2>1. TypeOK'
    BY <1>15 DEF TypeOK, MonitorIdle
  <2>2. LateInv'
    BY <1>15 DEF TypeOK, LateInv, MonitorIdle, Events, Stages
  <2>3. HoldsFrame'
    BY <1>15 DEF HoldsFrame, MonitorIdle
  <2> QED
    BY <2>1, <2>2, <2>3
<1>16. ASSUME MonitorHandles PROVE IInv'
  <2>1. Head(monitorQ) \in Frames /\ monitorQ' \in Seq(Frames)
    BY <1>16, PopTypes DEF TypeOK, MonitorHandles
  <2>2. shown' \in [Cameras -> Nat]
    BY <1>16, <2>1 DEF TypeOK, MonitorHandles, Frames
  <2>3. /\ late' \in [Stages -> Nat]
        /\ \A r \in Stages : late'[r] <= 1 /\ (~sys_quit => late'[r] = 0)
        /\ \A r \in Stages \ {"monitor"} : late'[r] = late[r]
    BY <1>16, TookTypes DEF LateInv, MonitorHandles, Stages
  <2>4. cnt' \in 0 .. Interval - 1
    <3>1. Interval \in Nat \ {0}
      BY PipelineAssumption
    <3> QED
      BY <1>16, <3>1, CountTypes DEF TypeOK, MonitorHandles, AfterReport
  <2>5. mon' \in {"check", "push"}
    BY <1>16 DEF MonitorHandles
  <2>6. TypeOK'
    BY <1>16, <2>1, <2>2, <2>3, <2>4, <2>5 DEF TypeOK, MonitorHandles
  <2>7. LateInv'
    BY <1>16, <2>3, <2>5 DEF TypeOK, LateInv, MonitorHandles, Events, Stages
  <2>8. HoldsFrame'
    BY <1>16 DEF HoldsFrame, MonitorHandles
  <2> QED
    BY <2>6, <2>7, <2>8
<1>34. ASSUME PushMonitor PROVE IInv'
  <2>1. overlaps' \subseteq Cameras \cup {"detector", "monitor"} /\ raced' \subseteq {"detect", "dispatch"}
    BY <1>34, PushesTypes DEF PushMonitor
  <2>2. TypeOK'
    BY <1>34, <2>1 DEF TypeOK, PushMonitor
  <2>3. LateInv'
    BY <1>34 DEF TypeOK, LateInv, PushMonitor
  <2>4. HoldsFrame'
    BY <1>34 DEF HoldsFrame, PushMonitor
  <2> QED
    BY <2>2, <2>3, <2>4
<1>35. ASSUME MonitorPushed PROVE IInv'
  <2>1. overlaps' \subseteq Cameras \cup {"detector", "monitor"} /\ raced' \subseteq {"detect", "dispatch"}
    BY <1>35, PushesTypes DEF MonitorPushed
  <2>2. dispatchQ' \in Seq(Events \cup {None})
    BY <1>35, PushedTypes DEF TypeOK, MonitorPushed, Events
  <2>3. TypeOK'
    BY <1>35, <2>1, <2>2 DEF TypeOK, MonitorPushed
  <2>4. LateInv'
    BY <1>35 DEF TypeOK, LateInv, MonitorPushed
  <2>5. HoldsFrame'
    BY <1>35 DEF HoldsFrame, MonitorPushed
  <2> QED
    BY <2>3, <2>4, <2>5
<1>17. ASSUME DispatcherChecks PROVE IInv'
  <2>1. TypeOK'
    BY <1>17 DEF TypeOK, DispatcherChecks
  <2>2. LateInv'
    BY <1>17 DEF TypeOK, LateInv, DispatcherChecks, Events, Stages
  <2>3. HoldsFrame'
    BY <1>17 DEF HoldsFrame, DispatcherChecks
  <2> QED
    BY <2>1, <2>2, <2>3
<1>18. ASSUME DispatcherSleeps PROVE IInv'
  <2>1. TypeOK'
    BY <1>18 DEF TypeOK, DispatcherSleeps
  <2>2. LateInv'
    BY <1>18 DEF TypeOK, LateInv, DispatcherSleeps, Events, Stages
  <2>3. HoldsFrame'
    BY <1>18 DEF HoldsFrame, DispatcherSleeps
  <2> QED
    BY <2>1, <2>2, <2>3
<1>19. ASSUME DispatcherWakes PROVE IInv'
  <2>1. TypeOK'
    BY <1>19 DEF TypeOK, DispatcherWakes
  <2>2. LateInv'
    BY <1>19 DEF TypeOK, LateInv, DispatcherWakes, Events, Stages
  <2>3. HoldsFrame'
    BY <1>19 DEF HoldsFrame, DispatcherWakes
  <2> QED
    BY <2>1, <2>2, <2>3
<1>20. ASSUME DispatcherPops PROVE IInv'
  <2>1. /\ disp' \in Events \cup {"ended"} /\ dispatchQ' \in Seq(Events \cup {None})
    BY <1>20, PopTypes DEF TypeOK, DispatcherPops
  <2>2. /\ late' \in [Stages -> Nat]
        /\ \A r \in Stages : late'[r] <= 1 /\ (~sys_quit => late'[r] = 0)
        /\ \A r \in Stages \ {"dispatcher"} : late'[r] = late[r]
    BY <1>20, TookTypes DEF LateInv, DispatcherPops, Stages
  <2>3. /\ sys_quit' \in BOOLEAN /\ (sys_quit => sys_quit')
        /\ daemon' \in {"watch", "stopping", "exited"}
    BY <1>20 DEF TypeOK, DispatcherPops, Fault
  <2>4. TypeOK'
    BY <1>20, <2>1, <2>2, <2>3 DEF TypeOK, DispatcherPops
  <2>5. LateInv'
    BY <1>20, <2>1, <2>2, <2>3 DEF TypeOK, LateInv, DispatcherPops, Events, Stages
  <2>6. HoldsFrame'
    BY <1>20 DEF HoldsFrame, DispatcherPops
  <2> QED
    BY <2>4, <2>5, <2>6
<1>21. ASSUME DispatcherHandles PROVE IInv'
  <2>1. TypeOK'
    BY <1>21 DEF TypeOK, DispatcherHandles
  <2>2. LateInv'
    BY <1>21 DEF TypeOK, LateInv, DispatcherHandles, Events, Stages
  <2>3. HoldsFrame'
    BY <1>21 DEF HoldsFrame, DispatcherHandles
  <2> QED
    BY <2>1, <2>2, <2>3
<1>22. ASSUME DaemonStops PROVE IInv'
  <2>1. TypeOK'
    BY <1>22 DEF TypeOK, DaemonStops
  <2>2. LateInv'
    BY <1>22 DEF TypeOK, LateInv, DaemonStops, Events, Stages
  <2>3. HoldsFrame'
    BY <1>22 DEF HoldsFrame, DaemonStops
  <2> QED
    BY <2>1, <2>2, <2>3
<1>23. ASSUME Signal PROVE IInv'
  <2>1. TypeOK'
    BY <1>23 DEF TypeOK, Signal
  <2>2. LateInv'
    BY <1>23 DEF TypeOK, LateInv, Signal, Events, Stages
  <2>3. HoldsFrame'
    BY <1>23 DEF HoldsFrame, Signal
  <2> QED
    BY <2>1, <2>2, <2>3
<1>24. ASSUME Exit PROVE IInv'
  <2>1. TypeOK'
    BY <1>24 DEF TypeOK, Exit
  <2>2. LateInv'
    BY <1>24 DEF TypeOK, LateInv, Exit, Events, Stages
  <2>3. HoldsFrame'
    BY <1>24 DEF HoldsFrame, Exit
  <2> QED
    BY <2>1, <2>2, <2>3
<1>25. CASE UNCHANGED vars
  BY <1>25 DEF vars, TypeOK, LateInv, HoldsFrame
<1> QED
  BY <1>1, <1>2, <1>3, <1>4, <1>5, <1>6, <1>7, <1>8, <1>9, <1>10, <1>11, <1>12, <1>13, <1>14, <1>15, <1>16, <1>17, <1>18, <1>19, <1>20, <1>21, <1>22, <1>23, <1>24, <1>25,
     <1>31, <1>32, <1>33, <1>34, <1>35
  DEF Next, Load, Capture, Detector, Monitor, Dispatcher, Daemon
-----------------------------------------------------------------------------
(* Every state of the service satisfies the inductive invariant.           *)
THEOREM Invariance == Spec => []IInv
  BY InitIInv, StepIInv, PTL DEF Spec

(* Every variable of the service keeps its type.                           *)
THEOREM TypeCorrect == Spec => []TypeOK
<1>1. IInv => TypeOK
  BY DEF IInv
<1> QED
  BY <1>1, Invariance, PTL

(* Once sys_quit is set a stage takes at most the one item whose round had *)
(* already begun, however many inputs feed it.                             *)
THEOREM StagesStop == Spec => []AtMostOneLate
<1>1. IInv => AtMostOneLate
  BY DEF IInv, LateInv, AtMostOneLate
<1> QED
  BY <1>1, Invariance, PTL
-----------------------------------------------------------------------------
(* ORDER: frames overtake each other nowhere.                              *)

Items(s) == {s[i] : i \in 1 .. Len(s)}

(* The frame the detector has taken and not yet passed on.                 *)
Held == IF Holding THEN {frame} ELSE {}

(* The least number the next frame of an input can have: an RTSP input     *)
(* advances it before the read, the others after it.                       *)
NextId(c) ==
  IF loader[c] \in {"push", "pushing"} \/ (loader[c] = "read" /\ c \in Rtsp)
  THEN frame_id[c] ELSE frame_id[c] + 1

(* The frames of an input in A were read before those in B.  A reopened    *)
(* USB camera starts its numbers again: nothing is said of it.             *)
Ahead(A, B) ==
  \A f \in A, g \in B : f.cam = g.cam /\ f.cam \notin Usb => f.id < g.id

Sorted(s) == \A i, j \in 1 .. Len(s) : i < j => Ahead({s[i]}, {s[j]})

(* From the newest to the oldest: the frames still to be read, those in    *)
(* detectQ, the one in the detector's hands, those in monitorQ, the last   *)
(* one the monitor handled.                                                *)
AllAhead ==
  /\ Sorted(detectQ) /\ Sorted(monitorQ)
  /\ Ahead(Items(monitorQ), Held)
  /\ Ahead(Items(monitorQ), Items(detectQ))
  /\ Ahead(Held, Items(detectQ))
  /\ \A f \in Items(monitorQ) \cup Held \cup Items(detectQ) :
       f.cam \notin Usb => shown[f.cam] < f.id /\ f.id < NextId(f.cam)
  /\ \A c \in Cameras \ Usb : shown[c] < NextId(c)

(* All this until two inputs push at once.                                 *)
Straight == detectQ \in Seq(Frames) /\ AllAhead
OrderInv == "detect" \notin raced => Straight /\ overlaps \cap Cameras = {}

(* What a push of one item adds to a queue, and a pop takes from it.       *)
LEMMA AppendItems ==
  ASSUME NEW s \in Seq(Frames), NEW x \in Frames
  PROVE  /\ Items(Append(s, x)) \subseteq Items(s) \cup {x}
         /\ Sorted(s) /\ Ahead(Items(s), {x}) => Sorted(Append(s, x))
<1> DEFINE t == Append(s, x)
<1>1. /\ Len(s) \in Nat /\ Len(t) = Len(s) + 1
      /\ \A i \in 1 .. Len(t) : t[i] = IF i <= Len(s) THEN s[i] ELSE x
  OBVIOUS
<1> HIDE DEF t
<1>2. Items(t) \subseteq Items(s) \cup {x}
  BY <1>1 DEF Items
<1>3. ASSUME Sorted(s), Ahead(Items(s), {x}) PROVE Sorted(t)
  <2> SUFFICES ASSUME NEW i \in 1 .. Len(t), NEW j \in 1 .. Len(t), i < j
               PROVE  Ahead({t[i]}, {t[j]})
    BY DEF Sorted
  <2>1. i \in 1 .. Len(s) /\ t[i] = s[i] /\ s[i] \in Items(s)
    BY <1>1 DEF Items
  <2>2. CASE j <= Len(s)
    BY <1>1, <1>3, <2>1, <2>2 DEF Sorted
  <2>3. CASE j > Len(s)
    BY <1>1, <1>3, <2>1, <2>3 DEF Ahead
  <2>4. QED
    BY <1>1, <2>2, <2>3
<1>4. QED
  BY <1>2, <1>3 DEF t

LEMMA PushItems ==
  ASSUME NEW s \in Seq(Frames), NEW x \in Frames
  PROVE  /\ Items(Push(s, x)) \subseteq Items(s) \cup {x}
         /\ Sorted(s) /\ Ahead(Items(s), {x}) => Sorted(Push(s, x))
  BY AppendItems DEF Push

LEMMA PopItems ==
  ASSUME NEW s \in Seq(Frames), ~NothingWaits(s), Sorted(s)
  PROVE  /\ Head(s) \in Items(s) /\ Items(Tail(s)) \subseteq Items(s)
         /\ Sorted(Tail(s)) /\ Ahead({Head(s)}, Items(Tail(s)))
<1> DEFINE t == Tail(s)
<1>1. /\ Len(s) \in Nat \ {0} /\ Len(t) = Len(s) - 1 /\ Head(s) = s[1]
      /\ \A i \in 1 .. Len(t) : t[i] = s[i + 1] /\ i + 1 \in 1 .. Len(s)
  BY DEF NothingWaits
<1> HIDE DEF t
<1>2. Head(s) \in Items(s) /\ Items(t) \subseteq Items(s)
  BY <1>1 DEF Items
<1>3. Sorted(t)
  BY <1>1 DEF Sorted
<1>4. Ahead({Head(s)}, Items(t))
  <2> SUFFICES ASSUME NEW i \in 1 .. Len(t) PROVE Ahead({s[1]}, {t[i]})
    BY <1>1 DEF Items, Ahead
  <2>1. 1 \in 1 .. Len(s) /\ 1 < i + 1
    BY <1>1
  <2>2. QED
    BY <1>1, <2>1 DEF Sorted
<1>5. QED
  BY <1>2, <1>3, <1>4 DEF t

(* Frames and numbers are what they seem.                                  *)
LEMMA Numbers ==
  ASSUME IInv, detectQ \in Seq(Frames)
  PROVE  /\ \A c \in Cameras : NextId(c) \in Nat /\ shown[c] \in Nat
         /\ Items(monitorQ) \cup Held \cup Items(detectQ) \subseteq Frames
<1>1. \A c \in Cameras : NextId(c) \in Nat /\ shown[c] \in Nat
  BY DEF IInv, TypeOK, NextId
<1>2. Items(monitorQ) \subseteq Frames /\ Items(detectQ) \subseteq Frames
  BY DEF IInv, TypeOK, Items
<1>3. Held \subseteq Frames
  BY DEF IInv, HoldsFrame, Held
<1>4. QED
  BY <1>1, <1>2, <1>3

(* The numbers to come may only grow while no frame moves.                 *)
LEMMA NoFrameMoves ==
  ASSUME IInv, IInv', detectQ \in Seq(Frames), AllAhead,
         UNCHANGED <<detectQ, monitorQ, shown, Held>>,
         \A c \in Cameras \ Usb : NextId(c) <= NextId(c)'
  PROVE  AllAhead'
<1>1. \A f \in Frames : f.cam \in Cameras /\ f.id \in Nat
  BY DEF Frames
<1>2. \A c \in Cameras : NextId(c) \in Nat /\ NextId(c)' \in Nat /\ shown[c] \in Nat
  BY DEF IInv, TypeOK, NextId
<1>3. \A f \in Items(monitorQ) \cup Held \cup Items(detectQ) :
         f.cam \notin Usb => shown[f.cam] < f.id /\ f.id < NextId(f.cam)'
  BY <1>1, <1>2, Numbers DEF AllAhead
<1>4. \A c \in Cameras \ Usb : shown[c] < NextId(c)'
  BY <1>2 DEF AllAhead
<1>5. QED
  BY <1>3, <1>4 DEF AllAhead

LEMMA InitOrder == Init => OrderInv
  BY DEF Init, OrderInv, Straight, AllAhead, Sorted, Ahead, Items, Held, Holding, NextId

(* Two pushes that have overlapped are not forgotten; and as long as those *)
(* to the detect queue have not, none of the inputs is in such a push.     *)
LEMMA StepRaced ==
  ASSUME [Next]_vars, "detect" \notin raced'
  PROVE  "detect" \notin raced /\ (overlaps \cap Cameras = {} => overlaps' \cap Cameras = {})
<1> USE DEF queues, pushes
<1>1. CASE \E c \in Cameras : Load(c) \/ Capture(c)
  <2>1. PICK c \in Cameras : Load(c) \/ Capture(c)
    BY <1>1
  <2>2. CASE PushFrame(c)
    BY <2>2 DEF PushFrame, StartsPush
  <2>3. CASE FramePushed(c)
    BY <2>3 DEF FramePushed, FinishesPush
  <2>4. CASE ~PushFrame(c) /\ ~FramePushed(c)
    BY <2>1, <2>4 DEF Load, Capture, StartRead, LoaderQuits, LastVideoDone, ReadFrame,
                      CameraLost, Reopened, EndOfVideo
  <2> QED
    BY <2>2, <2>3, <2>4
<1>2. CASE PushLogger \/ PushMonitor
  BY <1>2, PipelineAssumption DEF PushLogger, PushMonitor, StartsPush
<1>3. CASE LoggerPushed \/ MonitorPushed
  BY <1>3 DEF LoggerPushed, MonitorPushed, FinishesPush
<1>4. CASE UNCHANGED pushes
  BY <1>4
<1>5. \/ \E c \in Cameras : Load(c) \/ Capture(c)
      \/ PushLogger \/ PushMonitor \/ LoggerPushed \/ MonitorPushed \/ UNCHANGED pushes
  BY DEF Next, vars, Detector, Monitor, Dispatcher, Daemon, DetectorChecks, DetectorIdle,
         DetectorPops, DetectorSkips, DetectorSearches, TimerPassed, DetectorForwards,
         MonitorChecks, MonitorIdle, MonitorHandles, DispatcherChecks, DispatcherSleeps,
         DispatcherWakes, DispatcherPops, DispatcherHandles, DaemonStops, Exit, Signal
<1> QED
  BY <1>1, <1>2, <1>3, <1>4, <1>5

LEMMA StepOrder == IInv /\ IInv' /\ OrderInv /\ [Next]_vars => OrderInv'
<1> SUFFICES ASSUME IInv, IInv', OrderInv, [Next]_vars, "detect" \notin raced'
             PROVE  Straight' /\ overlaps' \cap Cameras = {}
  BY DEF OrderInv
<1>a. /\ detectQ \in Seq(Frames) /\ AllAhead
      /\ overlaps \cap Cameras = {} /\ overlaps' \cap Cameras = {}
  BY StepRaced DEF OrderInv, Straight
<1> USE DEF quitting, loaderVars, queues, pushes, detectorVars, monitorVars, Holding
<1>0. /\ \A f \in Frames : f.cam \in Cameras /\ f.id \in Nat
      /\ \A c \in Cameras : NextId(c) \in Nat /\ shown[c] \in Nat
      /\ Items(monitorQ) \cup Held \cup Items(detectQ) \subseteq Frames
      /\ detectQ \in Seq(Frames) /\ monitorQ \in Seq(Frames)
  BY <1>a, Numbers DEF Frames, IInv, TypeOK
<1>1. ASSUME NEW c \in Cameras,
             \/ StartRead(c) \/ PushFrame(c) \/ LoaderQuits(c) \/ LastVideoDone(c) \/ ReadFrame(c)
             \/ CameraLost(c) \/ Reopened(c) \/ EndOfVideo(c)
      PROVE  Straight'
  <2>1. UNCHANGED <<detectQ, monitorQ, shown, det, frame>>
    BY <1>1 DEF StartRead, PushFrame, LoaderQuits, LastVideoDone, ReadFrame, CameraLost,
                Reopened, EndOfVideo
  <2>2. \A d \in Cameras \ Usb : NextId(d) <= NextId(d)'
    <3> SUFFICES ASSUME NEW d \in Cameras \ Usb PROVE NextId(d) <= NextId(d)'
      OBVIOUS
    <3>1. frame_id[d] \in Nat /\ (d \in Rtsp => d \notin Local)
      BY PipelineAssumption DEF IInv, TypeOK
    <3>2. CASE StartRead(c)
      BY <3>1, <3>2 DEF StartRead, NextId, IInv, TypeOK, Goto
    <3>3. CASE ReadFrame(c)
      BY <3>1, <3>3 DEF ReadFrame, NextFrameId, NextId, IInv, TypeOK, Goto
    <3>4. CASE LoaderQuits(c) \/ LastVideoDone(c)
      BY <3>1, <3>4 DEF LoaderQuits, LastVideoDone, NextId, IInv, TypeOK, Goto
    <3>5. CASE CameraLost(c) \/ Reopened(c)
      BY <3>1, <3>5 DEF CameraLost, Reopened, NextId, IInv, TypeOK, Goto
    <3>6. CASE EndOfVideo(c)
      BY <3>1, <3>6 DEF EndOfVideo, NextId, IInv, TypeOK, Goto
    <3>7. CASE PushFrame(c)
      BY <3>1, <3>7 DEF PushFrame, NextId, IInv, TypeOK, Goto
    <3>8. QED
      BY <1>1, <3>2, <3>3, <3>4, <3>5, <3>6, <3>7
  <2>3. QED
    BY <1>a, <2>1, <2>2, NoFrameMoves DEF Held, Straight
<1>2. ASSUME \/ DetectorChecks \/ DetectorIdle \/ DetectorSearches \/ TimerPassed
             \/ PushLogger \/ LoggerPushed
             \/ MonitorChecks \/ MonitorIdle \/ PushMonitor \/ MonitorPushed
             \/ Dispatcher \/ Daemon \/ Signal \/ UNCHANGED vars
      PROVE  Straight'
  <2>1. UNCHANGED <<detectQ, monitorQ, shown, loader, frame_id>> /\ UNCHANGED Held
    BY <1>2
    DEF DetectorChecks, DetectorIdle, DetectorSearches, TimerPassed, PushLogger,
        LoggerPushed, AfterTimer, MonitorChecks, MonitorIdle, PushMonitor, MonitorPushed,
        Dispatcher, DispatcherChecks, DispatcherSleeps, DispatcherWakes,
        DispatcherPops, DispatcherHandles, Daemon, DaemonStops, Exit, Signal, vars, Held
  <2>2. \A d \in Cameras \ Usb : NextId(d) <= NextId(d)'
    BY <1>0, <2>1 DEF NextId
  <2>3. QED
    BY <1>a, <2>1, <2>2, NoFrameMoves DEF Straight
<1>3. ASSUME NEW c \in Cameras, FramePushed(c) PROVE Straight'
  <2> DEFINE f == [cam |-> c, id |-> frame_id[c]]
  <2>1. /\ f \in Frames /\ f.cam = c /\ f.id = NextId(c)
        /\ detectQ' = Append(detectQ, f) /\ UNCHANGED <<monitorQ, shown, Held>>
    <3>1. f \in Frames /\ f.cam = c /\ f.id = NextId(c)
      BY <1>3 DEF FramePushed, Frames, IInv, TypeOK, NextId
    <3>2. c \notin overlaps
      BY <1>a
    <3> QED
      BY <1>3, <3>1, <3>2 DEF FramePushed, Pushed, Held
  <2>2. /\ NextId(c)' = NextId(c) + 1
        /\ \A d \in Cameras : d # c => NextId(d)' = NextId(d)
    BY <1>3 DEF FramePushed, Goto, NextId, IInv, TypeOK
  <2> HIDE DEF f
  <2>3. Ahead(Items(monitorQ) \cup Held \cup Items(detectQ), {f})
    BY <1>a, <2>1 DEF AllAhead, Ahead
  <2>4. Items(detectQ') \subseteq Items(detectQ) \cup {f} /\ Sorted(detectQ')
    BY <1>0, <1>a, <2>1, <2>3, AppendItems DEF AllAhead, Ahead
  <2>5. Ahead(Items(monitorQ), Items(detectQ')) /\ Ahead(Held, Items(detectQ'))
    BY <1>a, <2>3, <2>4 DEF AllAhead, Ahead
  <2>6. \A g \in Items(monitorQ) \cup Held \cup Items(detectQ') :
          g.cam \notin Usb => shown[g.cam] < g.id /\ g.id < NextId(g.cam)'
    <3> SUFFICES ASSUME NEW g \in Items(monitorQ) \cup Held \cup Items(detectQ) \cup {f},
                        g.cam \notin Usb
                 PROVE  shown[g.cam] < g.id /\ g.id < NextId(g.cam)'
      BY <2>4
    <3>1. CASE g = f
      BY <1>0, <1>a, <2>1, <2>2, <3>1 DEF AllAhead
    <3>2. CASE g # f
      <4>1. g \in Frames /\ shown[g.cam] < g.id /\ g.id < NextId(g.cam)
        BY <1>0, <1>a, <3>2 DEF AllAhead
      <4> QED
        BY <1>0, <2>2, <4>1
    <3> QED
      BY <3>1, <3>2
  <2>7. \A d \in Cameras \ Usb : shown[d] < NextId(d)'
    BY <1>a, <1>0, <2>2 DEF AllAhead
  <2>8. QED
    BY <1>0, <1>a, <2>1, <2>4, <2>5, <2>6, <2>7 DEF AllAhead, Straight
<1>4. ASSUME DetectorPops PROVE Straight'
  <2>1. /\ Held = {} /\ Held' \subseteq {Head(detectQ)} /\ ~NothingWaits(detectQ)
        /\ detectQ' = Tail(detectQ)
        /\ UNCHANGED <<monitorQ, shown, loader, frame_id>>
    BY <1>4 DEF DetectorPops, Held
  <2>2. /\ Head(detectQ) \in Items(detectQ) /\ Items(detectQ') \subseteq Items(detectQ)
        /\ Sorted(detectQ') /\ Ahead({Head(detectQ)}, Items(detectQ'))
    BY <1>0, <1>a, <2>1, PopItems DEF AllAhead
  <2>3. \A d \in Cameras : NextId(d)' = NextId(d)
    BY <2>1 DEF NextId
  <2>4. /\ Ahead(Items(monitorQ), Held') /\ Ahead(Items(monitorQ), Items(detectQ'))
        /\ Ahead(Held', Items(detectQ'))
    BY <1>a, <2>1, <2>2 DEF AllAhead, Ahead
  <2>5. detectQ' \in Seq(Frames)
    BY <1>a, <2>1 DEF NothingWaits
  <2>6. QED
    BY <1>0, <1>a, <2>1, <2>2, <2>3, <2>4, <2>5 DEF AllAhead, Straight
<1>8. ASSUME DetectorSkips PROVE Straight'
  <2>1. Held' = {} /\ UNCHANGED <<detectQ, monitorQ, shown, loader, frame_id>>
    BY <1>8 DEF DetectorSkips, NextRound, Held
  <2>2. \A d \in Cameras : NextId(d)' = NextId(d)
    BY <2>1 DEF NextId
  <2>3. QED
    BY <1>0, <1>a, <2>1, <2>2 DEF AllAhead, Ahead, Straight
<1>5. ASSUME DetectorForwards PROVE Straight'
  <2>1. /\ frame \in Frames /\ Held = {frame} /\ Held' = {}
        /\ monitorQ' = Push(monitorQ, frame)
        /\ UNCHANGED <<detectQ, shown, loader, frame_id>>
    BY <1>5 DEF DetectorForwards, NextRound, Held, IInv, HoldsFrame
  <2>2. Items(monitorQ') \subseteq Items(monitorQ) \cup {frame} /\ Sorted(monitorQ')
    BY <1>0, <1>a, <2>1, PushItems DEF AllAhead
  <2>3. \A d \in Cameras : NextId(d)' = NextId(d)
    BY <2>1 DEF NextId
  <2>4. Ahead(Items(monitorQ'), Items(detectQ)) /\ Ahead(Items(monitorQ'), Held')
    BY <1>a, <2>1, <2>2 DEF AllAhead, Ahead
  <2>5. QED
    BY <1>0, <1>a, <2>1, <2>2, <2>3, <2>4 DEF AllAhead, Ahead, Straight
<1>6. ASSUME MonitorHandles PROVE Straight'
  <2> DEFINE f == Head(monitorQ)
  <2>1. /\ ~NothingWaits(monitorQ) /\ monitorQ' = Tail(monitorQ)
        /\ shown' = [shown EXCEPT ![f.cam] = f.id]
        /\ UNCHANGED <<detectQ, loader, frame_id, Held>>
    BY <1>6 DEF MonitorHandles, Held
  <2>2. /\ f \in Items(monitorQ) /\ Items(monitorQ') \subseteq Items(monitorQ)
        /\ Sorted(monitorQ') /\ Ahead({f}, Items(monitorQ'))
    BY <1>0, <1>a, <2>1, PopItems DEF AllAhead
  <2> HIDE DEF f
  <2>3. \A d \in Cameras : NextId(d)' = NextId(d)
    BY <2>1 DEF NextId
  <2>4. Ahead({f}, Items(monitorQ') \cup Held \cup Items(detectQ))
    BY <1>a, <2>2 DEF AllAhead, Ahead
  <2>5. /\ f \in Frames
        /\ \A d \in Cameras : shown'[d] = IF d = f.cam THEN f.id ELSE shown[d]
    BY <1>0, <1>a, <2>1, <2>2 DEF IInv, TypeOK
  <2>6. \A g \in Items(monitorQ') \cup Held \cup Items(detectQ) :
          g.cam \notin Usb => shown'[g.cam] < g.id /\ g.id < NextId(g.cam)'
    BY <1>0, <1>a, <2>2, <2>3, <2>4, <2>5 DEF AllAhead, Ahead
  <2>7. \A d \in Cameras \ Usb : shown'[d] < NextId(d)'
    BY <1>0, <1>a, <2>2, <2>3, <2>5 DEF AllAhead
  <2>8. Ahead(Items(monitorQ'), Held) /\ Ahead(Items(monitorQ'), Items(detectQ))
    BY <1>a, <2>2 DEF AllAhead, Ahead
  <2>9. QED
    BY <1>a, <2>1, <2>2, <2>6, <2>7, <2>8 DEF AllAhead, Straight
<1>7. QED
  BY <1>1, <1>2, <1>3, <1>4, <1>5, <1>6, <1>8, <1>a
  DEF Next, Load, Capture, Detector, Monitor

(* As long as no two inputs have pushed at once, the frame the monitor     *)
(* handles is newer than the last it handled of the same input.            *)
LEMMA HandlesNewer ==
  ASSUME IInv, OrderInv, MonitorHandles, "detect" \notin raced, Head(monitorQ).cam \notin Usb
  PROVE  Head(monitorQ).id > shown[Head(monitorQ).cam]
<1>1. Straight
  BY DEF OrderInv
<1>2. Head(monitorQ) \in Items(monitorQ)
  BY <1>1, PopItems DEF MonitorHandles, Straight, AllAhead, IInv, TypeOK
<1>3. Head(monitorQ) \in Frames
  BY <1>1, <1>2, Numbers DEF Straight
<1>4. Head(monitorQ).cam \in Cameras /\ Head(monitorQ).id \in Nat
  BY <1>3 DEF Frames
<1> QED
  BY <1>1, <1>2, <1>4 DEF Straight, AllAhead, IInv, TypeOK

(* The frames of an input reach the monitor in the order they were read    *)
(* and at most once, through two queues that drop frames and a detector    *)
(* that is interrupted anywhere; a reopened USB camera excepted, and until *)
(* two inputs are inside a push of the detect queue at once.               *)
THEOREM InOrder == Spec => FramesInOrder
<1>1. IInv /\ OrderInv /\ [Next]_vars =>
        [MonitorHandles =>
           LET f == Head(monitorQ) IN
           f.cam \in Usb \/ f.id > shown[f.cam] \/ "detect" \in raced]_vars
  BY HandlesNewer
<1>2. IInv /\ IInv' /\ OrderInv /\ [Next]_vars => OrderInv'
  BY StepOrder
<1>3. Spec => []IInv
  BY Invariance
<1> QED
  BY InitOrder, <1>1, <1>2, <1>3, PTL DEF Spec, FramesInOrder

(* A service with one video input never has two pushes to the detect queue *)
(* at once.                                                                *)
OneInput == \A c, d \in Cameras : c = d

LEMMA OneNeverRaced ==
  OneInput /\ "detect" \notin raced /\ [Next]_vars => OneInput /\ "detect" \notin raced'
<1> SUFFICES ASSUME OneInput, "detect" \notin raced, [Next]_vars PROVE "detect" \notin raced'
  OBVIOUS
<1> USE DEF queues, pushes
<1>1. ASSUME NEW c \in Cameras, PushFrame(c) PROVE "detect" \notin raced'
  <2>1. Pushing \ {c} = {}
    BY DEF Pushing, OneInput
  <2> QED
    BY <1>1, <2>1 DEF PushFrame, StartsPush
<1>2. CASE PushLogger \/ PushMonitor
  BY <1>2 DEF PushLogger, PushMonitor, StartsPush
<1>3. \/ \E c \in Cameras : PushFrame(c)
      \/ PushLogger \/ PushMonitor \/ UNCHANGED raced
  BY DEF Next, vars, Load, Capture, StartRead, LoaderQuits, LastVideoDone, ReadFrame,
         CameraLost, Reopened, EndOfVideo, FramePushed, FinishesPush, Detector, Monitor,
         Dispatcher, Daemon, DetectorChecks, DetectorIdle, DetectorPops, DetectorSkips,
         DetectorSearches, TimerPassed, LoggerPushed, DetectorForwards, MonitorChecks,
         MonitorIdle, MonitorHandles, MonitorPushed, DispatcherChecks, DispatcherSleeps,
         DispatcherWakes, DispatcherPops, DispatcherHandles, DaemonStops, Exit, Signal
<1> QED
  BY <1>1, <1>2, <1>3

(* So with one input the order holds without exception.                    *)
THEOREM InOrderOneInput ==
  OneInput /\ Spec =>
    [][MonitorHandles =>
         LET f == Head(monitorQ) IN f.cam \in Usb \/ f.id > shown[f.cam]]_vars
<1> DEFINE NeverRaced == OneInput /\ "detect" \notin raced
<1>1. OneInput /\ Init => NeverRaced
  BY DEF Init
<1>2. NeverRaced /\ [Next]_vars => NeverRaced'
  BY OneNeverRaced DEF OneInput
<1>3. IInv /\ OrderInv /\ NeverRaced /\ [Next]_vars =>
        [MonitorHandles =>
           LET f == Head(monitorQ) IN f.cam \in Usb \/ f.id > shown[f.cam]]_vars
  BY HandlesNewer
<1>4. IInv /\ IInv' /\ OrderInv /\ [Next]_vars => OrderInv'
  BY StepOrder
<1>5. Spec => []IInv
  BY Invariance
<1> QED
  BY InitOrder, <1>1, <1>2, <1>3, <1>4, <1>5, PTL DEF Spec
=============================================================================
