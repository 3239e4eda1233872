------------------------------ MODULE Tracker ------------------------------
(***************************************************************************)
(* The person tracker of the monitor thread (tracker.cpp, tracker.h), as   *)
(* MonitorProcessor uses it: one Tracker for the frames of every camera,   *)
(* detections that carry a body box and never a face box.                  *)
(*                                                                         *)
(* The geometry is abstracted to which object may be paired with which     *)
(* detection: the Hungarian assignment under the IOU threshold, and the    *)
(* one under the feature threshold, can be any partial matching.           *)
(* A detection is [box, big]: whether its area is over                     *)
(* bbox_area_extract_feature_thresh, so that its feature is extracted (in  *)
(* MonitorProcessor, which sets that threshold to 1.0, none is).  The      *)
(* residence time of AccumulateDuration, which nothing reads, is left out. *)
(* Frame numbers are unsigned: their difference wraps at Width.            *)
(***************************************************************************)
EXTENDS Integers, FiniteSets, FiniteSetsExt

CONSTANTS
  Cameras,        \* video inputs whose frames reach this tracker
  MayReopen,      \* TRUE when a USB camera can be reopened
  Reid,           \* TRUE when a detection can be big
  Garbage,        \* what the uninitialised face.update_frame_id can hold
  HitThresh,      \* hit_num_thresh
  LostThresh,     \* lost_track_thresh
  DeleteThresh,   \* expired_to_delete_thresh
  LeaveLength,    \* 15 in CheckValidLeave
  TrajectorySize, \* trajectory_size
  Width,          \* 2^64: frame numbers are unsigned long long
  MaxFrame,       \* bound: frames per run, below Width
  MaxGap,         \* bound: frames dropped between two detections, plus one
  MaxDetections,  \* bound: persons in one frame
  MaxPersons      \* bound: ids given out per run

ASSUME TrackerAssumption ==
  /\ HitThresh \in Nat /\ LostThresh \in Nat /\ DeleteThresh \in Nat
  /\ LostThresh < DeleteThresh
  /\ LeaveLength \in Nat /\ TrajectorySize \in Nat
  /\ MaxFrame \in Nat /\ MaxGap \in Nat /\ MaxDetections \in Nat /\ MaxPersons \in Nat
  /\ Width \in Nat /\ MaxFrame < Width
  /\ Garbage \subseteq 0 .. Width - 1
  /\ MayReopen \in BOOLEAN /\ Reid \in BOOLEAN

VARIABLES
  tracked,    \* trackedPersonObjects
  expired,    \* expiredPersonObjects
  global_id,  \* the next id
  frame_id,   \* the last frame number of each camera (frame_id_ of its loader)
  clock,      \* history: frames taken so far by all cameras together
  left,       \* history: ids handed out in valid_leave_objects
  shown       \* history: the number of detections in the last frame

vars == <<tracked, expired, global_id, frame_id, clock, left, shown>>

Since(now, before) == (now - before) % Width

(* PersonObject: the fields Update reads.  cur is                          *)
(* is_current_frame_matched_or_new, and also is_current_body_detected,     *)
(* which is the same for detections that all have a body; traj the length  *)
(* of body_trajectory; feats that feature_messages is not empty; face and  *)
(* body the update_frame_id of the last boxes.  hits stops at HitThresh+1:  *)
(* nothing tells larger values apart.  seen and row are history: the clock *)
(* when the object was last matched, and how many frames in a row had      *)
(* matched it when it was confirmed, or have so far.                       *)
Objects ==
  [id : Nat, cur : BOOLEAN, status : {"unconfirmed", "confirmed"}, hits : Nat,
   traj : Nat, feats : BOOLEAN, face : 0 .. Width - 1, body : Nat,
   seen : Nat, row : Nat]

TypeOK ==
  /\ tracked \subseteq Objects
  /\ expired \subseteq Objects
  /\ global_id \in Nat
  /\ frame_id \in [Cameras -> 0 .. MaxFrame]
  /\ clock \in 0 .. MaxFrame
  /\ left \subseteq Nat
  /\ shown \in Nat

Init ==
  /\ tracked = {}
  /\ expired = {}
  /\ global_id = 0
  /\ frame_id = [c \in Cameras |-> 0]
  /\ clock = 0
  /\ left = {}
  /\ shown = 0
-----------------------------------------------------------------------------
(* Matching objects and detections.                                        *)
Matchings(S, D) ==
  {m \in SUBSET (S \X D) :
     \A p, q \in m : p[1] = q[1] \/ p[2] = q[2] => p = q}

IOUMatch(S, D) == Matchings({o \in S : ~o.cur}, D)

FeatureMatch(S, D) ==
  Matchings({o \in S : ~o.cur /\ o.status = "confirmed" /\ o.feats},
            {d \in D : d.big})

(* Mutant: a matched detection is offered again.                           *)
LeftOver_All(D, m) == D

LeftOver(D, m) == {d \in D : \A p \in m : p[2] # d}
Untouched(S, m) == {o \in S : \A p \in m : p[1] # o}

(* Mutant: the first match confirms.                                       *)
StatusAfter_AtOnce(o) == "confirmed"

StatusAfter(o) == IF o.hits + 1 > HitThresh THEN "confirmed" ELSE o.status

(* History: the frames in a row up to this one, or to the confirmation.    *)
RowAfter(o) ==
  IF o.status = "confirmed" THEN o.row ELSE IF o.seen = clock THEN o.row + 1 ELSE 1

UpdateMatchedObjectStatus(o, d, f) ==
  [o EXCEPT !.cur = TRUE, !.status = StatusAfter(o),
            !.hits = IF @ > HitThresh THEN @ ELSE @ + 1,
            !.traj = IF @ + 1 > TrajectorySize THEN TrajectorySize ELSE @ + 1,
            !.feats = @ \/ d.big, !.body = f,
            !.seen = clock', !.row = RowAfter(o)]

Matched(m, f) == {UpdateMatchedObjectStatus(p[1], p[2], f) : p \in m}
Rematched(S, m, f) == Matched(m, f) \cup Untouched(S, m)
-----------------------------------------------------------------------------
(* Objects that this frame does not show.                                  *)

AbsentFor(o, f, thresh) ==
  Since(f, o.face) > thresh /\ Since(f, o.body) > thresh

ClearFlags(S) == {[o EXCEPT !.cur = FALSE] : o \in S}

(* Mutant: an unconfirmed object stays.                                    *)
StaysTracked_Unconfirmed(o, f) == o.cur \/ ~AbsentFor(o, f, LostThresh)

(* UpdateUnMatchedTrackedObjectsStatus                                     *)
StaysTracked(o, f) ==
  o.cur \/ (o.status = "confirmed" /\ ~AbsentFor(o, f, LostThresh))

(* Mutant: lost_track_thresh absent frames are enough.                     *)
BecomesExpired_AtThresh(o, f) ==
  ~o.cur /\ o.status = "confirmed" /\ AbsentFor(o, f, LostThresh - 1)

BecomesExpired(o, f) ==
  ~o.cur /\ o.status = "confirmed" /\ AbsentFor(o, f, LostThresh)

(* Mutant: any track is a visit.                                           *)
CheckValidLeave_Any(o) == TRUE

CheckValidLeave(o) == o.traj >= LeaveLength

(* UpdateUnMatchedExpiredObjectsStatus erases these.                       *)
Deleted(S, f) == {o \in S : AbsentFor(o, f, DeleteThresh)}
-----------------------------------------------------------------------------
(* Mutant: the id of the detection, -1, is kept.                           *)
NewId_Unset(d, D) == -1

(* AddUnMatchedCurDetectedObjects: an id for each, in the order of the     *)
(* detections.                                                             *)
NewId(d, D) == global_id + Cardinality({e \in D : e.box < d.box})

(* The constructor of PersonObject pushes the box on the trajectory twice. *)
NewObject(d, id, f, junk) ==
  [id |-> id, cur |-> TRUE, status |-> "unconfirmed", hits |-> 0,
   traj |-> 2, feats |-> FALSE, face |-> junk, body |-> f,
   seen |-> clock', row |-> 0]
-----------------------------------------------------------------------------
Detections ==
  UNION {{{[box |-> k, big |-> b[k]] : k \in 1 .. n} : b \in [1 .. n -> IF Reid THEN BOOLEAN ELSE {FALSE}]}
         : n \in 0 .. MaxDetections}

(* Mutant: a revived object stays in the expired list too.                 *)
Forget_Kept(S, m) == S

(* UpdateMatchedExpiredObjects erases what it moves to the tracked ones.   *)
Forget(S, m) == Untouched(S, m)

(* Once the tracked objects S have taken what they can, the detections D   *)
(* are left: some are expired objects that come back, the others are new.  *)
Settle(S, D, f) ==
  LET gone == expired \cup {o \in S : BecomesExpired(o, f)} IN
  \E m \in FeatureMatch(gone, D) :
    LET still == Forget(gone, m)
        new == LeftOver(D, m) IN
    \E junk \in [new -> Garbage] :
      /\ global_id + Cardinality(new) <= MaxPersons
      /\ tracked' = {o \in S : StaysTracked(o, f)} \cup Matched(m, f)
                      \cup {NewObject(d, NewId(d, new), f, junk[d]) : d \in new}
      /\ expired' = still \ Deleted(still, f)
      /\ left' = left \cup {o.id : o \in {e \in Deleted(still, f) : CheckValidLeave(e)}}
      /\ global_id' = global_id + Cardinality(new)

(* Tracker::Update on the detections D of frame f: matching by IOU, then   *)
(* by feature.                                                             *)
Update(D, f) ==
  LET start == ClearFlags(tracked) IN
  \E m1 \in IOUMatch(start, D) :
    LET seen == Rematched(start, m1, f)
        rest == LeftOver(D, m1) IN
    \E m2 \in FeatureMatch(seen, rest) :
      Settle(Rematched(seen, m2, f), LeftOver(rest, m2), f)

(* A frame of camera c with the detections D arrives; gap - 1 frames       *)
(* before it were dropped on the way.                                      *)
HandleFrame(c, gap, D) ==
  /\ clock + gap <= MaxFrame
  /\ clock' = clock + gap
  /\ frame_id' = [frame_id EXCEPT ![c] = @ + gap]
  /\ shown' = Cardinality(D)
  /\ Update(D, frame_id[c] + gap)

(* UsbDeviceLoaderProcessor::reopenCamera: frame_id_ = 0.                  *)
ReopenCamera(c) ==
  /\ MayReopen
  /\ frame_id[c] # 0
  /\ frame_id' = [frame_id EXCEPT ![c] = 0]
  /\ UNCHANGED <<tracked, expired, global_id, clock, left, shown>>

Next ==
  \E c \in Cameras :
    \/ \E gap \in 1 .. MaxGap, D \in Detections : HandleFrame(c, gap, D)
    \/ ReopenCamera(c)

Spec == Init /\ [][Next]_vars
-----------------------------------------------------------------------------
(* PROPERTIES                                                              *)

(* Every person has an id of its own, below global_id, whether tracked,    *)
(* expired or gone; what has left or expired is not tracked any more.      *)
IdsUnique ==
  /\ \A o \in tracked \cup expired : o.id < global_id /\ o.id \notin left
  /\ \A o, p \in tracked \cup expired : o.id = p.id => o = p
  /\ tracked \cap expired = {}
  /\ \A i \in left : i < global_id

(* body_hit_num is never set back, but it counts frames in a row: whoever  *)
(* is confirmed, tracked or expired, became so by the (HitThresh + 1)st    *)
(* frame in a row that matched him, counted from the one after his first;  *)
(* and who is not confirmed yet was seen by every frame since.             *)
Steady(o, now) ==
  IF o.status = "confirmed" THEN o.row = HitThresh + 1
  ELSE o.seen = now /\ o.row = o.hits /\ o.hits <= HitThresh

ConfirmedWhenSteady == \A o \in tracked \cup expired : Steady(o, clock)

(* The frames of a single camera that was never reopened: their numbers    *)
(* only grow.                                                              *)
OneSteadyCamera == \E c \in Cameras : frame_id[c] = clock

(* Only confirmed persons that were absent for more than LostThresh frames *)
(* are in the expired list ("frame nums of lost track, larger than it need *)
(* to be moved to expiredPersonObjects").                                  *)
Lost(o) == o.status = "confirmed" /\ ~o.cur /\ clock - o.seen > LostThresh

ExpiredWhenLost == \A o \in expired : Lost(o)

(* With one steady camera the two lists part at the thresholds: who is in  *)
(* the expired list is lost, and, as far as zeroed memory goes, a person   *)
(* absent for longer is not tracked, nor kept beyond DeleteThresh frames.  *)
ExpiryOnTime ==
  OneSteadyCamera =>
    /\ ExpiredWhenLost
    /\ \A o \in tracked : o.face = 0 => clock - o.seen <= LostThresh
    /\ \A o \in expired : o.face = 0 => clock - o.seen <= DeleteThresh

(* A person is reported as having left only after an absence of more than  *)
(* DeleteThresh frames that ended a long enough visit.                     *)
LeavesAfterVisit ==
  [][\A i \in left' \ left :
       \E o \in tracked \cup expired :
         /\ o.id = i
         /\ OneSteadyCamera' => clock' - o.seen > DeleteThresh
         /\ o.traj >= LeaveLength]_vars

(* Every detection of the last frame is exactly one object, matched or     *)
(* new: nobody is counted twice or left out.                               *)
EveryDetectionOnce == Cardinality({o \in tracked : o.cur}) = shown
=============================================================================
