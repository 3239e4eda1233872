---------------------------- MODULE StoreForward ----------------------------
(***************************************************************************)
(* What the uploader of flow events promises its callers, one message at a *)
(* time.  A message is queued in memory; an upload of it may fail; failed  *)
(* or surplus messages are stored on disk; a message is forgotten only     *)
(* after the server acknowledged an upload of it.  A crash forgets what is *)
(* only in memory and nothing that is on disk.                             *)
(*                                                                         *)
(* LossyRetry weakens the promise for messages whose upload has failed:    *)
(* those may be forgotten without an acknowledgement.  MaySpoil weakens it *)
(* for messages whose save collided with another or failed: nothing is     *)
(* promised of them from then on, and it costs no other message anything.  *)
(***************************************************************************)
CONSTANTS
  Msg,          \* the messages (JSON packs handed to SendToFlowServer)
  LossyRetry,   \* may a failed message be forgotten?
  MaySpoil      \* may saves collide or fail?

VARIABLES
  status,       \* where each message is
  acked         \* messages one of whose uploads returned true

Status   == {"new", "queued", "failed", "stored", "spoiled", "gone"}
Volatile == {"queued", "failed"}

SFTypeOK ==
  /\ status \in [Msg -> Status]
  /\ acked \subseteq Msg

Init ==
  /\ status = [m \in Msg |-> "new"]
  /\ acked = {}

Move(m, from, to) ==
  /\ status[m] \in from
  /\ status' = [status EXCEPT ![m] = to]

Accept(m)  == Move(m, {"new"}, "queued") /\ UNCHANGED acked
Refuse(m)  == Move(m, {"queued"}, "failed") /\ UNCHANGED acked
Persist(m) == Move(m, Volatile, "stored") /\ UNCHANGED acked

Acknowledge(m) ==
  /\ status[m] \in Volatile \cup {"stored", "spoiled"}
  /\ acked' = acked \cup {m}
  /\ UNCHANGED status

Settle(m) ==
  /\ m \in acked
  /\ Move(m, Volatile \cup {"stored"}, "gone")
  /\ UNCHANGED acked

Forfeit(m) ==
  /\ LossyRetry
  /\ Move(m, {"failed"}, "gone")
  /\ UNCHANGED acked

Spoil(S) ==
  /\ MaySpoil
  /\ \A m \in S : status[m] # "new"
  /\ status' = [m \in Msg |-> IF m \in S THEN "spoiled" ELSE status[m]]
  /\ UNCHANGED acked

CrashLoss ==
  /\ status' = [m \in Msg |-> IF status[m] \in Volatile THEN "gone" ELSE status[m]]
  /\ UNCHANGED acked

Next ==
  \/ \E m \in Msg : \/ Accept(m) \/ Refuse(m) \/ Persist(m)
                    \/ Acknowledge(m) \/ Settle(m) \/ Forfeit(m)
  \/ \E S \in SUBSET Msg : Spoil(S)
  \/ CrashLoss

Spec == Init /\ [][Next]_<<status, acked>>
=============================================================================
