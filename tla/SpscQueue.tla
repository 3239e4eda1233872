----------------------------- MODULE SpscQueue -----------------------------
(***************************************************************************)
(* Queue<boost::any> (QueueManager.h) over boost::lockfree::spsc_queue.    *)
(*                                                                         *)
(* The ring has Cap + 1 slots and two atomic indices.  push loads the      *)
(* write index, constructs the item in its slot and stores the next index; *)
(* pop moves the item out of the slot at the read index, destroys it and   *)
(* stores the next index.  Every atomic access is a step of its own, so    *)
(* that threads which share one end of a queue interleave as they do in    *)
(* the program: the "dispatch" queue is pushed by the detector thread and  *)
(* by the monitor thread, the "detect" queue by every video input.         *)
(***************************************************************************)
EXTENDS Integers, Sequences, FiniteSets, Functions

CONSTANTS
  Producers,  \* threads pushing into this queue
  Item,       \* what is pushed, each item at most once
  Cap,        \* cap_: 10, or 1 in a heap-profiling build
  None        \* a slot that holds no live object

ASSUME QueueAssumption ==
  /\ Cap \in Nat \ {0}
  /\ None \notin Item

VARIABLES
  pp,       \* program counter of each producer
  hand,     \* the item each producer is pushing
  at,       \* the write index each producer loaded
  ring,     \* the slots
  widx,     \* write_index_
  ridx,     \* read_index_
  cp,       \* program counter of the consumer
  got,      \* the item the running pop moved out
  offered,  \* history: items given to Push
  accepted, \* history: items for which Push returned true
  refused,  \* history: items for which Push returned false
  taken     \* history: what the consumer received, in order

producerVars == <<pp, hand, at>>
consumerVars == <<cp, got>>
vars == <<pp, hand, at, ring, widx, ridx, cp, got, offered, accepted, refused, taken>>

Slots == 0 .. Cap

(* Mutant: the index does not wrap around.                                 *)
NextIndex_NoWrap(i) == i + 1

NextIndex(i) == (i + 1) % (Cap + 1)

Available == (widx - ridx + Cap + 1) % (Cap + 1)

TypeOK ==
  /\ pp \in [Producers -> {"idle", "size", "load", "write", "publish"}]
  /\ hand \in [Producers -> Item \cup {None}]
  /\ at \in [Producers -> Slots]
  /\ ring \in [Slots -> Item \cup {None}]
  /\ widx \in Slots
  /\ ridx \in Slots
  /\ cp \in {"empty", "pop", "publish"}
  /\ got \in Item \cup {None}
  /\ offered \subseteq Item
  /\ accepted \subseteq Item
  /\ refused \subseteq Item
  /\ taken \in Seq(Item \cup {None})

Init ==
  /\ pp = [p \in Producers |-> "idle"]
  /\ hand = [p \in Producers |-> None]
  /\ at = [p \in Producers |-> 0]
  /\ ring = [i \in Slots |-> None]
  /\ widx = 0
  /\ ridx = 0
  /\ cp = "empty"
  /\ got = None
  /\ offered = {}
  /\ accepted = {}
  /\ refused = {}
  /\ taken = <<>>
-----------------------------------------------------------------------------
(* Queue::Push, step by step.                                              *)
Goto(p, label) == pp' = [pp EXCEPT ![p] = label]

StartPush(p, x) ==
  /\ pp[p] = "idle"
  /\ x \notin offered
  /\ offered' = offered \cup {x}
  /\ hand' = [hand EXCEPT ![p] = x]
  /\ Goto(p, "size")
  /\ UNCHANGED <<at, ring, widx, ridx, consumerVars, accepted, refused, taken>>

Return(p, accept) ==
  /\ hand' = [hand EXCEPT ![p] = None]
  /\ Goto(p, "idle")
  /\ IF accept THEN accepted' = accepted \cup {hand[p]} /\ UNCHANGED refused
               ELSE refused' = refused \cup {hand[p]} /\ UNCHANGED accepted

(* Mutant: one slot too many is kept free.                                 *)
CapReached_Early == Available >= Cap - 1

(* if (Size() >= cap_) return false;                                       *)
CapReached == Available >= Cap

Refuse(p) ==
  /\ pp[p] = "size"
  /\ CapReached
  /\ Return(p, FALSE)
  /\ UNCHANGED <<at, ring, widx, ridx, consumerVars, offered, taken>>

FindRoom(p) ==
  /\ pp[p] = "size"
  /\ ~CapReached
  /\ Goto(p, "load")
  /\ UNCHANGED <<hand, at, ring, widx, ridx, consumerVars, offered, accepted, refused, taken>>

(* The library's own test: the ring is full when the next index is the     *)
(* read index, which one producer never sees after CapReached was false.   *)
LoadWriteIndex(p) ==
  /\ pp[p] = "load"
  /\ IF NextIndex(widx) = ridx
     THEN Return(p, FALSE) /\ UNCHANGED at
     ELSE /\ at' = [at EXCEPT ![p] = widx]
          /\ Goto(p, "write")
          /\ UNCHANGED <<hand, accepted, refused>>
  /\ UNCHANGED <<ring, widx, ridx, consumerVars, offered, taken>>

WriteSlot(p) ==
  /\ pp[p] = "write"
  /\ ring' = [ring EXCEPT ![at[p]] = hand[p]]
  /\ Goto(p, "publish")
  /\ UNCHANGED <<hand, at, widx, ridx, consumerVars, offered, accepted, refused, taken>>

Publish(p) ==
  /\ pp[p] = "publish"
  /\ widx' = NextIndex(at[p])
  /\ Return(p, TRUE)
  /\ UNCHANGED <<at, ring, ridx, consumerVars, offered, taken>>
-----------------------------------------------------------------------------
(* Mutant: the last item is not seen.                                      *)
SeeItem_NotLast ==
  /\ cp = "empty"
  /\ Available > 1
  /\ cp' = "pop"
  /\ UNCHANGED <<producerVars, ring, widx, ridx, got, offered, accepted, refused, taken>>

(* The loop of a processor: Empty(), then Pop().                           *)
SeeItem ==
  /\ cp = "empty"
  /\ widx # ridx
  /\ cp' = "pop"
  /\ UNCHANGED <<producerVars, ring, widx, ridx, got, offered, accepted, refused, taken>>

MoveOut ==
  /\ cp = "pop"
  /\ got' = ring[ridx]
  /\ ring' = [ring EXCEPT ![ridx] = None]
  /\ cp' = "publish"
  /\ UNCHANGED <<producerVars, widx, ridx, offered, accepted, refused, taken>>

PopReturns ==
  /\ cp = "publish"
  /\ ridx' = NextIndex(ridx)
  /\ taken' = Append(taken, got)
  /\ got' = None
  /\ cp' = "empty"
  /\ UNCHANGED <<producerVars, ring, widx, offered, accepted, refused>>
-----------------------------------------------------------------------------
PushStep(p) ==
  \/ Refuse(p) \/ FindRoom(p) \/ LoadWriteIndex(p)
  \/ WriteSlot(p) \/ Publish(p)

Consume == SeeItem \/ MoveOut \/ PopReturns

Next ==
  \/ \E p \in Producers : PushStep(p) \/ \E x \in Item : StartPush(p, x)
  \/ Consume

Spec == Init /\ [][Next]_vars

(* Every thread of the pool keeps running.                                 *)
FairSpec == Spec /\ WF_vars(Consume) /\ \A p \in Producers : WF_vars(PushStep(p))
-----------------------------------------------------------------------------
(* PROPERTIES                                                              *)

(* Push refuses an item only because the queue is full ("this queue is     *)
(* full, now lost it"), and an item it accepted is in the ring until the   *)
(* consumer has it: none is lost otherwise.                                *)
LostOnlyWhenFull ==
  \A x \in accepted : x \in Range(ring) \cup Range(taken) \cup {got}

(* The slots from the read index to the write index, oldest first.         *)
Waiting ==
  [k \in 1 .. Available |->
     IF k = 1 /\ cp = "publish" THEN got ELSE ring[(ridx + k - 1) % (Cap + 1)]]

Promise == INSTANCE BoundedQueue WITH content <- Waiting

(* With one producer the ring is a first-in first-out buffer of Cap items. *)
IsBoundedQueue == Promise!Spec

(* Every accepted item reaches the consumer.                               *)
AcceptedArrives == \A x \in Item : x \in accepted ~> x \in Range(taken)
=============================================================================
