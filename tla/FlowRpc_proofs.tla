--------------------------- MODULE FlowRpc_proofs ---------------------------
(***************************************************************************)
(* Proofs about the uploader, for every number of producers, messages and  *)
(* time stamps and every value of the thresholds: no wake-up is lost, the  *)
(* backlog is bounded, and every message is kept as StoreForward promises, *)
(* whether or not file names repeat and the disk works.                    *)
(***************************************************************************)
EXTENDS FlowRpc, FiniteSetTheorems, TLAPS

(* Adding to a metric counter keeps the counters natural numbers.          *)
LEMMA AddCounter ==
  ASSUME NEW f \in [Counters -> Nat], NEW c \in Counters, NEW n \in Nat
  PROVE  [f EXCEPT ![c] = @ + n] \in [Counters -> Nat]
  OBVIOUS

(* A save keeps the directory and the file names well-formed.              *)
LEMMA WriteFileTypes ==
  ASSUME TypeOK, NEW a \in Actors, NEW m \in Msg, WriteFile(a, m)
  PROVE  /\ stamp' \in [Actors -> Stamps \cup {None}]
         /\ dat' \in [Stamps -> Content]
         /\ spoiled' \subseteq Msg
<1>1. PICK t \in Stamps :
        /\ stamp' = [stamp EXCEPT ![a] = t]
        /\ \/ dat' = [dat EXCEPT ![t] = m]
           \/ dat' = [dat EXCEPT ![t] = Torn]
           \/ dat' = dat
  BY DEF WriteFile
<1>2. stamp' \in [Actors -> Stamps \cup {None}]
  BY <1>1 DEF TypeOK
<1>3. m \in Content /\ Torn \in Content
  BY DEF Content
<1>4. dat' \in [Stamps -> Content]
  BY <1>1, <1>3 DEF TypeOK
<1>5. spoiled' \subseteq Msg
  BY Zenon DEF WriteFile, Touched, TypeOK
<1>6. QED
  BY <1>2, <1>4, <1>5

(* A sequence of messages stays one when a message is added or removed.    *)
LEMMA SeqTypes ==
  ASSUME NEW s \in Seq(Msg)
  PROVE  /\ \A m \in Msg : Append(s, m) \in Seq(Msg)
         /\ s # <<>> => Head(s) \in Msg /\ Tail(s) \in Seq(Msg)
  OBVIOUS

(* The message just added is there.                                        *)
LEMMA Appended ==
  ASSUME NEW s \in Seq(Msg), NEW m \in Msg
  PROVE  Append(s, m) # <<>> /\ (s = <<>> => Len(Append(s, m)) = 1)
  OBVIOUS

(* Whatever the answer to an upload, at most one counter goes up, by one.  *)
LEMMA AnswerCounted ==
  ASSUME TypeOK, NEW ok \in BOOLEAN,
         (\E t \in Stamps : ResendFile(t, ok)) \/ SendFront(ok) \/ RetryFailed(ok)
  PROVE  cnt' \in [Counters -> Nat]
<1>1. cnt \in [Counters -> Nat]
  BY DEF TypeOK
<1>2. cnt' = cnt \/ \E c \in Counters : cnt' = [cnt EXCEPT ![c] = @ + 1]
  <2>1. CASE \E t \in Stamps : ResendFile(t, ok)
    BY <2>1, Zenon DEF ResendFile, Counters
  <2>2. CASE SendFront(ok)
    BY <2>2, Zenon DEF SendFront, Counters
  <2>3. CASE RetryFailed(ok)
    BY <2>3, Zenon DEF RetryFailed, Counters
  <2>4. QED
    BY <2>1, <2>2, <2>3
<1>3. ASSUME NEW c \in Counters, cnt' = [cnt EXCEPT ![c] = @ + 1]
      PROVE  cnt' \in [Counters -> Nat]
  BY <1>1, <1>3, AddCounter
<1>4. QED
  BY <1>1, <1>2, <1>3

LEMMA InitIInv == Init => IInv
<1> SUFFICES ASSUME Init PROVE IInv
  OBVIOUS
<1> USE ParamAssumption DEF Init, Volatile0
<1>1. TypeOK
  <2>1. cnt \in [Counters -> Nat]
    BY DEF ZeroCounters
  <2>2. q \in Seq(Msg) /\ failedQ \in Seq(Msg)
    OBVIOUS
  <2>3. QED
    BY <2>1, <2>2 DEF TypeOK, Actors, Content, PLabels, ULabels
<1>2. LockInv
  BY DEF LockInv
<1>3. SleepInv
  BY DEF SleepInv, NoLostWakeup, WakesToWork
<1>4. BacklogInv
  BY DEF BacklogInv, BacklogBounded, Pushing
<1>5. FrontInv
  BY DEF FrontInv, PopsWhatItSent
<1>6. QED
  BY <1>1, <1>2, <1>3, <1>4, <1>5 DEF IInv

LEMMA RestartIInv == TypeOK /\ Restart => IInv'
<1> SUFFICES ASSUME TypeOK, Restart PROVE IInv'
  OBVIOUS
<1> USE ParamAssumption DEF Restart
<1>1. TypeOK'
  <2>1. cnt' \in [Counters -> Nat]
    BY DEF ZeroCounters
  <2>2. q' \in Seq(Msg) /\ failedQ' \in Seq(Msg)
    OBVIOUS
  <2>3. QED
    BY <2>1, <2>2 DEF TypeOK, Actors, Content, PLabels, ULabels, disk, history
<1>2. LockInv'
  BY DEF LockInv
<1>3. SleepInv'
  BY DEF SleepInv, NoLostWakeup, WakesToWork
<1>4. BacklogInv'
  BY DEF BacklogInv, BacklogBounded, Pushing
<1>5. FrontInv'
  BY DEF FrontInv, PopsWhatItSent
<1>6. QED
  BY <1>1, <1>2, <1>3, <1>4, <1>5 DEF IInv

LEMMA StepIInv == IInv /\ [Next]_vars => IInv'
<1> SUFFICES ASSUME IInv, [Next]_vars PROVE IInv'
  OBVIOUS
<1> USE ParamAssumption DEF producerVars, localVars, disk, history
<1>1. ASSUME NEW p \in Producers, NEW m \in Msg, Submit(p, m) PROVE IInv'
  <2> USE <1>1 DEF IInv, Submit
  <2>1. TypeOK'
    BY DEF TypeOK, Actors, Content, PLabels, ULabels
  <2>2. LockInv'
    BY DEF TypeOK, LockInv, Actors
  <2>3. SleepInv'
    BY DEF TypeOK, LockInv, SleepInv, NoLostWakeup, WakesToWork
  <2>4. BacklogInv'
    BY DEF TypeOK, LockInv, BacklogInv, BacklogBounded, Pushing
  <2>5. FrontInv'
    BY DEF TypeOK, LockInv, FrontInv, PopsWhatItSent, Pushing
  <2>6. QED
    BY <2>1, <2>2, <2>3, <2>4, <2>5 DEF IInv
<1>2. ASSUME NEW p \in Producers, ProducerLock(p) PROVE IInv'
  <2> USE <1>2 DEF IInv, ProducerLock, BacklogFull
  <2>1. TypeOK'
    BY DEF TypeOK, Actors, Content, PLabels, ULabels
  <2>2. LockInv'
    BY DEF TypeOK, LockInv, Actors
  <2>3. SleepInv'
    BY DEF TypeOK, LockInv, SleepInv, NoLostWakeup, WakesToWork
  <2>4. BacklogInv'
    BY DEF TypeOK, LockInv, BacklogInv, BacklogBounded, Pushing
  <2>5. FrontInv'
    BY DEF TypeOK, LockInv, FrontInv, PopsWhatItSent, Pushing
  <2>6. QED
    BY <2>1, <2>2, <2>3, <2>4, <2>5 DEF IInv
<1>3. ASSUME NEW p \in Producers, Enqueue(p) PROVE IInv'
  <2> USE <1>3 DEF IInv, Enqueue
  <2>1. TypeOK'
    BY DEF TypeOK, FrontInv, Actors, Content, PLabels, ULabels
  <2>2. LockInv'
    BY DEF TypeOK, LockInv, Actors
  <2>3. SleepInv'
    <3>1. q' # <<>> /\ (q = <<>> => Len(q') = 1)
      <4>1. q \in Seq(Msg) /\ hand[p] \in Msg /\ q' = Append(q, hand[p])
        BY DEF TypeOK, FrontInv
      <4>2. QED
        BY ONLY <4>1, Appended
    <3>2. up = "sleep" /\ resmt => q = <<>>
      BY DEF TypeOK, LockInv, SleepInv, NoLostWakeup
    <3>3. pp'[p] = "signal"
      BY DEF TypeOK
    <3>4. QED
      BY <3>1, <3>2, <3>3 DEF SleepInv, NoLostWakeup, WakesToWork
  <2>4. BacklogInv'
    BY DEF TypeOK, LockInv, BacklogInv, BacklogBounded, Pushing
  <2>5. FrontInv'
    BY DEF TypeOK, LockInv, FrontInv, PopsWhatItSent, Pushing
  <2>6. QED
    BY <2>1, <2>2, <2>3, <2>4, <2>5 DEF IInv
<1>4. ASSUME NEW p \in Producers, OverflowSave(p) PROVE IInv'
  <2> USE <1>4 DEF IInv, OverflowSave, WriteFile
  <2>d. /\ stamp' \in [Actors -> Stamps \cup {None}] /\ dat' \in [Stamps -> Content]
        /\ spoiled' \subseteq Msg
    <3>1. hand[p] \in Msg /\ p \in Actors
      BY DEF FrontInv, Actors
    <3>2. QED
      BY <3>1, WriteFileTypes
  <2>1. TypeOK'
    BY <2>d DEF TypeOK, Actors, Content, PLabels, ULabels
  <2>2. LockInv'
    BY DEF TypeOK, LockInv, Actors
  <2>3. SleepInv'
    BY DEF TypeOK, LockInv, SleepInv, NoLostWakeup, WakesToWork
  <2>4. BacklogInv'
    BY DEF TypeOK, LockInv, BacklogInv, BacklogBounded, Pushing
  <2>5. FrontInv'
    BY DEF TypeOK, LockInv, FrontInv, PopsWhatItSent, Pushing
  <2>6. QED
    BY <2>1, <2>2, <2>3, <2>4, <2>5 DEF IInv
<1>5. ASSUME NEW p \in Producers, OverflowComplete(p) PROVE IInv'
  <2> USE <1>5 DEF IInv, OverflowComplete, CompleteFile
  <2>1. TypeOK'
    BY DEF TypeOK, Actors, Content, PLabels, ULabels
  <2>2. LockInv'
    BY DEF TypeOK, LockInv, Actors
  <2>3. SleepInv'
    BY DEF TypeOK, LockInv, SleepInv, NoLostWakeup, WakesToWork
  <2>4. BacklogInv'
    BY DEF TypeOK, LockInv, BacklogInv, BacklogBounded, Pushing
  <2>5. FrontInv'
    BY DEF TypeOK, LockInv, FrontInv, PopsWhatItSent, Pushing
  <2>6. QED
    BY <2>1, <2>2, <2>3, <2>4, <2>5 DEF IInv
<1>6. ASSUME NEW p \in Producers, Signal(p) PROVE IInv'
  <2> USE <1>6 DEF IInv, Signal, MustWake
  <2>1. TypeOK'
    BY DEF TypeOK, Actors, Content, PLabels, ULabels
  <2>2. LockInv'
    BY DEF TypeOK, LockInv, Actors
  <2>3. SleepInv'
    <3>0. Len(<<>>) = 0
      OBVIOUS
    <3>1. CASE Len(q) = 1
      <4>1. q # <<>> /\ q' = q /\ ~resmt'
        BY <3>0, <3>1
      <4>2. QED
        BY <4>1 DEF SleepInv, NoLostWakeup, WakesToWork
    <3>2. CASE Len(q) # 1
      BY <3>2 DEF TypeOK, LockInv, SleepInv, NoLostWakeup, WakesToWork
    <3>3. QED
      BY <3>1, <3>2
  <2>4. BacklogInv'
    BY DEF TypeOK, LockInv, BacklogInv, BacklogBounded, Pushing
  <2>5. FrontInv'
    BY DEF TypeOK, LockInv, FrontInv, PopsWhatItSent, Pushing
  <2>6. QED
    BY <2>1, <2>2, <2>3, <2>4, <2>5 DEF IInv
<1>7. ASSUME NEW p \in Producers, ProducerUnlock(p) PROVE IInv'
  <2> USE <1>7 DEF IInv, ProducerUnlock
  <2>1. TypeOK'
    BY DEF TypeOK, Actors, Content, PLabels, ULabels
  <2>2. LockInv'
    BY DEF TypeOK, LockInv, Actors
  <2>3. SleepInv'
    BY DEF TypeOK, LockInv, SleepInv, NoLostWakeup, WakesToWork
  <2>4. BacklogInv'
    BY DEF TypeOK, LockInv, BacklogInv, BacklogBounded, Pushing
  <2>5. FrontInv'
    BY DEF TypeOK, LockInv, FrontInv, PopsWhatItSent, Pushing
  <2>6. QED
    BY <2>1, <2>2, <2>3, <2>4, <2>5 DEF IInv
<1>8. ASSUME RemoveUnfinished PROVE IInv'
  <2> USE <1>8 DEF IInv, RemoveUnfinished
  <2>c. cnt' \in [Counters -> Nat]
    <3>1. IsFiniteSet({t \in Stamps : dat[t] # None})
      BY FS_Subset
    <3>2. Cardinality({t \in Stamps : dat[t] # None}) \in Nat
      BY <3>1, FS_CardinalityType
    <3>3. QED
      BY <3>2, AddCounter DEF TypeOK
  <2>1. TypeOK'
    BY <2>c DEF TypeOK, Actors, Content, PLabels, ULabels
  <2>2. LockInv'
    BY DEF TypeOK, LockInv, Actors
  <2>3. SleepInv'
    BY DEF TypeOK, LockInv, SleepInv, NoLostWakeup, WakesToWork
  <2>4. BacklogInv'
    BY DEF TypeOK, LockInv, BacklogInv, BacklogBounded, Pushing
  <2>5. FrontInv'
    BY DEF TypeOK, LockInv, FrontInv, PopsWhatItSent, Pushing
  <2>6. QED
    BY <2>1, <2>2, <2>3, <2>4, <2>5 DEF IInv
<1>9. ASSUME ListFiles PROVE IInv'
  <2> USE <1>9 DEF IInv, ListFiles, Completed
  <2>c. cnt' \in [Counters -> Nat]
    <3>1. IsFiniteSet(Completed)
      BY FS_Subset DEF Completed
    <3>2. Cardinality(Completed) \in Nat
      BY <3>1, FS_CardinalityType
    <3>3. QED
      BY <3>2, AddCounter DEF TypeOK
  <2>1. TypeOK'
    BY <2>c DEF TypeOK, Actors, Content, PLabels, ULabels
  <2>2. LockInv'
    BY DEF TypeOK, LockInv, Actors
  <2>3. SleepInv'
    BY DEF TypeOK, LockInv, SleepInv, NoLostWakeup, WakesToWork
  <2>4. BacklogInv'
    BY DEF TypeOK, LockInv, BacklogInv, BacklogBounded, Pushing
  <2>5. FrontInv'
    BY DEF TypeOK, LockInv, FrontInv, PopsWhatItSent, Pushing
  <2>6. QED
    BY <2>1, <2>2, <2>3, <2>4, <2>5 DEF IInv
<1>10. ASSUME ResendDone PROVE IInv'
  <2> USE <1>10 DEF IInv, ResendDone
  <2>1. TypeOK'
    BY DEF TypeOK, Actors, Content, PLabels, ULabels
  <2>2. LockInv'
    BY DEF TypeOK, LockInv, Actors
  <2>3. SleepInv'
    BY DEF TypeOK, LockInv, SleepInv, NoLostWakeup, WakesToWork
  <2>4. BacklogInv'
    BY DEF TypeOK, LockInv, BacklogInv, BacklogBounded, Pushing
  <2>5. FrontInv'
    BY DEF TypeOK, LockInv, FrontInv, PopsWhatItSent, Pushing
  <2>6. QED
    BY <2>1, <2>2, <2>3, <2>4, <2>5 DEF IInv
<1>11. ASSUME RemoveFile PROVE IInv'
  <2> USE <1>11 DEF IInv, RemoveFile
  <2>1. TypeOK'
    BY DEF TypeOK, Actors, Content, PLabels, ULabels
  <2>2. LockInv'
    BY DEF TypeOK, LockInv, Actors
  <2>3. SleepInv'
    BY DEF TypeOK, LockInv, SleepInv, NoLostWakeup, WakesToWork
  <2>4. BacklogInv'
    BY DEF TypeOK, LockInv, BacklogInv, BacklogBounded, Pushing
  <2>5. FrontInv'
    BY DEF TypeOK, LockInv, FrontInv, PopsWhatItSent, Pushing
  <2>6. QED
    BY <2>1, <2>2, <2>3, <2>4, <2>5 DEF IInv
<1>12. ASSUME LockQueue PROVE IInv'
  <2> USE <1>12 DEF IInv, LockQueue
  <2>1. TypeOK'
    BY DEF TypeOK, Actors, Content, PLabels, ULabels
  <2>2. LockInv'
    BY DEF TypeOK, LockInv, Actors
  <2>3. SleepInv'
    BY DEF TypeOK, LockInv, SleepInv, NoLostWakeup, WakesToWork
  <2>4. BacklogInv'
    BY DEF TypeOK, LockInv, BacklogInv, BacklogBounded, Pushing
  <2>5. FrontInv'
    BY DEF TypeOK, LockInv, FrontInv, PopsWhatItSent, Pushing
  <2>6. QED
    BY <2>1, <2>2, <2>3, <2>4, <2>5 DEF IInv
<1>13. ASSUME LockResend PROVE IInv'
  <2> USE <1>13 DEF IInv, LockResend
  <2>1. TypeOK'
    BY DEF TypeOK, Actors, Content, PLabels, ULabels
  <2>2. LockInv'
    BY DEF TypeOK, LockInv, Actors
  <2>3. SleepInv'
    BY DEF TypeOK, LockInv, SleepInv, NoLostWakeup, WakesToWork
  <2>4. BacklogInv'
    BY DEF TypeOK, LockInv, BacklogInv, BacklogBounded, Pushing
  <2>5. FrontInv'
    BY DEF TypeOK, LockInv, FrontInv, PopsWhatItSent, Pushing
  <2>6. QED
    BY <2>1, <2>2, <2>3, <2>4, <2>5 DEF IInv
<1>14. ASSUME LookAtQueue PROVE IInv'
  <2> USE <1>14 DEF IInv, LookAtQueue
  <2>1. TypeOK'
    BY DEF TypeOK, Actors, Content, PLabels, ULabels
  <2>2. LockInv'
    BY DEF TypeOK, LockInv, Actors
  <2>3. SleepInv'
    BY DEF TypeOK, LockInv, SleepInv, NoLostWakeup, WakesToWork
  <2>4. BacklogInv'
    BY DEF TypeOK, LockInv, BacklogInv, BacklogBounded, Pushing
  <2>5. FrontInv'
    BY DEF TypeOK, LockInv, FrontInv, PopsWhatItSent, Pushing
  <2>6. QED
    BY <2>1, <2>2, <2>3, <2>4, <2>5 DEF IInv
<1>15. ASSUME Sleep PROVE IInv'
  <2> USE <1>15 DEF IInv, Sleep
  <2>1. TypeOK'
    BY DEF TypeOK, Actors, Content, PLabels, ULabels
  <2>2. LockInv'
    BY DEF TypeOK, LockInv, Actors
  <2>3. SleepInv'
    BY DEF TypeOK, LockInv, SleepInv, NoLostWakeup, WakesToWork
  <2>4. BacklogInv'
    BY DEF TypeOK, LockInv, BacklogInv, BacklogBounded, Pushing
  <2>5. FrontInv'
    BY DEF TypeOK, LockInv, FrontInv, PopsWhatItSent, Pushing
  <2>6. QED
    BY <2>1, <2>2, <2>3, <2>4, <2>5 DEF IInv
<1>16. ASSUME CheckWoken PROVE IInv'
  <2> USE <1>16 DEF IInv, CheckWoken
  <2>1. TypeOK'
    BY DEF TypeOK, Actors, Content, PLabels, ULabels
  <2>2. LockInv'
    BY DEF TypeOK, LockInv, Actors
  <2>3. SleepInv'
    BY DEF TypeOK, LockInv, SleepInv, NoLostWakeup, WakesToWork
  <2>4. BacklogInv'
    BY DEF TypeOK, LockInv, BacklogInv, BacklogBounded, Pushing
  <2>5. FrontInv'
    BY DEF TypeOK, LockInv, FrontInv, PopsWhatItSent, Pushing
  <2>6. QED
    BY <2>1, <2>2, <2>3, <2>4, <2>5 DEF IInv
<1>17. ASSUME UnlockResend PROVE IInv'
  <2> USE <1>17 DEF IInv, UnlockResend
  <2>1. TypeOK'
    BY DEF TypeOK, Actors, Content, PLabels, ULabels
  <2>2. LockInv'
    BY DEF TypeOK, LockInv, Actors
  <2>3. SleepInv'
    BY DEF TypeOK, LockInv, SleepInv, NoLostWakeup, WakesToWork
  <2>4. BacklogInv'
    BY DEF TypeOK, LockInv, BacklogInv, BacklogBounded, Pushing
  <2>5. FrontInv'
    BY DEF TypeOK, LockInv, FrontInv, PopsWhatItSent, Pushing
  <2>6. QED
    BY <2>1, <2>2, <2>3, <2>4, <2>5 DEF IInv
<1>18. ASSUME SeeWork PROVE IInv'
  <2> USE <1>18 DEF IInv, SeeWork, Pushing
  <2>1. TypeOK'
    BY DEF TypeOK, FrontInv, Actors, Content, PLabels, ULabels
  <2>2. LockInv'
    BY DEF TypeOK, LockInv, Actors
  <2>3. SleepInv'
    BY DEF TypeOK, LockInv, SleepInv, NoLostWakeup, WakesToWork
  <2>4. BacklogInv'
    BY DEF TypeOK, LockInv, BacklogInv, BacklogBounded
  <2>5. FrontInv'
    BY DEF TypeOK, LockInv, FrontInv, PopsWhatItSent
  <2>6. QED
    BY <2>1, <2>2, <2>3, <2>4, <2>5 DEF IInv
<1>19. ASSUME SeeNoWork PROVE IInv'
  <2> USE <1>19 DEF IInv, SeeNoWork, Pushing
  <2>1. TypeOK'
    BY DEF TypeOK, Actors, Content, PLabels, ULabels
  <2>2. LockInv'
    BY DEF TypeOK, LockInv, Actors
  <2>3. SleepInv'
    BY DEF TypeOK, LockInv, SleepInv, NoLostWakeup, WakesToWork
  <2>4. BacklogInv'
    BY DEF TypeOK, LockInv, BacklogInv, BacklogBounded
  <2>5. FrontInv'
    BY DEF TypeOK, LockInv, FrontInv, PopsWhatItSent
  <2>6. QED
    BY <2>1, <2>2, <2>3, <2>4, <2>5 DEF IInv
<1>20. ASSUME PopFront PROVE IInv'
  <2> USE <1>20 DEF IInv, PopFront
  <2>1. TypeOK'
    BY DEF TypeOK, LockInv, FrontInv, PopsWhatItSent, Pushing, Actors, Content, PLabels, ULabels
  <2>2. LockInv'
    BY DEF TypeOK, LockInv, Actors
  <2>3. SleepInv'
    BY DEF TypeOK, LockInv, SleepInv, NoLostWakeup, WakesToWork
  <2>4. BacklogInv'
    BY DEF TypeOK, LockInv, BacklogInv, BacklogBounded, Pushing
  <2>5. FrontInv'
    BY DEF TypeOK, LockInv, FrontInv, PopsWhatItSent, Pushing
  <2>6. QED
    BY <2>1, <2>2, <2>3, <2>4, <2>5 DEF IInv
<1>21. ASSUME RetryDone PROVE IInv'
  <2> USE <1>21 DEF IInv, RetryDone
  <2>1. TypeOK'
    BY DEF TypeOK, Actors, Content, PLabels, ULabels
  <2>2. LockInv'
    BY DEF TypeOK, LockInv, Actors
  <2>3. SleepInv'
    BY DEF TypeOK, LockInv, SleepInv, NoLostWakeup, WakesToWork
  <2>4. BacklogInv'
    BY DEF TypeOK, LockInv, BacklogInv, BacklogBounded, Pushing
  <2>5. FrontInv'
    BY DEF TypeOK, LockInv, FrontInv, PopsWhatItSent, Pushing
  <2>6. QED
    BY <2>1, <2>2, <2>3, <2>4, <2>5 DEF IInv
<1>22. ASSUME SaveFailed PROVE IInv'
  <2> USE <1>22 DEF IInv, SaveFailed, WriteFile
  <2>d. /\ stamp' \in [Actors -> Stamps \cup {None}] /\ dat' \in [Stamps -> Content]
        /\ spoiled' \subseteq Msg
    <3>1. failedQ \in Seq(Msg) /\ failedQ # <<>> /\ Uploader \in Actors
      BY DEF TypeOK, Actors
    <3>2. Head(failedQ) \in Msg
      BY <3>1, SeqTypes
    <3>3. QED
      BY <3>1, <3>2, WriteFileTypes
  <2>1. TypeOK'
    BY <2>d DEF TypeOK, Actors, Content, PLabels, ULabels
  <2>2. LockInv'
    BY DEF TypeOK, LockInv, Actors
  <2>3. SleepInv'
    BY DEF TypeOK, LockInv, SleepInv, NoLostWakeup, WakesToWork
  <2>4. BacklogInv'
    BY DEF TypeOK, LockInv, BacklogInv, BacklogBounded, Pushing
  <2>5. FrontInv'
    BY DEF TypeOK, LockInv, FrontInv, PopsWhatItSent, Pushing
  <2>6. QED
    BY <2>1, <2>2, <2>3, <2>4, <2>5 DEF IInv
<1>23. ASSUME SaveFailedComplete PROVE IInv'
  <2> USE <1>23 DEF IInv, SaveFailedComplete, CompleteFile
  <2>d. over' \in [Stamps -> Content] /\ dat' \in [Stamps -> Content]
    BY DEF TypeOK, Content
  <2>1. TypeOK'
    BY <2>d DEF TypeOK, BacklogInv, Actors, Content, PLabels, ULabels
  <2>2. LockInv'
    BY DEF TypeOK, LockInv, Actors
  <2>3. SleepInv'
    BY DEF TypeOK, LockInv, SleepInv, NoLostWakeup, WakesToWork
  <2>4. BacklogInv'
    BY DEF TypeOK, LockInv, BacklogInv, BacklogBounded, Pushing
  <2>5. FrontInv'
    BY DEF TypeOK, LockInv, FrontInv, PopsWhatItSent, Pushing
  <2>6. QED
    BY <2>1, <2>2, <2>3, <2>4, <2>5 DEF IInv
<1>24. ASSUME BatchDone PROVE IInv'
  <2> USE <1>24 DEF IInv, BatchDone
  <2>1. TypeOK'
    BY DEF TypeOK, Actors, Content, PLabels, ULabels
  <2>2. LockInv'
    BY DEF TypeOK, LockInv, Actors
  <2>3. SleepInv'
    BY DEF TypeOK, LockInv, SleepInv, NoLostWakeup, WakesToWork
  <2>4. BacklogInv'
    BY DEF TypeOK, LockInv, BacklogInv, BacklogBounded, Pushing
  <2>5. FrontInv'
    BY DEF TypeOK, LockInv, FrontInv, PopsWhatItSent, Pushing
  <2>6. QED
    BY <2>1, <2>2, <2>3, <2>4, <2>5 DEF IInv
<1>25. ASSUME ReportMetric PROVE IInv'
  <2> USE <1>25 DEF IInv, ReportMetric
  <2>c. cnt' \in [Counters -> Nat]
    BY DEF TypeOK, ZeroCounters
  <2>1. TypeOK'
    BY <2>c DEF TypeOK, Actors, Content, PLabels, ULabels
  <2>2. LockInv'
    BY DEF TypeOK, LockInv, Actors
  <2>3. SleepInv'
    BY DEF TypeOK, LockInv, SleepInv, NoLostWakeup, WakesToWork
  <2>4. BacklogInv'
    BY DEF TypeOK, LockInv, BacklogInv, BacklogBounded, Pushing
  <2>5. FrontInv'
    BY DEF TypeOK, LockInv, FrontInv, PopsWhatItSent, Pushing
  <2>6. QED
    BY <2>1, <2>2, <2>3, <2>4, <2>5 DEF IInv
<1>26. ASSUME NEW t \in Stamps, NEW ok \in BOOLEAN, ResendFile(t, ok) PROVE IInv'
  <2>c. cnt' \in [Counters -> Nat]
    BY <1>26, AnswerCounted DEF IInv
  <2> USE <1>26 DEF IInv, ResendFile, Answer
  <2>1. TypeOK'
    BY <2>c DEF TypeOK, Actors, Content, PLabels, ULabels
  <2>2. LockInv'
    BY DEF TypeOK, LockInv, Actors
  <2>3. SleepInv'
    BY DEF TypeOK, LockInv, SleepInv, NoLostWakeup, WakesToWork
  <2>4. BacklogInv'
    BY DEF TypeOK, LockInv, BacklogInv, BacklogBounded, Pushing
  <2>5. FrontInv'
    BY DEF TypeOK, LockInv, FrontInv, PopsWhatItSent, Pushing
  <2>6. QED
    BY <2>1, <2>2, <2>3, <2>4, <2>5 DEF IInv
<1>27. ASSUME NEW ok \in BOOLEAN, SendFront(ok) PROVE IInv'
  <2>c. cnt' \in [Counters -> Nat]
    BY <1>27, AnswerCounted DEF IInv
  <2> USE <1>27 DEF IInv, SendFront, Answer
  <2>d. failedQ' \in Seq(Msg) /\ failCnt' \in Nat
    <3>1. cur \in Msg
      BY DEF FrontInv
    <3>2. CASE ok
      BY <3>2 DEF TypeOK
    <3>3. CASE ~ok
      <4>1. failedQ' = Append(failedQ, cur) /\ failCnt' = failCnt + 1
        BY <3>3
      <4>2. failedQ \in Seq(Msg) /\ failCnt \in Nat
        BY DEF TypeOK
      <4>3. QED
        BY <3>1, <4>1, <4>2, SeqTypes
    <3>4. QED
      BY <3>2, <3>3
  <2>e. acked' \subseteq Msg
    BY DEF TypeOK
  <2>1. TypeOK'
    BY <2>c, <2>d, <2>e DEF TypeOK, FrontInv, Actors, Content, PLabels, ULabels
  <2>2. LockInv'
    BY DEF TypeOK, LockInv, Actors
  <2>3. SleepInv'
    BY DEF TypeOK, LockInv, SleepInv, NoLostWakeup, WakesToWork
  <2>4. BacklogInv'
    BY DEF TypeOK, LockInv, BacklogInv, BacklogBounded, Pushing
  <2>5. FrontInv'
    BY DEF TypeOK, LockInv, FrontInv, PopsWhatItSent, Pushing
  <2>6. QED
    BY <2>1, <2>2, <2>3, <2>4, <2>5 DEF IInv
<1>28. ASSUME NEW ok \in BOOLEAN, RetryFailed(ok) PROVE IInv'
  <2>c. cnt' \in [Counters -> Nat]
    BY <1>28, AnswerCounted DEF IInv
  <2> USE <1>28 DEF IInv, RetryFailed, Answer
  <2>d. failedQ' \in Seq(Msg)
    <3>1. CASE ok
      BY <3>1 DEF TypeOK
    <3>2. CASE ~ok
      <4>1. failedQ' = Tail(failedQ) /\ failedQ # <<>>
        BY <3>2
      <4>2. failedQ \in Seq(Msg)
        BY DEF TypeOK
      <4>3. QED
        BY <4>1, <4>2, SeqTypes
    <3>3. QED
      BY <3>1, <3>2
  <2>e. acked' \subseteq Msg
    BY DEF TypeOK
  <2>1. TypeOK'
    BY <2>c, <2>d, <2>e DEF TypeOK, Actors, Content, PLabels, ULabels
  <2>2. LockInv'
    BY DEF TypeOK, LockInv, Actors
  <2>3. SleepInv'
    BY DEF TypeOK, LockInv, SleepInv, NoLostWakeup, WakesToWork
  <2>4. BacklogInv'
    BY DEF TypeOK, LockInv, BacklogInv, BacklogBounded, Pushing
  <2>5. FrontInv'
    BY DEF TypeOK, LockInv, FrontInv, PopsWhatItSent, Pushing
  <2>6. QED
    BY <2>1, <2>2, <2>3, <2>4, <2>5 DEF IInv
<1>29. ASSUME Restart PROVE IInv'
  BY <1>29, RestartIInv DEF IInv
<1>30. CASE UNCHANGED vars
  BY <1>30 DEF IInv, TypeOK, LockInv, SleepInv, NoLostWakeup, WakesToWork, BacklogInv,
     BacklogBounded, FrontInv, PopsWhatItSent, Pushing, vars
<1>31. QED
  BY <1>1, <1>2, <1>3, <1>4, <1>5, <1>6, <1>7, <1>8, <1>9, <1>10, <1>11, <1>12, <1>13, <1>14, <1>15, <1>16, <1>17, <1>18, <1>19, <1>20, <1>21, <1>22, <1>23, <1>24, <1>25, <1>26, <1>27, <1>28, <1>29, <1>30
  DEF Next, ProducerStep, UploaderStep, Crash, OverflowAbort, SaveFailedAbort, RenameFails

(* Every state of the uploader satisfies the inductive invariant.          *)
THEOREM Invariance == Spec => []IInv
  BY InitIInv, StepIInv, PTL DEF Spec

(* Every variable of the uploader keeps its type.                          *)
THEOREM TypeCorrect == Spec => []TypeOK
<1>1. IInv => TypeOK
  BY DEF IInv
<1>2. QED
  BY <1>1, Invariance, PTL

(* No producer's wake-up is lost by the two-mutex hand-shake: an uploader  *)
(* asleep on a locked resmt_ has an empty queue, or its waker is about to  *)
(* unlock resmt_; and after a wake-up there is work.                       *)
THEOREM WakeUps == Spec => [](NoLostWakeup /\ WakesToWork)
<1>1. IInv => NoLostWakeup /\ WakesToWork
  BY DEF IInv, SleepInv
<1>2. QED
  BY <1>1, Invariance, PTL

(* The uploader never waits for resmt_ while holding qmt_.                 *)
THEOREM NoHoldAndWait == Spec => []NeverSleepsHoldingQueue
<1>1. IInv => NeverSleepsHoldingQueue
  BY DEF IInv, LockInv, NeverSleepsHoldingQueue
<1>2. QED
  BY <1>1, Invariance, PTL

(* Both in-memory queues are bounded by the thresholds of the code.        *)
THEOREM Bounded == Spec => []BacklogBounded
<1>1. IInv => BacklogBounded
  BY DEF IInv, BacklogInv
<1>2. QED
  BY <1>1, Invariance, PTL

(* The pop removes the message that was sent, whatever producers did       *)
(* between the unlocked read of the front and the pop.                     *)
THEOREM FrontIsStable == Spec => []PopsWhatItSent
<1>1. IInv => PopsWhatItSent
  BY DEF IInv, FrontInv
<1>2. QED
  BY <1>1, Invariance, PTL
-----------------------------------------------------------------------------
(* WHAT IS KEPT: the uploader implements StoreForward.                     *)

InFailed(m) == m \in Range(failedQ)
InQueue(m) == m \in Range(q)
InHand(m) == m \in Range(hand)

(* A sequence without repetitions.                                         *)
Distinct(s) == \A i, j \in 1 .. Len(s) : s[i] = s[j] => i = j

(* A producer has its message in hand until it has put it somewhere, and   *)
(* nobody else has it.                                                     *)
HandsInv ==
  /\ \A p \in Producers :
       pp[p] \notin {"lock", "enqueue", "save", "rename"} => hand[p] = None
  /\ \A p, r \in Producers : hand[p] = hand[r] /\ hand[p] # None => p = r

(* In memory a message is in one place; only between a failed upload and   *)
(* the pop it is in failed_q and still the front of q_ (or on its way      *)
(* there).                                                                 *)
PlacesInv ==
  /\ Distinct(q) /\ Distinct(failedQ)
  /\ \A m \in Msg :
       /\ InFailed(m) \/ InQueue(m) \/ InHand(m) => m \in accepted
       /\ ~(InQueue(m) /\ InHand(m))
       /\ InFailed(m) /\ (InQueue(m) \/ InHand(m)) => up = "pop" /\ cur = m
  /\ \A p \in Producers : hand[p] # None /\ InFailed(hand[p]) => pp[p] = "enqueue"

(* A message about to be popped was acknowledged or is kept in failed_q.   *)
AckInv ==
  /\ up = "start" => back = "lock"
  /\ up = "retry" \/ (up \in {"list", "resend", "remove"} /\ back = "pop") => cur \in acked
  /\ up = "pop" => cur \in acked \/ InFailed(cur)

(* Who has a time stamp.                                                   *)
NamesInv ==
  /\ \A p \in Producers : IF pp[p] = "rename" THEN stamp[p] \in Stamps ELSE stamp[p] = None
  /\ IF up \in {"stamp", "remove"} THEN stamp[Uploader] \in Stamps
                                   ELSE stamp[Uploader] = None

(* The file a save is writing holds its message unless the save is         *)
(* spoiled; and a save that shares its name with a completed file or with  *)
(* another save is spoiled, with the content of both files.                *)
SaveInv(t, a) ==
  /\ \/ dat[t] \in {None, Saved(a)}
     \/ Saved(a) \in spoiled /\ dat[t] \in spoiled \cup {Torn}
  /\ over[t] # None \/ Savers(t) # {a} =>
       /\ Saved(a) \in spoiled
       /\ over[t] \in spoiled \cup {None, Torn}
       /\ dat[t] \in spoiled \cup {None, Torn}

SavesInv == \A t \in Stamps : \A a \in Savers(t) : SaveInv(t, a)

(* What is on disk was handed over; a listed file is there; and the file   *)
(* about to be removed was acknowledged, or took the place of another.     *)
FilesInv ==
  /\ spoiled \subseteq accepted
  /\ \A t \in Stamps : {dat[t], over[t]} \subseteq accepted \cup {None, Torn}
  /\ \A t \in files : over[t] # None
  /\ up = "remove" => over[stamp[Uploader]] \in acked \cup spoiled \cup {Torn}

(* A message that is on disk and not spoiled is in one file and nowhere    *)
(* in memory.                                                              *)
ApartInv ==
  \A m \in Msg \ spoiled :
    /\ InFile(m) => ~InFailed(m) /\ ~InQueue(m) /\ ~InHand(m)
    /\ \A t, u \in Stamps : over[t] = m /\ over[u] = m => t = u

MInv == IInv /\ HandsInv /\ PlacesInv /\ AckInv
KInv == MInv /\ NamesInv /\ SavesInv /\ FilesInv /\ ApartInv

(* Adding a message to a sequence without repetitions, and removing one.   *)
LEMMA AppendMessage ==
  ASSUME NEW s \in Seq(Msg), NEW m \in Msg
  PROVE  /\ \A x : x \in Range(Append(s, m)) <=> x \in Range(s) \/ x = m
         /\ Distinct(s) /\ m \notin Range(s) => Distinct(Append(s, m))
<1> DEFINE t == Append(s, m)
<1>1. /\ DOMAIN s = 1 .. Len(s) /\ DOMAIN t = 1 .. Len(s) + 1 /\ Len(s) \in Nat
      /\ Len(t) = Len(s) + 1
      /\ \A i \in 1 .. Len(s) : t[i] = s[i]
      /\ t[Len(s) + 1] = m
  OBVIOUS
<1> HIDE DEF t
<1>2. ASSUME NEW x PROVE x \in Range(t) <=> x \in Range(s) \/ x = m
  <2>1. x \in Range(s) <=> \E i \in 1 .. Len(s) : s[i] = x
    BY <1>1 DEF Range
  <2>2. x \in Range(t) <=> \E i \in 1 .. Len(s) + 1 : t[i] = x
    BY <1>1 DEF Range
  <2>3. QED
    BY <1>1, <2>1, <2>2
<1>3. Distinct(s) /\ m \notin Range(s) => Distinct(t)
  BY <1>1 DEF Range, Distinct
<1>4. QED
  BY <1>2, <1>3 DEF t

LEMMA RemoveHead ==
  ASSUME NEW s \in Seq(Msg), s # <<>>, Distinct(s)
  PROVE  /\ Head(s) \in Range(s)
         /\ \A x : x \in Range(Tail(s)) <=> x \in Range(s) /\ x # Head(s)
         /\ Distinct(Tail(s))
<1>1. /\ Tail(s) \in Seq(Msg) /\ Len(Tail(s)) = Len(s) - 1
      /\ \A i \in 1 .. Len(s) - 1 : Tail(s)[i] = s[i + 1]
      /\ Len(s) \in Nat \ {0} /\ Head(s) = s[1]
  OBVIOUS
<1>2. Head(s) \in Range(s)
  BY <1>1 DEF Range
<1>3. Distinct(Tail(s))
  BY <1>1 DEF Distinct
<1>4. ASSUME NEW x \in Range(Tail(s)) PROVE x \in Range(s) /\ x # Head(s)
  <2>1. PICK i \in 1 .. Len(s) - 1 : x = s[i + 1]
    BY <1>1 DEF Range
  <2>2. i + 1 \in 1 .. Len(s) /\ i + 1 # 1
    BY <1>1
  <2>3. QED
    BY <1>1, <2>1, <2>2 DEF Range, Distinct
<1>5. ASSUME NEW x \in Range(s), x # Head(s) PROVE x \in Range(Tail(s))
  <2>1. PICK i \in 1 .. Len(s) : x = s[i]
    BY DEF Range
  <2>2. i - 1 \in 1 .. Len(s) - 1
    BY <1>1, <1>5, <2>1
  <2>3. Tail(s)[i - 1] = x
    BY <1>1, <2>1, <2>2
  <2>4. i - 1 \in DOMAIN Tail(s)
    BY <1>1, <2>2
  <2>5. QED
    BY <2>3, <2>4, Zenon DEF Range
<1>6. QED
  BY <1>2, <1>3, <1>4, <1>5

(* None is not a message.                                                  *)
LEMMA NoneIsNoMessage == None \notin Msg
  BY ParamAssumption

(* Who has something in hand has a message in hand.                        *)
LEMMA HandHolds ==
  ASSUME hand \in [Producers -> Msg \cup {None}], NEW p \in Producers
  PROVE  hand[p] # None => hand[p] \in Msg /\ InHand(hand[p])
  BY DEF InHand, Range
(* A producer takes a message in hand or puts it down.                     *)
LEMMA HandChanges ==
  ASSUME hand \in [Producers -> Msg \cup {None}], HandsInv,
         hand' \in [Producers -> Msg \cup {None}],
         NEW p \in Producers, \A r \in Producers : r # p => hand'[r] = hand[r]
  PROVE  \A x \in Msg : InHand(x)' <=> x = hand'[p] \/ (InHand(x) /\ x # hand[p])
<1>1. ASSUME NEW x \in Msg
      PROVE  /\ InHand(x) <=> \E a \in Producers : hand[a] = x
             /\ InHand(x)' <=> \E a \in Producers : hand'[a] = x
  BY DEF InHand, Range
<1>2. QED
  BY <1>1, NoneIsNoMessage DEF HandsInv

(* A file is completed or removed.                                         *)
LEMMA FileChanges ==
  ASSUME over \in [Stamps -> Content], over' \in [Stamps -> Content],
         NEW t \in Stamps, \A u \in Stamps : u # t => over'[u] = over[u]
  PROVE  \A x \in Msg :
           /\ InFile(x)' => x = over'[t] \/ InFile(x)
           /\ x = over'[t] => InFile(x)'
           /\ InFile(x) /\ x # over[t] => InFile(x)'
<1>1. ASSUME NEW x \in Msg
      PROVE  /\ InFile(x) <=> \E a \in Stamps : over[a] = x
             /\ InFile(x)' <=> \E a \in Stamps : over'[a] = x
  BY DEF InFile, Range
<1>2. QED
  BY <1>1

(* What has been appended to failed_q, and what is left of it.             *)
LEMMA FailedGrows ==
  ASSUME failedQ \in Seq(Msg), NEW m \in Msg, failedQ' = Append(failedQ, m),
         Distinct(failedQ), ~InFailed(m)
  PROVE  Distinct(failedQ') /\ \A x : InFailed(x)' <=> InFailed(x) \/ x = m
  BY AppendMessage DEF InFailed

LEMMA FailedShrinks ==
  ASSUME failedQ \in Seq(Msg), failedQ # <<>>, failedQ' = Tail(failedQ),
         Distinct(failedQ)
  PROVE  /\ InFailed(Head(failedQ)) /\ Distinct(failedQ')
         /\ \A x : InFailed(x)' <=> InFailed(x) /\ x # Head(failedQ)
  BY RemoveHead DEF InFailed

(* The message being sent is the front of the queue or is being pushed as  *)
(* its front, and has not failed before.                                   *)
LEMMA FrontIsSomewhere ==
  ASSUME MInv, up = "send"
  PROVE  cur \in Msg /\ (InQueue(cur) \/ InHand(cur)) /\ ~InFailed(cur)
<1> USE DEF MInv
<1>1. cur \in Msg
  BY DEF IInv, FrontInv
<1>2. CASE q # <<>>
  BY <1>1, <1>2, RemoveHead, NoneIsNoMessage
  DEF IInv, TypeOK, FrontInv, PopsWhatItSent, PlacesInv, InQueue
<1>3. CASE q = <<>>
  BY <1>1, <1>3, HandHolds, NoneIsNoMessage
  DEF IInv, TypeOK, FrontInv, PopsWhatItSent, PlacesInv, Pushing
<1>4. QED
  BY <1>2, <1>3

(* Every step keeps the part of MInv that is about memory, one action at a *)
(* time: what it does to the hands, the places of the messages and the     *)
(* acknowledged.                                                           *)
LEMMA StepMInv == MInv /\ [Next]_vars => MInv'
<1> SUFFICES ASSUME MInv, [Next]_vars PROVE MInv'
  OBVIOUS
<1>0. IInv'
  BY StepIInv DEF MInv
<1> USE ParamAssumption DEF producerVars, localVars, disk, history, MInv
<1>1. ASSUME NEW p \in Producers, NEW m \in Msg, Submit(p, m) PROVE MInv'
  <2> USE <1>1 DEF Submit
  <2>0. hand[p] = None /\ ~InHand(m) /\ \A r \in Producers : hand[r] # m
    BY DEF IInv, TypeOK, HandsInv, PlacesInv, InHand, Range
  <2>1. HandsInv'
    BY <2>0 DEF IInv, TypeOK, HandsInv
  <2>2. PlacesInv'
    <3>0. /\ hand' \in [Producers -> Msg \cup {None}] /\ hand'[p] = m
          /\ \A r \in Producers : r # p => hand'[r] = hand[r]
      BY DEF IInv, TypeOK
    <3>1. \A x \in Msg : InHand(x)' <=> x = m \/ InHand(x)
      BY <2>0, <3>0, HandChanges, NoneIsNoMessage DEF IInv, TypeOK
    <3>2. QED
      BY <2>0, <3>1 DEF IInv, TypeOK, HandsInv, PlacesInv, InFailed, InQueue
  <2>3. AckInv'
    BY DEF IInv, TypeOK, AckInv, InFailed
  <2>4. QED
    BY <1>0, <2>1, <2>2, <2>3
<1>2. ASSUME NEW p \in Producers, ProducerLock(p) PROVE MInv'
  <2> USE <1>2 DEF ProducerLock, BacklogFull
  <2>1. HandsInv'
    BY DEF IInv, TypeOK, HandsInv
  <2>2. PlacesInv'
    BY DEF IInv, TypeOK, LockInv, PlacesInv, InFailed, InQueue, InHand
  <2>3. AckInv'
    BY DEF IInv, TypeOK, AckInv, InFailed
  <2>4. QED
    BY <1>0, <2>1, <2>2, <2>3
<1>3. ASSUME NEW p \in Producers, Enqueue(p) PROVE MInv'
  <2> USE <1>3 DEF Enqueue
  <2>1. HandsInv'
    BY DEF IInv, TypeOK, HandsInv
  <2>2. PlacesInv'
    <3> DEFINE m == hand[p]
    <3>1. m \in Msg /\ InHand(m)
      BY HandHolds DEF IInv, TypeOK, FrontInv
    <3>0. /\ hand' \in [Producers -> Msg \cup {None}] /\ hand'[p] = None
          /\ \A r \in Producers : r # p => hand'[r] = hand[r]
      BY DEF IInv, TypeOK
    <3>2. \A x \in Msg : InHand(x)' <=> InHand(x) /\ x # m
      BY <3>0, HandChanges, NoneIsNoMessage DEF IInv, TypeOK
    <3>3. /\ \A x \in Msg : InQueue(x)' <=> InQueue(x) \/ x = m
          /\ Distinct(q')
      BY <3>1, AppendMessage DEF IInv, TypeOK, PlacesInv, InQueue
    <3>4. QED
      BY <3>1, <3>2, <3>3 DEF IInv, TypeOK, HandsInv, PlacesInv, InFailed
  <2>3. AckInv'
    BY DEF IInv, TypeOK, AckInv, InFailed
  <2>4. QED
    BY <1>0, <2>1, <2>2, <2>3
<1>4. ASSUME NEW p \in Producers, OverflowSave(p) PROVE MInv'
  <2> USE <1>4 DEF OverflowSave, WriteFile
  <2>1. HandsInv'
    BY DEF IInv, TypeOK, HandsInv
  <2>2. PlacesInv'
    BY DEF IInv, TypeOK, LockInv, PlacesInv, InFailed, InQueue, InHand
  <2>3. AckInv'
    BY DEF IInv, TypeOK, AckInv, InFailed
  <2>4. QED
    BY <1>0, <2>1, <2>2, <2>3
<1>5. ASSUME NEW p \in Producers, OverflowComplete(p) PROVE MInv'
  <2> USE <1>5 DEF OverflowComplete, CompleteFile
  <2>1. HandsInv'
    BY DEF IInv, TypeOK, HandsInv
  <2>2. PlacesInv'
    <3>0. /\ hand' \in [Producers -> Msg \cup {None}] /\ hand'[p] = None
          /\ \A r \in Producers : r # p => hand'[r] = hand[r]
      BY DEF IInv, TypeOK
    <3>1. \A x \in Msg : InHand(x)' <=> InHand(x) /\ x # hand[p]
      BY <3>0, HandChanges, NoneIsNoMessage DEF IInv, TypeOK
    <3>2. QED
      BY <3>1 DEF IInv, TypeOK, HandsInv, PlacesInv, InFailed, InQueue
  <2>3. AckInv'
    BY DEF IInv, TypeOK, AckInv, InFailed
  <2>4. QED
    BY <1>0, <2>1, <2>2, <2>3
<1>6. ASSUME NEW p \in Producers, Signal(p) PROVE MInv'
  <2> USE <1>6 DEF Signal
  <2>1. HandsInv'
    BY DEF IInv, TypeOK, HandsInv
  <2>2. PlacesInv'
    BY DEF IInv, TypeOK, LockInv, PlacesInv, InFailed, InQueue, InHand
  <2>3. AckInv'
    BY DEF IInv, TypeOK, AckInv, InFailed
  <2>4. QED
    BY <1>0, <2>1, <2>2, <2>3
<1>7. ASSUME NEW p \in Producers, ProducerUnlock(p) PROVE MInv'
  <2> USE <1>7 DEF ProducerUnlock
  <2>1. HandsInv'
    BY DEF IInv, TypeOK, HandsInv
  <2>2. PlacesInv'
    BY DEF IInv, TypeOK, LockInv, PlacesInv, InFailed, InQueue, InHand
  <2>3. AckInv'
    BY DEF IInv, TypeOK, AckInv, InFailed
  <2>4. QED
    BY <1>0, <2>1, <2>2, <2>3
<1>8. ASSUME RemoveUnfinished PROVE MInv'
  <2> USE <1>8 DEF RemoveUnfinished
  <2>1. HandsInv'
    BY DEF IInv, TypeOK, HandsInv
  <2>2. PlacesInv'
    BY DEF IInv, TypeOK, LockInv, PlacesInv, InFailed, InQueue, InHand
  <2>3. AckInv'
    BY DEF AckInv
  <2>4. QED
    BY <1>0, <2>1, <2>2, <2>3
<1>9. ASSUME ListFiles PROVE MInv'
  <2> USE <1>9 DEF ListFiles, Completed
  <2>1. HandsInv'
    BY DEF IInv, TypeOK, HandsInv
  <2>2. PlacesInv'
    BY DEF IInv, TypeOK, LockInv, PlacesInv, InFailed, InQueue, InHand
  <2>3. AckInv'
    BY DEF IInv, TypeOK, AckInv, InFailed
  <2>4. QED
    BY <1>0, <2>1, <2>2, <2>3
<1>10. ASSUME ResendDone PROVE MInv'
  <2> USE <1>10 DEF ResendDone
  <2>1. HandsInv'
    BY DEF IInv, TypeOK, HandsInv
  <2>2. PlacesInv'
    BY DEF IInv, TypeOK, LockInv, PlacesInv, InFailed, InQueue, InHand
  <2>3. AckInv'
    BY DEF IInv, TypeOK, AckInv, InFailed
  <2>4. QED
    BY <1>0, <2>1, <2>2, <2>3
<1>11. ASSUME RemoveFile PROVE MInv'
  <2> USE <1>11 DEF RemoveFile
  <2>1. HandsInv'
    BY DEF IInv, TypeOK, HandsInv
  <2>2. PlacesInv'
    BY DEF IInv, TypeOK, LockInv, PlacesInv, InFailed, InQueue, InHand
  <2>3. AckInv'
    BY DEF IInv, TypeOK, AckInv, InFailed
  <2>4. QED
    BY <1>0, <2>1, <2>2, <2>3
<1>12. ASSUME NEW t \in Stamps, NEW ok \in BOOLEAN, ResendFile(t, ok) PROVE MInv'
  <2> USE <1>12 DEF ResendFile, Answer
  <2>1. HandsInv'
    BY DEF IInv, TypeOK, HandsInv
  <2>2. PlacesInv'
    BY DEF IInv, TypeOK, LockInv, PlacesInv, InFailed, InQueue, InHand
  <2>3. AckInv'
    BY DEF IInv, TypeOK, AckInv, InFailed
  <2>4. QED
    BY <1>0, <2>1, <2>2, <2>3
<1>13. ASSUME LockQueue PROVE MInv'
  <2> USE <1>13 DEF LockQueue
  <2>1. HandsInv'
    BY DEF IInv, TypeOK, HandsInv
  <2>2. PlacesInv'
    BY DEF IInv, TypeOK, LockInv, PlacesInv, InFailed, InQueue, InHand
  <2>3. AckInv'
    BY DEF IInv, TypeOK, AckInv, InFailed
  <2>4. QED
    BY <1>0, <2>1, <2>2, <2>3
<1>14. ASSUME LockResend PROVE MInv'
  <2> USE <1>14 DEF LockResend
  <2>1. HandsInv'
    BY DEF IInv, TypeOK, HandsInv
  <2>2. PlacesInv'
    BY DEF IInv, TypeOK, LockInv, PlacesInv, InFailed, InQueue, InHand
  <2>3. AckInv'
    BY DEF IInv, TypeOK, AckInv, InFailed
  <2>4. QED
    BY <1>0, <2>1, <2>2, <2>3
<1>15. ASSUME LookAtQueue PROVE MInv'
  <2> USE <1>15 DEF LookAtQueue
  <2>1. HandsInv'
    BY DEF IInv, TypeOK, HandsInv
  <2>2. PlacesInv'
    BY DEF IInv, TypeOK, LockInv, PlacesInv, InFailed, InQueue, InHand
  <2>3. AckInv'
    BY DEF IInv, TypeOK, AckInv, InFailed
  <2>4. QED
    BY <1>0, <2>1, <2>2, <2>3
<1>16. ASSUME Sleep PROVE MInv'
  <2> USE <1>16 DEF Sleep
  <2>1. HandsInv'
    BY DEF IInv, TypeOK, HandsInv
  <2>2. PlacesInv'
    BY DEF IInv, TypeOK, LockInv, PlacesInv, InFailed, InQueue, InHand
  <2>3. AckInv'
    BY DEF IInv, TypeOK, AckInv, InFailed
  <2>4. QED
    BY <1>0, <2>1, <2>2, <2>3
<1>17. ASSUME CheckWoken PROVE MInv'
  <2> USE <1>17 DEF CheckWoken
  <2>1. HandsInv'
    BY DEF HandsInv
  <2>2. PlacesInv'
    BY DEF IInv, TypeOK, LockInv, PlacesInv, InFailed, InQueue, InHand
  <2>3. AckInv'
    BY DEF IInv, TypeOK, AckInv, InFailed
  <2>4. QED
    BY <1>0, <2>1, <2>2, <2>3
<1>18. ASSUME UnlockResend PROVE MInv'
  <2> USE <1>18 DEF UnlockResend
  <2>1. HandsInv'
    BY DEF IInv, TypeOK, HandsInv
  <2>2. PlacesInv'
    BY DEF IInv, TypeOK, LockInv, PlacesInv, InFailed, InQueue, InHand
  <2>3. AckInv'
    BY DEF IInv, TypeOK, AckInv, InFailed
  <2>4. QED
    BY <1>0, <2>1, <2>2, <2>3
<1>19. ASSUME SeeWork PROVE MInv'
  <2> USE <1>19 DEF SeeWork, Pushing
  <2>1. HandsInv'
    BY DEF IInv, TypeOK, HandsInv
  <2>2. PlacesInv'
    BY DEF IInv, TypeOK, LockInv, PlacesInv, InFailed, InQueue, InHand
  <2>3. AckInv'
    BY DEF IInv, TypeOK, AckInv, InFailed
  <2>4. QED
    BY <1>0, <2>1, <2>2, <2>3
<1>20. ASSUME SeeNoWork PROVE MInv'
  <2> USE <1>20 DEF SeeNoWork, Pushing
  <2>1. HandsInv'
    BY DEF IInv, TypeOK, HandsInv
  <2>2. PlacesInv'
    BY DEF IInv, TypeOK, LockInv, PlacesInv, InFailed, InQueue, InHand
  <2>3. AckInv'
    BY DEF IInv, TypeOK, AckInv, InFailed
  <2>4. QED
    BY <1>0, <2>1, <2>2, <2>3
<1>21. ASSUME PopFront PROVE MInv'
  <2> USE <1>21 DEF PopFront
  <2>0. q # <<>> /\ Head(q) = cur
    BY DEF IInv, FrontInv, LockInv, PopsWhatItSent, Pushing
  <2>1. HandsInv'
    BY DEF IInv, TypeOK, HandsInv
  <2>2. PlacesInv'
    <3>1. /\ \A x : InQueue(x)' <=> InQueue(x) /\ x # cur
          /\ Distinct(q')
      BY <2>0, RemoveHead DEF IInv, TypeOK, PlacesInv, InQueue
    <3>2. \A p \in Producers : pp[p] # "enqueue"
      BY DEF IInv, LockInv
    <3>3. InQueue(cur)
      BY <2>0, RemoveHead DEF IInv, TypeOK, PlacesInv, InQueue
    <3>4. cur \in Msg
      BY DEF IInv, FrontInv
    <3>5. QED
      BY <3>1, <3>2, <3>3, <3>4 DEF PlacesInv, InFailed, InHand
  <2>3. AckInv'
    BY DEF IInv, TypeOK, AckInv, InFailed
  <2>4. QED
    BY <1>0, <2>1, <2>2, <2>3
<1>22. ASSUME NEW ok \in BOOLEAN, SendFront(ok) PROVE MInv'
  <2> USE <1>22 DEF SendFront, Answer
  <2>0. cur \in Msg /\ (InQueue(cur) \/ InHand(cur)) /\ ~InFailed(cur)
    BY FrontIsSomewhere
  <2>a. acked' = IF ok THEN acked \cup {cur} ELSE acked
    BY <2>0
  <2>1. HandsInv'
    BY DEF IInv, TypeOK, HandsInv
  <2>2. PlacesInv'
    <3>1. CASE ok
      BY <3>1 DEF PlacesInv, InFailed, InQueue, InHand
    <3>2. CASE ~ok
      <4>1. /\ \A x : InFailed(x)' <=> InFailed(x) \/ x = cur
            /\ Distinct(failedQ')
        BY <2>0, <3>2, FailedGrows DEF IInv, TypeOK, PlacesInv
      <4>2. ASSUME NEW p \in Producers, hand[p] = cur PROVE pp[p] = "enqueue"
        <5>1. InHand(cur)
          BY <2>0, <4>2, NoneIsNoMessage, HandHolds DEF IInv, TypeOK
        <5>2. q = <<>>
          BY <2>0, <5>1, RemoveHead DEF IInv, TypeOK, FrontInv, PopsWhatItSent, PlacesInv, InQueue
        <5>3. QED
          BY <2>0, <4>2, <5>2, NoneIsNoMessage
          DEF IInv, FrontInv, PopsWhatItSent, HandsInv, Pushing
      <4>3. QED
        BY <2>0, <3>2, <4>1, <4>2 DEF PlacesInv, InQueue, InHand
    <3>3. QED
      BY <3>1, <3>2
  <2>3. AckInv'
    <3>1. CASE ok
      BY <2>a, <3>1 DEF AckInv
    <3>2. CASE ~ok
      BY <2>0, <3>2, AppendMessage DEF IInv, TypeOK, AckInv, InFailed
    <3>3. QED
      BY <3>1, <3>2
  <2>4. QED
    BY <1>0, <2>1, <2>2, <2>3
<1>23. ASSUME NEW ok \in BOOLEAN, RetryFailed(ok) PROVE MInv'
  <2> USE <1>23 DEF RetryFailed, Answer
  <2>1. HandsInv'
    BY DEF IInv, TypeOK, HandsInv
  <2>2. PlacesInv'
    <3>1. CASE ok
      BY <3>1 DEF PlacesInv, InFailed, InQueue, InHand
    <3>2. CASE ~ok
      <4>1. /\ \A x : InFailed(x)' <=> InFailed(x) /\ x # Head(failedQ)
            /\ Distinct(failedQ')
        BY <3>2, FailedShrinks DEF IInv, TypeOK, PlacesInv
      <4>2. QED
        BY <3>2, <4>1 DEF PlacesInv, InQueue, InHand
    <3>3. QED
      BY <3>1, <3>2
  <2>3. AckInv'
    BY DEF AckInv
  <2>4. QED
    BY <1>0, <2>1, <2>2, <2>3
<1>24. ASSUME RetryDone PROVE MInv'
  <2> USE <1>24 DEF RetryDone
  <2>1. HandsInv'
    BY DEF IInv, TypeOK, HandsInv
  <2>2. PlacesInv'
    BY DEF IInv, TypeOK, LockInv, PlacesInv, InFailed, InQueue, InHand
  <2>3. AckInv'
    BY DEF AckInv
  <2>4. QED
    BY <1>0, <2>1, <2>2, <2>3
<1>25. ASSUME SaveFailed PROVE MInv'
  <2> USE <1>25 DEF SaveFailed, WriteFile
  <2>1. HandsInv'
    BY DEF IInv, TypeOK, HandsInv
  <2>2. PlacesInv'
    BY DEF IInv, TypeOK, LockInv, PlacesInv, InFailed, InQueue, InHand
  <2>3. AckInv'
    BY DEF IInv, TypeOK, AckInv, InFailed
  <2>4. QED
    BY <1>0, <2>1, <2>2, <2>3
<1>26. ASSUME SaveFailedComplete PROVE MInv'
  <2> USE <1>26 DEF SaveFailedComplete, CompleteFile
  <2>0. failedQ # <<>>
    BY DEF IInv, BacklogInv
  <2>a. /\ \A x : InFailed(x)' <=> InFailed(x) /\ x # Head(failedQ)
        /\ Distinct(failedQ')
    BY <2>0, FailedShrinks DEF IInv, TypeOK, PlacesInv
  <2>1. HandsInv'
    BY DEF IInv, TypeOK, HandsInv
  <2>2. PlacesInv'
    BY <2>a DEF PlacesInv, InQueue, InHand
  <2>3. AckInv'
    BY DEF IInv, TypeOK, AckInv, InFailed
  <2>4. QED
    BY <1>0, <2>1, <2>2, <2>3
<1>27. ASSUME BatchDone PROVE MInv'
  <2> USE <1>27 DEF BatchDone
  <2>1. HandsInv'
    BY DEF IInv, TypeOK, HandsInv
  <2>2. PlacesInv'
    BY DEF IInv, TypeOK, LockInv, PlacesInv, InFailed, InQueue, InHand
  <2>3. AckInv'
    BY DEF IInv, TypeOK, AckInv, InFailed
  <2>4. QED
    BY <1>0, <2>1, <2>2, <2>3
<1>28. ASSUME ReportMetric PROVE MInv'
  <2> USE <1>28 DEF ReportMetric
  <2>1. HandsInv'
    BY DEF IInv, TypeOK, HandsInv
  <2>2. PlacesInv'
    BY DEF IInv, TypeOK, LockInv, PlacesInv, InFailed, InQueue, InHand
  <2>3. AckInv'
    BY DEF IInv, TypeOK, AckInv, InFailed
  <2>4. QED
    BY <1>0, <2>1, <2>2, <2>3
<1>29. ASSUME Restart PROVE MInv'
  <2> USE <1>29 DEF Restart
  <2>1. HandsInv'
    BY DEF IInv, TypeOK, HandsInv
  <2>2. PlacesInv'
    <3>1. \A x \in Msg : ~InHand(x)' /\ ~InQueue(x)' /\ ~InFailed(x)'
      BY NoneIsNoMessage DEF InHand, InQueue, InFailed, Range
    <3>2. Distinct(q') /\ Distinct(failedQ')
      BY DEF Distinct
    <3>3. QED
      BY <3>1, <3>2 DEF PlacesInv
  <2>3. AckInv'
    BY DEF IInv, TypeOK, AckInv, InFailed
  <2>4. QED
    BY <1>0, <2>1, <2>2, <2>3
<1>30. CASE UNCHANGED vars
  BY <1>0, <1>30 DEF vars, IInv, TypeOK, HandsInv, PlacesInv, AckInv,
     InFailed, InQueue, InHand
<1>31. QED
  BY <1>1, <1>2, <1>3, <1>4, <1>5, <1>6, <1>7, <1>8, <1>9, <1>10, <1>11,
     <1>12, <1>13, <1>14, <1>15, <1>16, <1>17, <1>18, <1>19, <1>20, <1>21,
     <1>22, <1>23, <1>24, <1>25, <1>26, <1>27, <1>28, <1>29, <1>30
  DEF Next, ProducerStep, UploaderStep, Crash, OverflowAbort, SaveFailedAbort, RenameFails
-----------------------------------------------------------------------------
(* The disk: what a save, a completion and every other step does to the    *)
(* files and the names in use.                                             *)

(* Who is saving is saving a message of its own that was handed over.      *)
LEMMA SaverHas ==
  ASSUME MInv, NamesInv, NEW t \in Stamps, NEW a \in Savers(t)
  PROVE  /\ a \in Actors /\ stamp[a] = t
         /\ Saved(a) \in Msg /\ Saved(a) \in accepted
         /\ \/ a = Uploader /\ up = "stamp" /\ InFailed(Saved(a))
            \/ a \in Producers /\ pp[a] = "rename" /\ InHand(Saved(a))
<1>1. a \in Actors /\ stamp[a] = t /\ ~(a = Uploader /\ up = "remove")
  BY DEF Savers
<1>2. CASE a = Uploader
  <2>1. up = "stamp"
    BY <1>1, <1>2, ParamAssumption DEF NamesInv, MInv, IInv, TypeOK
  <2>2. failedQ \in Seq(Msg) /\ failedQ # <<>>
    BY <2>1 DEF MInv, IInv, TypeOK, BacklogInv
  <2>3. Head(failedQ) \in Msg /\ InFailed(Head(failedQ))
    BY <2>2, RemoveHead, SeqTypes DEF MInv, PlacesInv, InFailed
  <2>4. QED
    BY <1>1, <1>2, <2>1, <2>3 DEF Saved, MInv, PlacesInv
<1>3. CASE a # Uploader
  <2>1. a \in Producers
    BY <1>1, <1>3 DEF Actors
  <2>2. pp[a] = "rename"
    BY <1>1, <2>1, ParamAssumption DEF NamesInv, MInv, IInv, TypeOK
  <2>3. hand[a] \in Msg /\ InHand(hand[a])
    BY <2>1, <2>2, HandHolds, NoneIsNoMessage DEF MInv, IInv, TypeOK, FrontInv
  <2>4. QED
    BY <1>1, <1>3, <2>1, <2>2, <2>3 DEF Saved, MInv, PlacesInv
<1>4. QED
  BY <1>2, <1>3

DiskInv == NamesInv /\ SavesInv /\ FilesInv /\ ApartInv

(* A step that leaves the files, the names and who saves what alone.       *)
LEMMA DiskSame ==
  ASSUME KInv, UNCHANGED <<dat, over, stamp, spoiled>>,
         accepted \subseteq accepted', acked \subseteq acked',
         files' \subseteq files \cup Completed,
         up' = up \/ {up, up'} \cap {"stamp", "remove"} = {},
         up = "stamp" => failedQ' = failedQ,
         \A p \in Producers : /\ pp'[p] = "rename" <=> pp[p] = "rename"
                              /\ pp[p] = "rename" => hand'[p] = hand[p],
         \A m \in Msg : InFailed(m)' \/ InQueue(m)' \/ InHand(m)' =>
                          InFailed(m) \/ InQueue(m) \/ InHand(m) \/ ~InFile(m)
  PROVE  DiskInv'
<1>1. NamesInv'
  BY DEF KInv, NamesInv
<1>2. ASSUME NEW t \in Stamps
      PROVE  Savers(t)' = Savers(t) /\ \A a \in Savers(t) : Saved(a)' = Saved(a)
  <2>1. Savers(t)' = Savers(t)
    BY ParamAssumption DEF Savers, KInv, NamesInv
  <2>2. ASSUME NEW a \in Savers(t) PROVE Saved(a)' = Saved(a)
    <3>1. (a = Uploader /\ up = "stamp") \/ (a \in Producers /\ pp[a] = "rename")
      <4>1. MInv /\ NamesInv
        BY DEF KInv
      <4>2. QED
        BY <2>2, <4>1, SaverHas
    <3>2. QED
      BY <3>1, ParamAssumption DEF Saved
  <2>3. QED
    BY <2>1, <2>2
<1>3. SavesInv'
  BY <1>2, Zenon DEF KInv, SavesInv, SaveInv
<1>4. FilesInv'
  BY DEF KInv, FilesInv, Completed
<1>5. ApartInv'
  <2>1. \A m \in Msg : InFile(m)' <=> InFile(m)
    BY DEF InFile
  <2>2. QED
    BY <2>1 DEF KInv, ApartInv
<1>6. QED
  BY <1>1, <1>3, <1>4, <1>5 DEF DiskInv

(* What a save may write, and whom it spoils.                              *)
LEMMA WriteDoes ==
  ASSUME KInv, NEW a \in Actors, NEW m \in accepted, WriteFile(a, m)
  PROVE  \E t \in Stamps :
           /\ stamp' = [stamp EXCEPT ![a] = t]
           /\ \A u \in Stamps : u # t => dat'[u] = dat[u]
           /\ dat'[t] \in {m, Torn, dat[t]}
           /\ spoiled \subseteq spoiled' /\ spoiled' \subseteq accepted
           /\ InUse(t) \/ dat'[t] # m =>
                /\ m \in spoiled'
                /\ {dat[t], over[t]} \subseteq spoiled' \cup {None, Torn}
                /\ \A b \in Savers(t) : Saved(b) \in spoiled'
           /\ spoiled' # spoiled => SameMs \/ DiskFaults
<1>1. PICK t \in Stamps :
        /\ SameMs \/ ~InUse(t)
        /\ stamp' = [stamp EXCEPT ![a] = t]
        /\ \/ /\ dat' = [dat EXCEPT ![t] = m]
              /\ spoiled' = spoiled \cup IF InUse(t) THEN Touched(t, m) ELSE {}
           \/ /\ DiskFaults
              /\ \/ dat' = [dat EXCEPT ![t] = Torn]
                 \/ UNCHANGED dat
              /\ spoiled' = spoiled \cup Touched(t, m)
  BY Zenon DEF WriteFile
<1>2. /\ dat \in [Stamps -> Content] /\ accepted \subseteq Msg /\ m \in Msg
      /\ spoiled \subseteq accepted
      /\ {dat[t], over[t]} \subseteq accepted \cup {None, Torn}
  BY DEF KInv, MInv, IInv, TypeOK, FilesInv
<1>3. \A b \in Savers(t) : Saved(b) \in accepted
  BY SaverHas DEF KInv
<1>4. /\ m \in Touched(t, m) /\ Touched(t, m) \subseteq accepted
      /\ {dat[t], over[t]} \subseteq Touched(t, m) \cup {None, Torn}
      /\ \A b \in Savers(t) : Saved(b) \in Touched(t, m)
  BY <1>2, <1>3, ParamAssumption DEF Touched
<1>5. /\ \A u \in Stamps : u # t => dat'[u] = dat[u]
      /\ dat'[t] \in {m, Torn, dat[t]}
  BY <1>1, <1>2
<1>6. spoiled' = spoiled \/ spoiled' = spoiled \cup Touched(t, m)
  BY <1>1
<1>7. spoiled \subseteq spoiled' /\ spoiled' \subseteq accepted
  BY <1>2, <1>4, <1>6
<1>8. ASSUME InUse(t) \/ dat'[t] # m PROVE spoiled' = spoiled \cup Touched(t, m)
  BY <1>1, <1>2, <1>8
<1>9. spoiled' # spoiled => SameMs \/ DiskFaults
  BY <1>1
<1>10. QED
  BY <1>1, <1>4, <1>5, <1>7, <1>8, <1>9

(* A save keeps what is known of the disk.                                 *)
LEMMA WriteKeeps ==
  ASSUME KInv, NEW a \in Actors, NEW m \in accepted, WriteFile(a, m),
         UNCHANGED <<over, files, acked, accepted, hand, failedQ, q>>,
         stamp[a] = None, Saved(a) = m,
         IF a = Uploader THEN up' = "stamp" /\ pp' = pp
                         ELSE up' = up /\ pp' = [pp EXCEPT ![a] = "rename"]
  PROVE  DiskInv'
<1>1. PICK t \in Stamps :
           /\ stamp' = [stamp EXCEPT ![a] = t]
           /\ \A u \in Stamps : u # t => dat'[u] = dat[u]
           /\ dat'[t] \in {m, Torn, dat[t]}
           /\ spoiled \subseteq spoiled' /\ spoiled' \subseteq accepted
           /\ InUse(t) \/ dat'[t] # m =>
                /\ m \in spoiled'
                /\ {dat[t], over[t]} \subseteq spoiled' \cup {None, Torn}
                /\ \A b \in Savers(t) : Saved(b) \in spoiled'
  BY WriteDoes, Zenon
<1>2. /\ stamp \in [Actors -> Stamps \cup {None}] /\ pp \in [Producers -> PLabels]
      /\ accepted \subseteq Msg
      /\ \A u \in Stamps : {dat[u], over[u]} \subseteq accepted \cup {None, Torn}
  BY DEF KInv, MInv, IInv, TypeOK, FilesInv
<1>3. up = "remove" => up' = "remove" /\ a # Uploader
  <2>1. CASE a = Uploader
    BY <1>2, <2>1, ParamAssumption DEF KInv, NamesInv
  <2>2. QED
    BY <2>1
<1>4. NamesInv'
  <2>1. stamp'[a] = t /\ \A b \in Actors : b # a => stamp'[b] = stamp[b]
    BY <1>1, <1>2
  <2>2. CASE a = Uploader
    BY <1>2, <2>1, <2>2, ParamAssumption DEF KInv, NamesInv, Actors
  <2>3. CASE a # Uploader
    BY <1>2, <2>1, <2>3, ParamAssumption DEF KInv, NamesInv, Actors
  <2>4. QED
    BY <2>2, <2>3
<1>5. \A b \in Actors : Saved(b)' = Saved(b)
  BY DEF Saved
<1>6. /\ \A u \in Stamps : u # t => Savers(u)' = Savers(u)
      /\ Savers(t)' = Savers(t) \cup {a} /\ a \notin Savers(t)
  <2>1. stamp'[a] = t /\ \A b \in Actors : b # a => stamp'[b] = stamp[b]
    BY <1>1, <1>2
  <2>2. \A u \in Stamps : a \notin Savers(u) /\ (a \in Savers(u)' <=> u = t)
    BY <1>3, <2>1, ParamAssumption DEF Savers
  <2>3. \A u \in Stamps : \A b \in Actors : b # a => (b \in Savers(u)' <=> b \in Savers(u))
    BY <1>3, <2>1 DEF Savers
  <2>4. QED
    BY <2>2, <2>3 DEF Savers
<1>7. SavesInv'
  <2>1. ASSUME NEW u \in Stamps, u # t, NEW b \in Savers(u)
        PROVE  /\ \/ dat'[u] \in {None, Saved(b)}
                  \/ Saved(b) \in spoiled' /\ dat'[u] \in spoiled' \cup {Torn}
               /\ over[u] # None \/ Savers(u) # {b} =>
                    /\ Saved(b) \in spoiled'
                    /\ over[u] \in spoiled' \cup {None, Torn}
                    /\ dat'[u] \in spoiled' \cup {None, Torn}
    BY <1>1, <2>1 DEF KInv, SavesInv, SaveInv
  <2>2. CASE InUse(t)
    <3>1. ASSUME NEW b \in Savers(t) \cup {a}
          PROVE  /\ Saved(b) \in spoiled'
                 /\ over[t] \in spoiled' \cup {None, Torn}
                 /\ dat'[t] \in spoiled' \cup {None, Torn}
      BY <1>1, <2>2, <3>1
    <3>2. ASSUME NEW u \in Stamps, NEW b \in Savers(u)'
          PROVE  SaveInv(u, b)'
      <4>1. b \in Actors
        BY DEF Savers
      <4>2. CASE u = t
        BY <1>5, <1>6, <3>1, <3>2, <4>1, <4>2 DEF SaveInv
      <4>3. CASE u # t
        BY <1>5, <1>6, <2>1, <3>2, <4>1, <4>3 DEF SaveInv
      <4>4. QED
        BY <4>2, <4>3
    <3>3. QED
      BY <3>2, Zenon DEF SavesInv
  <2>3. CASE ~InUse(t)
    <3>1. dat[t] = None /\ over[t] = None /\ Savers(t)' = {a}
      BY <1>6, <2>3 DEF InUse
    <3>2. ASSUME NEW u \in Stamps, NEW b \in Savers(u)'
          PROVE  SaveInv(u, b)'
      <4>1. b \in Actors
        BY DEF Savers
      <4>2. CASE u = t
        BY <1>1, <1>5, <3>1, <3>2, <4>1, <4>2 DEF SaveInv
      <4>3. CASE u # t
        BY <1>5, <1>6, <2>1, <3>2, <4>1, <4>3 DEF SaveInv
      <4>4. QED
        BY <4>2, <4>3
    <3>3. QED
      BY <3>2, Zenon DEF SavesInv
  <2>4. QED
    BY <2>2, <2>3
<1>8. FilesInv'
  <2>1. up' = "remove" => up = "remove" /\ stamp'[Uploader] = stamp[Uploader]
    BY <1>1, <1>2 DEF Actors
  <2>2. \A u \in Stamps : {dat'[u], over'[u]} \subseteq accepted' \cup {None, Torn}
    BY <1>1, <1>2
  <2>3. QED
    BY <1>1, <2>1, <2>2 DEF KInv, FilesInv
<1>9. ApartInv'
  <2>1. \A x \in Msg : /\ InFile(x)' <=> InFile(x)
                       /\ InFailed(x)' <=> InFailed(x)
                       /\ InQueue(x)' <=> InQueue(x)
                       /\ InHand(x)' <=> InHand(x)
    BY DEF InFile, InFailed, InQueue, InHand
  <2>2. QED
    BY <1>1, <2>1 DEF KInv, ApartInv
<1>10. QED
  BY <1>4, <1>7, <1>8, <1>9 DEF DiskInv

(* A completion keeps what is known of the disk, when the saver then puts  *)
(* its message down.                                                       *)
LEMMA CompleteDoes ==
  ASSUME KInv, NEW t \in Stamps, NEW a \in Savers(t), CompleteFile(a)
  PROVE  /\ stamp' = [stamp EXCEPT ![a] = None]
         /\ dat[t] # None /\ dat'[t] = None /\ over'[t] = dat[t]
         /\ \A u \in Stamps : u # t => dat'[u] = dat[u] /\ over'[u] = over[u]
         /\ over' \in [Stamps -> Content]
         /\ \/ dat[t] = Saved(a)
            \/ Saved(a) \in spoiled /\ dat[t] \in spoiled \cup {Torn}
         /\ dat[t] \in Msg \ spoiled => over[t] = None
         /\ over[t] # None => /\ over[t] \in spoiled \cup {Torn}
                              /\ dat[t] \in spoiled \cup {Torn}
         /\ \A b \in Savers(t) : b # a => /\ Saved(b) \in spoiled
                                          /\ dat[t] \in spoiled \cup {Torn}
<1>1. a \in Actors /\ stamp[a] = t
  BY DEF Savers
<1>2. dat \in [Stamps -> Content] /\ over \in [Stamps -> Content]
  BY DEF KInv, MInv, IInv, TypeOK
<1>3. /\ stamp' = [stamp EXCEPT ![a] = None]
      /\ dat[t] # None
      /\ over' = [over EXCEPT ![t] = dat[t]] /\ dat' = [dat EXCEPT ![t] = None]
  BY <1>1 DEF CompleteFile
<1>4. /\ \/ dat[t] = Saved(a)
         \/ Saved(a) \in spoiled /\ dat[t] \in spoiled \cup {Torn}
      /\ over[t] # None => /\ over[t] \in spoiled \cup {Torn}
                           /\ dat[t] \in spoiled \cup {Torn}
      /\ \A b \in Savers(t) : b # a => /\ Saved(b) \in spoiled
                                       /\ dat[t] \in spoiled \cup {Torn}
  BY <1>3 DEF KInv, SavesInv, SaveInv
<1>5. dat[t] \in Msg \ spoiled => over[t] = None
  BY <1>4, ParamAssumption
<1>6. QED
  BY <1>2, <1>3, <1>4, <1>5

LEMMA CompleteKeeps ==
  ASSUME KInv, NEW t \in Stamps, NEW a \in Savers(t), CompleteFile(a),
         NEW n \in Msg, Saved(a) = n,
         UNCHANGED <<spoiled, files, acked, accepted>>,
         IF a = Uploader
           THEN up' = "batch" /\ pp' = pp
           ELSE up' = up /\ pp' = [pp EXCEPT ![a] = "signal"],
         \A b \in Actors : b # a => Saved(b)' = Saved(b),
         ~InFailed(n)' /\ ~InQueue(n)' /\ ~InHand(n)',
         \A m \in Msg : /\ InFailed(m)' => InFailed(m)
                        /\ InQueue(m)' => InQueue(m)
                        /\ InHand(m)' => InHand(m)
  PROVE  DiskInv'
<1>1. /\ stamp' = [stamp EXCEPT ![a] = None]
      /\ dat[t] # None /\ dat'[t] = None /\ over'[t] = dat[t]
      /\ \A u \in Stamps : u # t => dat'[u] = dat[u] /\ over'[u] = over[u]
      /\ over' \in [Stamps -> Content]
      /\ dat[t] = Saved(a) \/ dat[t] \in spoiled \cup {Torn}
      /\ dat[t] \in Msg \ spoiled => over[t] = None
      /\ over[t] # None => /\ over[t] \in spoiled \cup {Torn}
                           /\ dat[t] \in spoiled \cup {Torn}
      /\ \A b \in Savers(t) : b # a => /\ Saved(b) \in spoiled
                                       /\ dat[t] \in spoiled \cup {Torn}
  BY CompleteDoes
<1>2. /\ stamp \in [Actors -> Stamps \cup {None}] /\ pp \in [Producers -> PLabels]
      /\ over \in [Stamps -> Content] /\ accepted \subseteq Msg /\ spoiled \subseteq Msg
  BY DEF KInv, MInv, IInv, TypeOK
<1>3. /\ a \in Actors /\ Saved(a) \in Msg
      /\ \/ a = Uploader /\ up = "stamp" /\ InFailed(Saved(a))
         \/ a \in Producers /\ pp[a] = "rename" /\ InHand(Saved(a))
  <2>1. MInv /\ NamesInv
    BY DEF KInv
  <2>2. QED
    BY <2>1, SaverHas
<1>4. stamp'[a] = None /\ \A b \in Actors : b # a => stamp'[b] = stamp[b]
  BY <1>1, <1>2, <1>3
<1>5. NamesInv'
  <2>1. CASE a = Uploader
    BY <1>2, <1>4, <2>1, ParamAssumption DEF KInv, NamesInv, Actors
  <2>2. CASE a # Uploader
    BY <1>2, <1>3, <1>4, <2>2, ParamAssumption DEF KInv, NamesInv, Actors
  <2>3. QED
    BY <2>1, <2>2
<1>6. \A u \in Stamps : \A b \in Savers(u)' : b # a /\ b \in Actors /\ b \in Savers(u)
  BY <1>3, <1>4, ParamAssumption DEF Savers
<1>7. \A u \in Stamps : u # t => Savers(u)' = Savers(u)
  <2>1. \A u \in Stamps : u # t => a \notin Savers(u)
    BY DEF Savers
  <2>2. \A u \in Stamps : \A b \in Savers(u) : b # a => b \in Savers(u)'
    BY <1>3, <1>4, ParamAssumption DEF Savers
  <2>3. QED
    BY <1>6, <2>1, <2>2
<1>8. SavesInv'
  <2>1. ASSUME NEW u \in Stamps, NEW b \in Savers(u)'
        PROVE  SaveInv(u, b)'
    <3>1. b # a /\ b \in Savers(u) /\ Saved(b)' = Saved(b)
      BY <1>6, <2>1
    <3>2. CASE u = t
      BY <1>1, <3>1, <3>2 DEF SaveInv
    <3>3. CASE u # t
      BY <1>1, <1>7, <3>1, <3>3 DEF KInv, SavesInv, SaveInv
    <3>4. QED
      BY <3>2, <3>3
  <2>2. QED
    BY <2>1, Zenon DEF SavesInv
<1>9. FilesInv'
  <2>1. ASSUME up' = "remove" PROVE over'[stamp'[Uploader]] \in acked' \cup spoiled' \cup {Torn}
    <3>1. up = "remove" /\ a # Uploader /\ Uploader \in Actors
      BY <2>1 DEF Actors
    <3>2. /\ stamp'[Uploader] = stamp[Uploader] /\ stamp[Uploader] \in Stamps
          /\ over[stamp[Uploader]] \in acked \cup spoiled \cup {Torn}
      BY <1>4, <3>1 DEF KInv, NamesInv, FilesInv
    <3>3. CASE stamp[Uploader] = t
      <4>1. over[t] # None
        BY <1>2, <3>2, <3>3, ParamAssumption DEF KInv, MInv, IInv, TypeOK
      <4>2. QED
        BY <1>1, <3>2, <3>3, <4>1
    <3>4. CASE stamp[Uploader] # t
      BY <1>1, <3>2, <3>4
    <3>5. QED
      BY <3>3, <3>4
  <2>2. ASSUME NEW u \in Stamps
        PROVE  {dat'[u], over'[u]} \subseteq accepted' \cup {None, Torn}
    <3>1. CASE u = t
      BY <1>1, <3>1 DEF KInv, FilesInv
    <3>2. CASE u # t
      BY <1>1, <3>2 DEF KInv, FilesInv
    <3>3. QED
      BY <3>1, <3>2
  <2>3. ASSUME NEW u \in files' PROVE over'[u] # None
    <3>1. u \in Stamps /\ over[u] # None
      BY DEF KInv, MInv, IInv, TypeOK, FilesInv
    <3>2. u = t \/ over'[u] = over[u]
      BY <1>1, <3>1
    <3>3. QED
      BY <1>1, <3>1, <3>2
  <2>4. QED
    BY <2>1, <2>2, <2>3 DEF KInv, FilesInv
<1>10. ApartInv'
  <2>1. ASSUME NEW m \in Msg \ spoiled, m # dat[t]
        PROVE  /\ InFile(m)' => InFile(m)
               /\ \A u \in Stamps : over'[u] = m => over[u] = m
    <3>1. InFile(m)' => InFile(m)
      <4>1. \A u \in Stamps : u # t => over'[u] = over[u]
        BY <1>1
      <4>2. over' \in [Stamps -> Content] /\ over'[t] # m
        BY <1>1, <2>1
      <4>3. \A x \in Msg : InFile(x)' => x = over'[t] \/ InFile(x)
        BY <1>2, <4>1, <4>2, FileChanges
      <4>4. QED
        BY <2>1, <4>2, <4>3
    <3>2. ASSUME NEW u \in Stamps, over'[u] = m PROVE over[u] = m
      BY <1>1, <2>1, <3>2
    <3>3. QED
      BY <3>1, <3>2
  <2>2. ASSUME NEW m \in Msg \ spoiled, m = dat[t]
        PROVE  /\ ~InFailed(m)' /\ ~InQueue(m)' /\ ~InHand(m)'
               /\ \A u \in Stamps : over'[u] = m => u = t
    <3>1. m = n /\ m = Saved(a) /\ over[t] = None
      BY <1>1, <2>2, ParamAssumption
    <3>2. ~InFile(m)
      BY <1>3, <3>1 DEF KInv, ApartInv
    <3>3. \A u \in Stamps : over[u] # m
      BY <1>2, <3>2 DEF InFile, Range
    <3>4. ASSUME NEW u \in Stamps, over'[u] = m PROVE u = t
      BY <1>1, <3>3, <3>4
    <3>5. QED
      BY <3>1, <3>4
  <2>3. QED
    BY <2>1, <2>2 DEF KInv, ApartInv
<1>11. QED
  BY <1>5, <1>8, <1>9, <1>10 DEF DiskInv

LEMMA RemoveKeeps == KInv /\ (RemoveUnfinished \/ RemoveFile) => DiskInv'
<1> SUFFICES ASSUME KInv, RemoveUnfinished \/ RemoveFile PROVE DiskInv'
  OBVIOUS
<1> USE DEF producerVars, localVars, disk, history
<1>1. /\ stamp \in [Actors -> Stamps \cup {None}] /\ pp \in [Producers -> PLabels]
      /\ dat \in [Stamps -> Content] /\ over \in [Stamps -> Content]
  BY DEF KInv, MInv, IInv, TypeOK
<1>2. \A m \in Msg : /\ InFailed(m)' <=> InFailed(m)
                     /\ InQueue(m)' <=> InQueue(m)
                     /\ InHand(m)' <=> InHand(m)
  BY DEF RemoveUnfinished, RemoveFile, InFailed, InQueue, InHand
<1>3. /\ NamesInv'
      /\ \A u \in Stamps : Savers(u)' = Savers(u)
      /\ \A a \in Actors : Saved(a)' = Saved(a)
  <2>1. CASE RemoveUnfinished
    BY <2>1 DEF RemoveUnfinished, KInv, NamesInv, Savers, Saved
  <2>2. CASE RemoveFile
    <3>1. stamp'[Uploader] = None /\ \A a \in Actors : a # Uploader => stamp'[a] = stamp[a]
      BY <1>1, <2>2 DEF RemoveFile, Actors
    <3>2. NamesInv'
      BY <2>2, <3>1, ParamAssumption DEF RemoveFile, KInv, NamesInv, Actors
    <3>3. ASSUME NEW u \in Stamps, NEW a \in Actors PROVE a \in Savers(u)' <=> a \in Savers(u)
      BY <2>2, <3>1, ParamAssumption DEF RemoveFile, Savers
    <3>4. QED
      BY <2>2, <3>2, <3>3 DEF RemoveFile, Savers, Saved
  <2>3. QED
    BY <2>1, <2>2
<1>4. \A u \in Stamps : /\ dat'[u] = dat[u] \/ dat'[u] = None
                        /\ over'[u] = over[u] \/ over'[u] = None
  <2>1. CASE RemoveUnfinished
    <3>1. PICK keep \in SUBSET {t \in Stamps : DiskFaults} :
            dat' = [t \in Stamps |-> IF t \in keep THEN dat[t] ELSE None]
      BY <2>1 DEF RemoveUnfinished
    <3>2. QED
      BY <2>1, <3>1 DEF RemoveUnfinished
  <2>2. CASE RemoveFile
    BY <1>1, <2>2 DEF RemoveFile
  <2>3. QED
    BY <2>1, <2>2
<1>5. SavesInv'
  <2>1. ASSUME NEW u \in Stamps, NEW b \in Savers(u)'
        PROVE  SaveInv(u, b)'
    <3>1. b \in Savers(u) /\ Savers(u)' = Savers(u) /\ Saved(b)' = Saved(b)
      BY <1>3, <2>1 DEF Savers
    <3>2. spoiled' = spoiled
      BY DEF RemoveUnfinished, RemoveFile
    <3>3. QED
      BY <1>4, <3>1, <3>2 DEF KInv, SavesInv, SaveInv
  <2>2. QED
    BY <2>1, Zenon DEF SavesInv
<1>6. FilesInv'
  <2>1. \A u \in files' : over'[u] # None
    BY <1>1 DEF RemoveUnfinished, RemoveFile, KInv, MInv, IInv, TypeOK, FilesInv
  <2>2. up' # "remove"
    BY DEF RemoveUnfinished, RemoveFile
  <2>3. \A u \in Stamps : {dat'[u], over'[u]} \subseteq accepted \cup {None, Torn}
    BY <1>4 DEF KInv, FilesInv
  <2>4. spoiled' = spoiled /\ accepted' = accepted
    BY DEF RemoveUnfinished, RemoveFile
  <2>5. QED
    BY <2>1, <2>2, <2>3, <2>4 DEF KInv, FilesInv
<1>7. ApartInv'
  <2>1. ASSUME NEW m \in Msg, NEW u \in Stamps, over'[u] = m PROVE over[u] = m
    BY <1>4, <2>1, NoneIsNoMessage
  <2>2. over' \in [Stamps -> Content]
    BY <1>1 DEF RemoveUnfinished, RemoveFile, Content
  <2>3. ASSUME NEW m \in Msg PROVE InFile(m)' => InFile(m)
    BY <1>1, <2>1, <2>2 DEF InFile, Range
  <2>4. spoiled' = spoiled
    BY DEF RemoveUnfinished, RemoveFile
  <2>5. QED
    BY <1>2, <2>1, <2>3, <2>4 DEF KInv, ApartInv
<1>8. QED
  BY <1>3, <1>5, <1>6, <1>7 DEF DiskInv

(* The answer to a resent file.                                            *)
LEMMA ResendKeeps ==
  ASSUME KInv, NEW t \in Stamps, ResendFile(t, TRUE)
  PROVE  DiskInv'
<1> USE DEF ResendFile, producerVars, localVars, disk, history
<1>1. /\ stamp \in [Actors -> Stamps \cup {None}] /\ over[t] \in Content
      /\ over[t] # None
  BY DEF KInv, MInv, IInv, TypeOK, FilesInv
<1>2. stamp'[Uploader] = t /\ \A a \in Actors : a # Uploader => stamp'[a] = stamp[a]
  BY <1>1 DEF Actors
<1>3. NamesInv'
  BY <1>2, ParamAssumption DEF KInv, NamesInv, Actors
<1>4. ASSUME NEW u \in Stamps PROVE Savers(u)' = Savers(u)
  <2>1. ASSUME NEW a \in Actors PROVE a \in Savers(u)' <=> a \in Savers(u)
    BY <1>2, ParamAssumption DEF Savers, KInv, NamesInv
  <2>2. QED
    BY <2>1 DEF Savers
<1>5. \A a \in Actors : Saved(a)' = Saved(a)
  BY DEF Saved
<1>6. SavesInv'
  <2>1. \A u \in Stamps : \A a \in Savers(u) : a \in Actors
    BY DEF Savers
  <2>2. UNCHANGED <<dat, over, spoiled>>
    OBVIOUS
  <2>3. ASSUME NEW u \in Stamps, NEW b \in Savers(u)' PROVE SaveInv(u, b)'
    <3>1. b \in Savers(u) /\ Savers(u)' = Savers(u) /\ Saved(b)' = Saved(b)
      BY <1>4, <1>5, <2>1, <2>3
    <3>2. QED
      BY <2>2, <3>1 DEF KInv, SavesInv, SaveInv
  <2>4. QED
    BY <2>3, Zenon DEF SavesInv
<1>7. FilesInv'
  <2>1. over[t] \in acked' \cup {Torn}
    BY <1>1 DEF Answer, Content
  <2>2. QED
    BY <1>2, <2>1 DEF KInv, FilesInv
<1>8. ApartInv'
  BY DEF KInv, ApartInv, InFile, InFailed, InQueue, InHand
<1>9. QED
  BY <1>3, <1>6, <1>7, <1>8 DEF DiskInv

(* A stop leaves the files as they are and nobody saving.                  *)
LEMMA RestartKeeps == KInv /\ Restart => DiskInv'
<1> SUFFICES ASSUME KInv, Restart PROVE DiskInv'
  OBVIOUS
<1> USE DEF Restart, disk, history
<1>1. \A m \in Msg : ~InHand(m)' /\ ~InQueue(m)' /\ ~InFailed(m)'
  BY NoneIsNoMessage DEF InHand, InQueue, InFailed, Range
<1>2. NamesInv'
  BY DEF NamesInv, Actors
<1>3. \A u \in Stamps : Savers(u)' = {}
  BY ParamAssumption DEF Savers
<1>4. SavesInv'
  BY <1>3 DEF SavesInv
<1>5. FilesInv'
  BY DEF KInv, FilesInv
<1>6. ApartInv'
  BY <1>1 DEF KInv, ApartInv, InFile
<1>7. QED
  BY <1>2, <1>4, <1>5, <1>6 DEF DiskInv

(* Every step keeps KInv.  Most leave the disk and the saves alone.        *)
LEMMA StepKInv == KInv /\ [Next]_vars => KInv'
<1> SUFFICES ASSUME KInv, [Next]_vars PROVE KInv'
  OBVIOUS
<1>0. /\ MInv /\ NamesInv /\ IInv /\ TypeOK /\ FrontInv /\ PlacesInv
      /\ hand \in [Producers -> Msg \cup {None}]
  BY DEF KInv, MInv, IInv, TypeOK
<1> USE DEF producerVars, localVars, disk, history
<1>1. ASSUME NEW p \in Producers, NEW m \in Msg, Submit(p, m) PROVE DiskInv'
  <2>1. hand' = [hand EXCEPT ![p] = m] /\ ~InFile(m)
    BY <1>0, <1>1, ParamAssumption DEF Submit, KInv, FilesInv, InFile, Range, TypeOK
  <2>2. \A x \in Msg : InHand(x)' => InHand(x) \/ x = m
    BY <1>0, <2>1 DEF InHand, Range
  <2>3. \A x \in Msg : InFailed(x)' \/ InQueue(x)' \/ InHand(x)' =>
                         InFailed(x) \/ InQueue(x) \/ InHand(x) \/ ~InFile(x)
    BY <1>1, <2>1, <2>2 DEF Submit, InFailed, InQueue
  <2>4. \A r \in Producers : /\ pp'[r] = "rename" <=> pp[r] = "rename"
                             /\ pp[r] = "rename" => hand'[r] = hand[r]
    BY <1>0, <1>1 DEF Submit, TypeOK
  <2>5. QED
    BY <1>1, <2>3, <2>4, DiskSame DEF Submit
<1>2. ASSUME NEW p \in Producers, Enqueue(p) PROVE DiskInv'
  <2>1. hand' = [hand EXCEPT ![p] = None] /\ hand[p] \in Msg /\ InHand(hand[p])
    BY <1>0, <1>2, HandHolds, NoneIsNoMessage DEF Enqueue, FrontInv
  <2>2. \A x \in Msg : InHand(x)' => InHand(x)
    BY <1>0, <2>1, NoneIsNoMessage DEF InHand, Range
  <2>3. \A x \in Msg : InQueue(x)' => InQueue(x) \/ x = hand[p]
    BY <1>0, <1>2, <2>1, AppendMessage DEF Enqueue, TypeOK, InQueue
  <2>4. \A x \in Msg : InFailed(x)' \/ InQueue(x)' \/ InHand(x)' =>
                         InFailed(x) \/ InQueue(x) \/ InHand(x) \/ ~InFile(x)
    BY <1>2, <2>1, <2>2, <2>3 DEF Enqueue, InFailed
  <2>5. \A r \in Producers : /\ pp'[r] = "rename" <=> pp[r] = "rename"
                             /\ pp[r] = "rename" => hand'[r] = hand[r]
    BY <1>0, <1>2 DEF Enqueue, TypeOK
  <2>6. QED
    BY <1>2, <2>4, <2>5, DiskSame DEF Enqueue
<1>3. ASSUME NEW p \in Producers, ProducerLock(p) \/ Signal(p) \/ ProducerUnlock(p)
      PROVE  DiskInv'
  <2>1. \A x \in Msg : InFailed(x)' \/ InQueue(x)' \/ InHand(x)' =>
                         InFailed(x) \/ InQueue(x) \/ InHand(x) \/ ~InFile(x)
    BY <1>3 DEF ProducerLock, Signal, ProducerUnlock, InFailed, InQueue, InHand
  <2>2. \A r \in Producers : /\ pp'[r] = "rename" <=> pp[r] = "rename"
                             /\ pp[r] = "rename" => hand'[r] = hand[r]
    BY <1>0, <1>3 DEF ProducerLock, Signal, ProducerUnlock, TypeOK
  <2>3. QED
    BY <1>3, <2>1, <2>2, DiskSame DEF ProducerLock, Signal, ProducerUnlock
<1>4. ASSUME NEW p \in Producers, OverflowSave(p) PROVE DiskInv'
  <2>1. /\ p \in Actors /\ p # Uploader /\ hand[p] \in accepted /\ stamp[p] = None
        /\ Saved(p) = hand[p]
    <3>1. hand[p] \in Msg /\ InHand(hand[p])
      BY <1>0, <1>4, HandHolds, NoneIsNoMessage DEF OverflowSave, FrontInv
    <3>2. QED
      BY <1>0, <1>4, <3>1, ParamAssumption
      DEF OverflowSave, Actors, NamesInv, PlacesInv, Saved
  <2>2. QED
    BY <1>4, <2>1, WriteKeeps DEF OverflowSave
<1>5. ASSUME NEW p \in Producers, OverflowComplete(p) PROVE DiskInv'
  <2> DEFINE t == stamp[p]
  <2>1. /\ t \in Stamps /\ p \in Savers(t) /\ p # Uploader /\ Saved(p) = hand[p]
        /\ hand[p] \in Msg /\ InHand(hand[p]) /\ ~InFailed(hand[p])
        /\ pp \in [Producers -> PLabels]
    BY <1>0, <1>5, HandHolds, NoneIsNoMessage, ParamAssumption
    DEF OverflowComplete, NamesInv, Savers, Saved, Actors, FrontInv, PlacesInv, TypeOK
  <2>2. /\ hand' \in [Producers -> Msg \cup {None}] /\ hand'[p] = None
        /\ \A r \in Producers : r # p => hand'[r] = hand[r]
    BY <1>0, <1>5 DEF OverflowComplete
  <2>3. \A x \in Msg : InHand(x)' <=> InHand(x) /\ x # hand[p]
    BY <1>0, <2>2, HandChanges, NoneIsNoMessage DEF KInv, MInv
  <2>4. \A x \in Msg : (InFailed(x)' <=> InFailed(x)) /\ (InQueue(x)' <=> InQueue(x))
    BY <1>5 DEF OverflowComplete, InFailed, InQueue
  <2>5. ~InQueue(hand[p])
    BY <1>0, <2>1 DEF PlacesInv
  <2>6. \A b \in Actors : b # p => Saved(b)' = Saved(b)
    BY <1>5, <2>2 DEF OverflowComplete, Saved, Actors
  <2>7. QED
    BY <1>5, <2>1, <2>3, <2>4, <2>5, <2>6, CompleteKeeps DEF OverflowComplete
<1>6. ASSUME SaveFailed PROVE DiskInv'
  <2>1. failedQ \in Seq(Msg) /\ failedQ # <<>> /\ Distinct(failedQ)
    BY <1>0, <1>6 DEF SaveFailed, TypeOK, PlacesInv
  <2>2. /\ Uploader \in Actors /\ Head(failedQ) \in accepted /\ stamp[Uploader] = None
        /\ Saved(Uploader) = Head(failedQ)
    BY <1>0, <1>6, <2>1, RemoveHead, SeqTypes
    DEF SaveFailed, Actors, NamesInv, PlacesInv, Saved, InFailed
  <2>3. QED
    BY <1>6, <2>2, WriteKeeps DEF SaveFailed
<1>7. ASSUME SaveFailedComplete PROVE DiskInv'
  <2>1. failedQ \in Seq(Msg) /\ failedQ # <<>> /\ Distinct(failedQ)
    BY <1>0, <1>7 DEF SaveFailedComplete, TypeOK, PlacesInv, IInv, BacklogInv
  <2>2. PICK t \in Stamps, n \in Msg : t = stamp[Uploader] /\ n = Head(failedQ)
    BY <1>0, <1>7, <2>1, SeqTypes DEF SaveFailedComplete, NamesInv
  <2>3. Uploader \in Savers(t) /\ Saved(Uploader) = n
    BY <1>7, <2>2 DEF SaveFailedComplete, Savers, Saved, Actors
  <2>4. InFailed(n) /\ \A x : InFailed(x)' <=> InFailed(x) /\ x # n
    BY <1>7, <2>1, <2>2, FailedShrinks DEF SaveFailedComplete
  <2>5. \A x \in Msg : (InHand(x)' <=> InHand(x)) /\ (InQueue(x)' <=> InQueue(x))
    BY <1>7 DEF SaveFailedComplete, InHand, InQueue
  <2>6. ~InQueue(n) /\ ~InHand(n)
    BY <1>0, <1>7, <2>4 DEF SaveFailedComplete, PlacesInv
  <2>7. \A b \in Actors : b # Uploader => Saved(b)' = Saved(b)
    BY <1>7 DEF SaveFailedComplete, Saved
  <2>8. ~InFailed(n)' /\ ~InQueue(n)' /\ ~InHand(n)'
    BY <2>4, <2>5, <2>6
  <2>9. QED
    BY <1>7, <2>3, <2>4, <2>5, <2>7, <2>8, CompleteKeeps DEF SaveFailedComplete
<1>8. ASSUME NEW t \in Stamps, NEW ok \in BOOLEAN, ResendFile(t, ok) PROVE DiskInv'
  <2>1. CASE ok
    BY <1>8, <2>1, ResendKeeps
  <2>2. CASE ~ok
    <3>1. up' \in {"lock", "pop"} /\ files' = {} /\ acked \subseteq acked'
      BY <1>0, <1>8, <2>2 DEF ResendFile, TypeOK, Answer
    <3>2. \A x \in Msg : InFailed(x)' \/ InQueue(x)' \/ InHand(x)' =>
                           InFailed(x) \/ InQueue(x) \/ InHand(x) \/ ~InFile(x)
      BY <1>8 DEF ResendFile, InFailed, InQueue, InHand
    <3>3. QED
      BY <1>8, <2>2, <3>1, <3>2, DiskSame DEF ResendFile
  <2>3. QED
    BY <2>1, <2>2
<1>9. ASSUME NEW ok \in BOOLEAN, SendFront(ok) PROVE DiskInv'
  <2>1. cur \in Msg /\ (InQueue(cur) \/ InHand(cur)) /\ acked \subseteq acked'
    BY <1>0, <1>9, FrontIsSomewhere DEF SendFront, Answer
  <2>2. \A x \in Msg : InFailed(x)' => InFailed(x) \/ x = cur
    <3>1. CASE ok
      BY <1>9, <3>1 DEF SendFront, InFailed
    <3>2. CASE ~ok
      BY <1>0, <1>9, <2>1, <3>2, AppendMessage DEF SendFront, InFailed, TypeOK
    <3>3. QED
      BY <3>1, <3>2
  <2>3. \A x \in Msg : InFailed(x)' \/ InQueue(x)' \/ InHand(x)' =>
                         InFailed(x) \/ InQueue(x) \/ InHand(x) \/ ~InFile(x)
    BY <1>9, <2>1, <2>2 DEF SendFront, InQueue, InHand
  <2>4. QED
    BY <1>9, <2>1, <2>3, DiskSame DEF SendFront
<1>10. ASSUME NEW ok \in BOOLEAN, RetryFailed(ok) PROVE DiskInv'
  <2>1. \A x : InFailed(x)' => InFailed(x)
    <3>1. CASE ok
      BY <1>10, <3>1 DEF RetryFailed, InFailed
    <3>2. CASE ~ok
      BY <1>0, <1>10, <3>2, FailedShrinks DEF RetryFailed, TypeOK, PlacesInv
    <3>3. QED
      BY <3>1, <3>2
  <2>2. \A x \in Msg : InFailed(x)' \/ InQueue(x)' \/ InHand(x)' =>
                         InFailed(x) \/ InQueue(x) \/ InHand(x) \/ ~InFile(x)
    BY <1>10, <2>1 DEF RetryFailed, InQueue, InHand
  <2>3. acked \subseteq acked' /\ {up, up'} \cap {"stamp", "remove"} = {}
    BY <1>10 DEF RetryFailed, Answer
  <2>4. QED
    BY <1>10, <2>2, <2>3, DiskSame DEF RetryFailed
<1>11. ASSUME PopFront PROVE DiskInv'
  <2>1. q \in Seq(Msg) /\ q # <<>> /\ Distinct(q)
    BY <1>0, <1>11, ParamAssumption
    DEF PopFront, TypeOK, IInv, FrontInv, LockInv, PopsWhatItSent, Pushing, PlacesInv
  <2>2. \A x : InQueue(x)' => InQueue(x)
    BY <1>11, <2>1, RemoveHead DEF PopFront, InQueue
  <2>3. \A x \in Msg : InFailed(x)' \/ InQueue(x)' \/ InHand(x)' =>
                         InFailed(x) \/ InQueue(x) \/ InHand(x) \/ ~InFile(x)
    BY <1>11, <2>2 DEF PopFront, InFailed, InHand
  <2>4. QED
    BY <1>11, <2>3, DiskSame DEF PopFront
<1>12. ASSUME \/ ListFiles \/ ResendDone \/ LockQueue \/ LockResend \/ LookAtQueue
              \/ Sleep \/ CheckWoken \/ UnlockResend \/ SeeWork \/ SeeNoWork
              \/ RetryDone \/ BatchDone \/ ReportMetric
       PROVE  DiskInv'
  <2> USE DEF ListFiles, ResendDone, LockQueue, LockResend, LookAtQueue, Sleep,
              CheckWoken, UnlockResend, SeeWork, SeeNoWork, RetryDone, BatchDone,
              ReportMetric
  <2>1. UNCHANGED <<pp, hand, q, failedQ, dat, over, stamp, spoiled, accepted, acked>>
    BY <1>12
  <2>2. files' \subseteq files \cup Completed
    BY <1>12
  <2>3. {up, up'} \cap {"stamp", "remove"} = {}
    BY <1>0, <1>12 DEF TypeOK
  <2>4. \A x \in Msg : InFailed(x)' \/ InQueue(x)' \/ InHand(x)' =>
                         InFailed(x) \/ InQueue(x) \/ InHand(x) \/ ~InFile(x)
    BY <2>1 DEF InFailed, InQueue, InHand
  <2>5. QED
    BY <2>1, <2>2, <2>3, <2>4, DiskSame
<1>13. ASSUME UNCHANGED vars PROVE DiskInv'
  <2>1. \A x \in Msg : InFailed(x)' \/ InQueue(x)' \/ InHand(x)' =>
                         InFailed(x) \/ InQueue(x) \/ InHand(x) \/ ~InFile(x)
    BY <1>13 DEF vars, InFailed, InQueue, InHand
  <2>2. /\ UNCHANGED <<pp, hand, failedQ, dat, over, stamp, spoiled, accepted, acked>>
        /\ up' = up /\ files' = files
    BY <1>13 DEF vars
  <2>3. QED
    BY <2>1, <2>2, DiskSame
<1>14. DiskInv'
  <2>1. CASE Restart
    BY <2>1, RestartKeeps
  <2>2. CASE \E p \in Producers : ProducerStep(p)
    BY <1>2, <1>3, <1>4, <1>5, <2>1, <2>2 DEF ProducerStep, OverflowAbort, RenameFails
  <2>3. CASE UploaderStep
    BY <1>6, <1>7, <1>8, <1>9, <1>10, <1>11, <1>12, <2>1, <2>3, RemoveKeeps
    DEF UploaderStep, SaveFailedAbort, RenameFails
  <2>4. QED
    BY <1>1, <1>13, <2>1, <2>2, <2>3 DEF Next, Crash
<1>15. QED
  BY <1>14, StepMInv DEF KInv, DiskInv

(* The files of an empty directory, the queues and hands of a new process. *)
LEMMA InitKInv == Init => KInv
<1> SUFFICES ASSUME Init PROVE KInv
  OBVIOUS
<1> USE DEF Init, Volatile0
<1>1. \A m \in Msg : ~InFile(m) /\ ~InFailed(m) /\ ~InQueue(m) /\ ~InHand(m)
  BY NoneIsNoMessage DEF InFile, InFailed, InQueue, InHand, Range
<1>2. PlacesInv
  BY <1>1, NoneIsNoMessage DEF PlacesInv, Distinct
<1>3. HandsInv /\ AckInv /\ FilesInv
  BY DEF HandsInv, AckInv, FilesInv
<1>4. NamesInv
  BY DEF NamesInv, Actors
<1>5. SavesInv
  BY ParamAssumption DEF SavesInv, Savers
<1>6. ApartInv
  BY <1>1, NoneIsNoMessage DEF ApartInv
<1>7. QED
  BY InitIInv, <1>2, <1>3, <1>4, <1>5, <1>6 DEF KInv, MInv

(* Whatever the disk does and whatever names the saves choose, a message   *)
(* is in one place in memory, and a message whose save met no other of its *)
(* name, and did not fail, is in one file and then nowhere in memory.      *)
THEOREM Places == Spec => []KInv
  BY InitKInv, StepKInv, PTL DEF Spec

(* The abstract state of a message in terms of where the message is.       *)
Kept == [m \in Msg |-> StatusOf(m)]

LEMMA StatusIs ==
  \A m \in Msg :
    StatusOf(m) = IF m \notin accepted THEN "new"
                  ELSE IF m \in spoiled THEN "spoiled"
                  ELSE IF InFile(m) THEN "stored"
                  ELSE IF InFailed(m) THEN "failed"
                  ELSE IF InQueue(m) \/ InHand(m) THEN "queued" ELSE "gone"
  BY DEF StatusOf, InFailed, InQueue, InHand

(* ... and after the step.                                                 *)
LEMMA StatusNext ==
  \A m \in Msg :
    StatusOf(m)' = IF m \notin accepted' THEN "new"
                   ELSE IF m \in spoiled' THEN "spoiled"
                   ELSE IF InFile(m)' THEN "stored"
                   ELSE IF InFailed(m)' THEN "failed"
                   ELSE IF InQueue(m)' \/ InHand(m)' THEN "queued" ELSE "gone"
  BY DEF StatusOf, InFailed, InQueue, InHand

(* One message moves, or none does.                                        *)
LEMMA OneMoves ==
  ASSUME NEW m \in Msg, NEW to,
         \A x \in Msg : StatusOf(x)' = IF x = m THEN to ELSE StatusOf(x)
  PROVE  Kept' = [Kept EXCEPT ![m] = to]
  BY DEF Kept

LEMMA NoneMoves ==
  ASSUME \A x \in Msg : StatusOf(x)' = StatusOf(x)
  PROVE  UNCHANGED Kept
  BY DEF Kept

(* The initial states are initial states of the promise.                   *)
LEMMA InitMaps == Init => Actual!Init
  BY DEF Init, Actual!Init, StatusOf

(* A save spoils the messages that share its name, or nothing.             *)
LEMMA WriteMaps ==
  ASSUME KInv, KInv', NEW a \in Actors, NEW m \in accepted, WriteFile(a, m),
         UNCHANGED <<q, hand, failedQ, over, accepted, acked>>
  PROVE  [Actual!Next]_<<Kept, acked>>
<1>1. /\ spoiled \subseteq spoiled' /\ spoiled' \subseteq accepted
      /\ spoiled' # spoiled => SameMs \/ DiskFaults
  BY WriteDoes
<1>2. \A x \in Msg : StatusOf(x)' = IF x \in spoiled' THEN "spoiled" ELSE StatusOf(x)
  BY <1>1, StatusIs, StatusNext DEF InFile, InFailed, InQueue, InHand
<1>3. \A x \in Msg : StatusOf(x) = "new" => x \notin accepted
  BY StatusIs
<1>4. CASE spoiled' = spoiled
  <2>1. \A x \in Msg : StatusOf(x)' = StatusOf(x)
    BY <1>1, <1>2, <1>4, StatusIs
  <2>2. QED
    BY <2>1, NoneMoves
<1>5. CASE spoiled' # spoiled
  <2>1. PICK S \in SUBSET Msg : S = spoiled'
    BY DEF KInv, MInv, IInv, TypeOK
  <2>2. \A x \in S : Kept[x] # "new"
    BY <1>1, <1>3, <2>1 DEF Kept
  <2>3. Kept' = [x \in Msg |-> IF x \in S THEN "spoiled" ELSE Kept[x]]
    BY <1>2, <2>1 DEF Kept
  <2>4. Actual!Spoil(S)
    BY <1>1, <1>5, <2>2, <2>3 DEF Actual!Spoil, Kept
  <2>5. QED
    BY <2>4, Zenon DEF Actual!Next
<1>6. QED
  BY <1>4, <1>5

(* A completed file stores the message of the save, unless it is spoiled.  *)
LEMMA CompleteMaps ==
  ASSUME KInv, NEW t \in Stamps, NEW a \in Savers(t), CompleteFile(a),
         NEW n \in Msg, Saved(a) = n, UNCHANGED <<spoiled, accepted, acked>>,
         ~InFailed(n)' /\ ~InQueue(n)' /\ ~InHand(n)',
         \A x \in Msg : x # n => /\ InFailed(x)' <=> InFailed(x)
                                 /\ InQueue(x)' <=> InQueue(x)
                                 /\ InHand(x)' <=> InHand(x)
  PROVE  [Actual!Next]_<<Kept, acked>>
<1>1. /\ over'[t] = dat[t] /\ over' \in [Stamps -> Content]
      /\ \A u \in Stamps : u # t => over'[u] = over[u]
      /\ \/ dat[t] = n
         \/ n \in spoiled /\ dat[t] \in spoiled \cup {Torn}
      /\ over[t] # None => over[t] \in spoiled \cup {Torn}
  BY CompleteDoes
<1>2. over \in [Stamps -> Content]
  BY DEF KInv, MInv, IInv, TypeOK
<1>3. /\ \A x \in Msg : InFile(x)' => x = dat[t] \/ InFile(x)
      /\ \A x \in Msg : x = dat[t] => InFile(x)'
      /\ \A x \in Msg : InFile(x) /\ x # over[t] => InFile(x)'
  BY <1>1, <1>2, FileChanges
<1>4. ASSUME NEW x \in Msg \ spoiled, x # n PROVE InFile(x)' <=> InFile(x)
  BY <1>1, <1>3, <1>4, ParamAssumption
<1>5. n \in accepted /\ (InFailed(n) \/ InHand(n))
  BY SaverHas DEF KInv
<1>6. n \notin spoiled => ~InFile(n) /\ InFile(n)'
  BY <1>1, <1>3, <1>5 DEF KInv, ApartInv
<1>7. \A x \in Msg : StatusOf(x)' = IF x = n /\ n \notin spoiled THEN "stored"
                                                               ELSE StatusOf(x)
  BY <1>4, <1>5, <1>6, StatusIs, StatusNext
<1>8. CASE n \in spoiled
  <2>1. \A x \in Msg : StatusOf(x)' = StatusOf(x)
    BY <1>7, <1>8
  <2>2. QED
    BY <2>1, NoneMoves
<1>9. CASE n \notin spoiled
  <2>1. Kept[n] \in {"queued", "failed"}
    BY <1>5, <1>6, <1>9, StatusIs DEF Kept
  <2>2. Kept' = [Kept EXCEPT ![n] = "stored"]
    BY <1>7, <1>9, OneMoves
  <2>3. Actual!Persist(n)
    BY <2>1, <2>2 DEF Actual!Persist, Actual!Volatile, Actual!Move, Kept
  <2>4. QED
    BY <2>3, Zenon DEF Actual!Next
<1>10. QED
  BY <1>8, <1>9
(* What is spoiled stays so, and only a colliding or failing save spoils.  *)
LEMMA SpoiledStay ==
  ASSUME KInv, [Next]_vars
  PROVE  /\ spoiled \subseteq spoiled'
         /\ spoiled' # spoiled => SameMs \/ DiskFaults
<1> USE DEF producerVars, localVars, disk, history
<1>1. CASE \E p \in Producers : OverflowSave(p)
  <2>1. PICK p \in Producers : OverflowSave(p)
    BY <1>1
  <2>2. p \in Actors /\ hand[p] \in Msg /\ InHand(hand[p])
    BY <2>1, HandHolds, NoneIsNoMessage
    DEF OverflowSave, Actors, KInv, MInv, IInv, TypeOK, FrontInv
  <2>3. hand[p] \in accepted
    BY <2>2 DEF KInv, MInv, PlacesInv
  <2>4. QED
    BY <2>1, <2>2, <2>3, WriteDoes DEF OverflowSave
<1>2. CASE SaveFailed
  <2>1. failedQ \in Seq(Msg) /\ failedQ # <<>> /\ Distinct(failedQ)
    BY <1>2 DEF SaveFailed, KInv, MInv, IInv, TypeOK, PlacesInv
  <2>2. Uploader \in Actors /\ Head(failedQ) \in accepted
    BY <2>1, RemoveHead, SeqTypes DEF Actors, KInv, MInv, PlacesInv, InFailed
  <2>3. QED
    BY <1>2, <2>2, WriteDoes DEF SaveFailed
<1>3. CASE UNCHANGED spoiled
  BY <1>3
<1>4. UNCHANGED spoiled \/ SaveFailed \/ \E p \in Producers : OverflowSave(p)
  BY DEF Next, vars, ProducerStep, UploaderStep, Crash, OverflowAbort, SaveFailedAbort,
     RenameFails, Restart, Submit, ProducerLock, Enqueue, OverflowComplete, Signal,
     ProducerUnlock, ListFiles, ResendDone, ResendFile, RemoveFile, RemoveUnfinished,
     LockQueue, LockResend, LookAtQueue, Sleep, CheckWoken, UnlockResend, SeeWork,
     SeeNoWork, SendFront, RetryFailed, RetryDone, PopFront, SaveFailedComplete,
     BatchDone, ReportMetric
<1>5. QED
  BY <1>1, <1>2, <1>3, <1>4

(* Every step is a step of the promise or changes nothing of it.           *)
LEMMA StepMaps == KInv /\ KInv' /\ [Next]_vars => [Actual!Next]_<<Kept, acked>>
<1> SUFFICES ASSUME KInv, KInv', [Next]_vars PROVE [Actual!Next]_<<Kept, acked>>
  OBVIOUS
<1>0. /\ MInv /\ IInv /\ TypeOK /\ FrontInv /\ HandsInv /\ PlacesInv /\ AckInv
      /\ NamesInv /\ FilesInv /\ ApartInv
      /\ hand \in [Producers -> Msg \cup {None}]
  BY DEF KInv, MInv, IInv, TypeOK
<1>a. ASSUME NEW m \in Msg,
             \/ Actual!Accept(m) \/ Actual!Refuse(m) \/ Actual!Persist(m)
             \/ Actual!Acknowledge(m) \/ Actual!Settle(m) \/ Actual!Forfeit(m)
      PROVE  [Actual!Next]_<<Kept, acked>>
  BY <1>a, Zenon DEF Actual!Next
<1>b. ASSUME UNCHANGED <<q, hand, failedQ, over, accepted, acked, spoiled>>
      PROVE  [Actual!Next]_<<Kept, acked>>
  <2>1. \A x \in Msg : StatusOf(x)' = StatusOf(x)
    BY <1>b, StatusIs, StatusNext DEF InFile, InFailed, InQueue, InHand
  <2>2. QED
    BY <1>b, <2>1, NoneMoves
<1>c. ASSUME NEW m \in Msg, UNCHANGED acked,
             \A x \in Msg : StatusOf(x)' = StatusOf(x)
      PROVE  [Actual!Next]_<<Kept, acked>>
  BY <1>c, NoneMoves
<1>d. \A m \in Msg : Kept[m] = StatusOf(m)
  BY DEF Kept
<1>e. ASSUME NEW m \in Msg, acked' = acked \cup {m},
             UNCHANGED <<q, hand, failedQ, over, accepted, spoiled>>,
             Kept[m] \in {"queued", "failed", "stored", "spoiled"}
      PROVE  [Actual!Next]_<<Kept, acked>>
  <2>1. \A x \in Msg : StatusOf(x)' = StatusOf(x)
    BY <1>e, StatusIs, StatusNext DEF InFile, InFailed, InQueue, InHand
  <2>2. Actual!Acknowledge(m)
    BY <1>e, <2>1, NoneMoves DEF Actual!Acknowledge, Actual!Volatile, Kept
  <2>3. QED
    BY <1>a, <2>2
<1> USE DEF producerVars, localVars, disk, history
<1>1. ASSUME NEW p \in Producers, NEW m \in Msg, Submit(p, m)
      PROVE  [Actual!Next]_<<Kept, acked>>
  <2>1. /\ hand' \in [Producers -> Msg \cup {None}] /\ hand'[p] = m /\ hand[p] = None
        /\ \A r \in Producers : r # p => hand'[r] = hand[r]
    BY <1>0, <1>1 DEF Submit, HandsInv
  <2>2. \A x \in Msg : InHand(x)' <=> x = m \/ InHand(x)
    BY <1>0, <2>1, HandChanges, NoneIsNoMessage
  <2>3. ~InFile(m) /\ m \notin spoiled
    BY <1>0, <1>1, ParamAssumption DEF Submit, FilesInv, InFile, Range, TypeOK
  <2>4. \A x \in Msg : StatusOf(x)' = IF x = m THEN "queued" ELSE StatusOf(x)
    BY <1>0, <1>1, <2>2, <2>3, StatusIs, StatusNext
    DEF Submit, PlacesInv, InFile, InFailed, InQueue
  <2>5. Actual!Accept(m)
    BY <1>1, <1>d, <2>4, OneMoves, StatusIs DEF Submit, Actual!Accept, Actual!Move, Kept
  <2>6. QED
    BY <1>a, <2>5
<1>2. ASSUME NEW p \in Producers, Enqueue(p) PROVE [Actual!Next]_<<Kept, acked>>
  <2>1. /\ hand' \in [Producers -> Msg \cup {None}] /\ hand'[p] = None
        /\ \A r \in Producers : r # p => hand'[r] = hand[r]
        /\ hand[p] \in Msg
    BY <1>0, <1>2 DEF Enqueue, FrontInv
  <2>2. \A x \in Msg : InHand(x)' <=> InHand(x) /\ x # hand[p]
    BY <1>0, <2>1, HandChanges, NoneIsNoMessage
  <2>3. \A x \in Msg : InQueue(x)' <=> InQueue(x) \/ x = hand[p]
    BY <1>0, <1>2, <2>1, AppendMessage DEF Enqueue, TypeOK, InQueue
  <2>4. InHand(hand[p])
    BY <1>0, <2>1, HandHolds, NoneIsNoMessage
  <2>5. \A x \in Msg : StatusOf(x)' = StatusOf(x)
    BY <1>2, <2>2, <2>3, <2>4, StatusIs, StatusNext DEF Enqueue, InFile, InFailed
  <2>6. QED
    BY <1>2, <2>1, <2>5, <1>c DEF Enqueue
<1>3. ASSUME NEW p \in Producers, OverflowSave(p) PROVE [Actual!Next]_<<Kept, acked>>
  <2>1. p \in Actors /\ hand[p] \in Msg /\ InHand(hand[p])
    BY <1>0, <1>3, HandHolds, NoneIsNoMessage DEF OverflowSave, FrontInv, Actors
  <2>2. hand[p] \in accepted
    BY <1>0, <2>1 DEF PlacesInv
  <2>3. QED
    BY <1>3, <2>1, <2>2, WriteMaps DEF OverflowSave
<1>4. ASSUME NEW p \in Producers, OverflowComplete(p) PROVE [Actual!Next]_<<Kept, acked>>
  <2>1. PICK t \in Stamps, n \in Msg : t = stamp[p] /\ n = hand[p]
    BY <1>0, <1>4, ParamAssumption DEF OverflowComplete, NamesInv, FrontInv
  <2>2. /\ p \in Savers(t) /\ Saved(p) = n /\ InHand(n) /\ ~InFailed(n)
    BY <1>0, <1>4, <2>1, HandHolds, NoneIsNoMessage, ParamAssumption
    DEF OverflowComplete, Savers, Saved, Actors, PlacesInv
  <2>3. /\ hand' \in [Producers -> Msg \cup {None}] /\ hand'[p] = None
        /\ \A r \in Producers : r # p => hand'[r] = hand[r]
    BY <1>0, <1>4 DEF OverflowComplete
  <2>4. \A x \in Msg : InHand(x)' <=> InHand(x) /\ x # n
    BY <1>0, <2>1, <2>3, HandChanges, NoneIsNoMessage
  <2>5. \A x \in Msg : (InFailed(x)' <=> InFailed(x)) /\ (InQueue(x)' <=> InQueue(x))
    BY <1>4 DEF OverflowComplete, InFailed, InQueue
  <2>6. ~InQueue(n)
    BY <1>0, <2>2 DEF PlacesInv
  <2>7. QED
    BY <1>4, <2>2, <2>4, <2>5, <2>6, CompleteMaps DEF OverflowComplete
<1>5. ASSUME SaveFailed PROVE [Actual!Next]_<<Kept, acked>>
  <2>1. failedQ \in Seq(Msg) /\ failedQ # <<>> /\ Distinct(failedQ)
    BY <1>0, <1>5 DEF SaveFailed, TypeOK, PlacesInv
  <2>2. Uploader \in Actors /\ Head(failedQ) \in accepted
    BY <1>0, <2>1, RemoveHead, SeqTypes DEF Actors, PlacesInv, InFailed
  <2>3. QED
    BY <1>5, <2>2, WriteMaps DEF SaveFailed
<1>6. ASSUME SaveFailedComplete PROVE [Actual!Next]_<<Kept, acked>>
  <2>1. failedQ \in Seq(Msg) /\ failedQ # <<>> /\ Distinct(failedQ)
    BY <1>0, <1>6 DEF SaveFailedComplete, TypeOK, PlacesInv, IInv, BacklogInv
  <2>2. PICK t \in Stamps, n \in Msg : t = stamp[Uploader] /\ n = Head(failedQ)
    BY <1>0, <1>6, <2>1, SeqTypes DEF SaveFailedComplete, NamesInv
  <2>3. Uploader \in Savers(t) /\ Saved(Uploader) = n
    BY <1>6, <2>2 DEF SaveFailedComplete, Savers, Saved, Actors
  <2>4. InFailed(n) /\ \A x : InFailed(x)' <=> InFailed(x) /\ x # n
    BY <1>6, <2>1, <2>2, FailedShrinks DEF SaveFailedComplete
  <2>5. \A x \in Msg : (InHand(x)' <=> InHand(x)) /\ (InQueue(x)' <=> InQueue(x))
    BY <1>6 DEF SaveFailedComplete, InHand, InQueue
  <2>6. ~InQueue(n) /\ ~InHand(n)
    BY <1>0, <1>6, <2>4 DEF SaveFailedComplete, PlacesInv
  <2>7. QED
    BY <1>6, <2>3, <2>4, <2>5, <2>6, CompleteMaps DEF SaveFailedComplete
<1>7. ASSUME RemoveFile PROVE [Actual!Next]_<<Kept, acked>>
  <2>1. PICK t \in Stamps, m \in Content : t = stamp[Uploader] /\ m = over[t]
    BY <1>0, <1>7 DEF RemoveFile, NamesInv, TypeOK
  <2>2. over \in [Stamps -> Content] /\ m \in acked \cup spoiled \cup {Torn}
    BY <1>0, <1>7, <2>1 DEF RemoveFile, FilesInv, TypeOK
  <2>3. CASE over' = over
    BY <1>7, <1>b, <2>3 DEF RemoveFile
  <2>4. CASE over' # over
    <3>1. /\ over' \in [Stamps -> Content] /\ over'[t] = None
          /\ \A u \in Stamps : u # t => over'[u] = over[u]
      BY <1>7, <2>1, <2>2, <2>4 DEF RemoveFile, Content
    <3>2. /\ \A x \in Msg : InFile(x)' => x = None \/ InFile(x)
          /\ \A x \in Msg : InFile(x) /\ x # m => InFile(x)'
      BY <2>1, <2>2, <3>1, FileChanges
    <3>3. \A x \in Msg : x # m => (InFile(x)' <=> InFile(x))
      BY <3>2, NoneIsNoMessage
    <3>4. \A x \in Msg : /\ InFailed(x)' <=> InFailed(x)
                         /\ InQueue(x)' <=> InQueue(x)
                         /\ InHand(x)' <=> InHand(x)
      BY <1>7 DEF RemoveFile, InFailed, InQueue, InHand
    <3>5. UNCHANGED <<accepted, acked, spoiled>>
      BY <1>7 DEF RemoveFile
    <3>6. CASE m \in Msg \ spoiled
      <4>1. m \in acked /\ InFile(m)
        BY <2>1, <2>2, <3>6, ParamAssumption DEF InFile, Range
      <4>2. ~InFile(m)'
        <5>1. \A u \in Stamps : over'[u] # m
          BY <1>0, <2>1, <3>1, <3>6, NoneIsNoMessage DEF ApartInv
        <5>2. QED
          BY <3>1, <5>1 DEF InFile, Range
      <4>3. m \in accepted /\ ~InFailed(m) /\ ~InQueue(m) /\ ~InHand(m)
        BY <1>0, <2>1, <3>6, <4>1, ParamAssumption DEF ApartInv, FilesInv
      <4>4. \A x \in Msg : StatusOf(x)' = IF x = m THEN "gone" ELSE StatusOf(x)
        BY <3>3, <3>4, <3>5, <3>6, <4>2, <4>3, StatusIs, StatusNext
      <4>5. Kept[m] = "stored"
        BY <1>d, <3>6, <4>1, <4>3, StatusIs
      <4>6. Actual!Settle(m)
        BY <3>5, <3>6, <4>1, <4>4, <4>5, OneMoves DEF Actual!Settle, Actual!Move, Kept
      <4>7. QED
        BY <1>a, <3>6, <4>6
    <3>7. CASE m \notin Msg \ spoiled
      <4>1. \A x \in Msg : StatusOf(x)' = StatusOf(x)
        BY <3>3, <3>4, <3>5, <3>7, StatusIs, StatusNext
      <4>2. QED
        BY <3>5, <4>1, NoneMoves
    <3>8. QED
      BY <3>6, <3>7
  <2>5. QED
    BY <2>3, <2>4
<1>8. ASSUME NEW t \in Stamps, NEW ok \in BOOLEAN, ResendFile(t, ok)
      PROVE  [Actual!Next]_<<Kept, acked>>
  <2>1. CASE ok /\ over[t] \in Msg
    <3>1. InFile(over[t]) /\ over[t] \in accepted
      BY <1>0, <1>8, <2>1, ParamAssumption DEF FilesInv, InFile, Range, TypeOK
    <3>2. Kept[over[t]] \in {"queued", "failed", "stored", "spoiled"}
      BY <1>d, <2>1, <3>1, StatusIs
    <3>3. QED
      BY <1>8, <1>e, <2>1, <3>2 DEF ResendFile, Answer
  <2>2. CASE ~(ok /\ over[t] \in Msg)
    BY <1>8, <1>b, <2>2 DEF ResendFile, Answer
  <2>3. QED
    BY <2>1, <2>2
<1>9. ASSUME NEW ok \in BOOLEAN, SendFront(ok) PROVE [Actual!Next]_<<Kept, acked>>
  <2>1. cur \in Msg /\ (InQueue(cur) \/ InHand(cur)) /\ ~InFailed(cur)
    BY <1>0, <1>9, FrontIsSomewhere DEF SendFront
  <2>2. cur \in accepted /\ (cur \notin spoiled => ~InFile(cur))
    BY <1>0, <2>1 DEF PlacesInv, ApartInv
  <2>3. Kept[cur] = IF cur \in spoiled THEN "spoiled" ELSE "queued"
    BY <1>d, <2>1, <2>2, StatusIs
  <2>4. CASE ok
    BY <1>9, <1>e, <2>1, <2>3, <2>4 DEF SendFront, Answer
  <2>5. CASE ~ok
    <3>1. \A x : InFailed(x)' <=> InFailed(x) \/ x = cur
      BY <1>0, <1>9, <2>1, <2>5, FailedGrows DEF SendFront, TypeOK, PlacesInv
    <3>2. \A x \in Msg : StatusOf(x)' = IF x = cur /\ cur \notin spoiled
                                          THEN "failed" ELSE StatusOf(x)
      BY <1>9, <2>1, <2>2, <3>1, StatusIs, StatusNext DEF SendFront, InFile, InQueue, InHand
    <3>3. UNCHANGED acked
      BY <1>9, <2>5 DEF SendFront, Answer
    <3>4. CASE cur \in spoiled
      BY <1>c, <2>1, <3>2, <3>3, <3>4
    <3>5. CASE cur \notin spoiled
      <4>1. Actual!Refuse(cur)
        BY <2>1, <2>3, <3>2, <3>3, <3>5, OneMoves DEF Actual!Refuse, Actual!Move, Kept
      <4>2. QED
        BY <1>a, <2>1, <4>1
    <3>6. QED
      BY <3>4, <3>5
  <2>6. QED
    BY <2>4, <2>5
<1>10. ASSUME NEW ok \in BOOLEAN, RetryFailed(ok) PROVE [Actual!Next]_<<Kept, acked>>
  <2>1. PICK m \in Msg : m = Head(failedQ) /\ InFailed(m)
    BY <1>0, <1>10, RemoveHead DEF RetryFailed, TypeOK, PlacesInv, InFailed
  <2>2. /\ m \in accepted /\ ~InQueue(m) /\ ~InHand(m)
        /\ m \notin spoiled => ~InFile(m)
    BY <1>0, <1>10, <2>1 DEF RetryFailed, PlacesInv, ApartInv
  <2>3. Kept[m] = IF m \in spoiled THEN "spoiled" ELSE "failed"
    BY <1>d, <2>1, <2>2, StatusIs
  <2>4. CASE ok
    BY <1>10, <1>e, <2>1, <2>3, <2>4 DEF RetryFailed, Answer
  <2>5. CASE ~ok
    <3>1. \A x : InFailed(x)' <=> InFailed(x) /\ x # m
      BY <1>0, <1>10, <2>1, <2>5, FailedShrinks DEF RetryFailed, TypeOK, PlacesInv
    <3>2. \A x \in Msg : StatusOf(x)' = IF x = m /\ m \notin spoiled
                                          THEN "gone" ELSE StatusOf(x)
      BY <1>10, <2>2, <3>1, StatusIs, StatusNext DEF RetryFailed, InFile, InQueue, InHand
    <3>3. UNCHANGED acked
      BY <1>10, <2>5 DEF RetryFailed, Answer
    <3>4. CASE m \in spoiled
      BY <1>c, <3>2, <3>3, <3>4
    <3>5. CASE m \notin spoiled
      <4>1. Actual!Forfeit(m)
        BY <2>3, <3>2, <3>3, <3>5, OneMoves DEF Actual!Forfeit, Actual!Move, Kept
      <4>2. QED
        BY <1>a, <4>1
    <3>6. QED
      BY <3>4, <3>5
  <2>6. QED
    BY <2>4, <2>5
<1>11. ASSUME PopFront PROVE [Actual!Next]_<<Kept, acked>>
  <2>1. q # <<>> /\ cur \in Msg
    BY <1>0, <1>11, ParamAssumption
    DEF PopFront, IInv, FrontInv, LockInv, PopsWhatItSent, Pushing
  <2>2. PICK m \in Msg : m = cur /\ m = Head(q)
    BY <1>0, <1>11, <2>1, ParamAssumption DEF PopFront, FrontInv, PopsWhatItSent
  <2>3. InQueue(m) /\ \A x : InQueue(x)' <=> InQueue(x) /\ x # m
    BY <1>0, <1>11, <2>1, <2>2, RemoveHead DEF PopFront, TypeOK, PlacesInv, InQueue
  <2>4. m \in accepted /\ ~InHand(m) /\ (m \notin spoiled => ~InFile(m))
    BY <1>0, <2>3 DEF PlacesInv, ApartInv
  <2>5. UNCHANGED acked
    BY <1>11 DEF PopFront
  <2>6. CASE InFailed(m) \/ m \in spoiled
    <3>1. \A x \in Msg : StatusOf(x)' = StatusOf(x)
      BY <1>11, <2>3, <2>6, StatusIs, StatusNext DEF PopFront, InFile, InFailed, InHand
    <3>2. QED
      BY <1>c, <2>5, <3>1
  <2>7. CASE ~InFailed(m) /\ m \notin spoiled
    <3>1. m \in acked /\ Kept[m] = "queued"
      BY <1>0, <1>11, <1>d, <2>2, <2>3, <2>4, <2>7, StatusIs DEF PopFront, AckInv
    <3>2. \A x \in Msg : StatusOf(x)' = IF x = m THEN "gone" ELSE StatusOf(x)
      BY <1>11, <2>3, <2>4, <2>7, StatusIs, StatusNext
      DEF PopFront, InFile, InFailed, InHand
    <3>3. Actual!Settle(m)
      BY <2>5, <3>1, <3>2, OneMoves DEF Actual!Settle, Actual!Volatile, Actual!Move, Kept
    <3>4. QED
      BY <1>a, <3>3
  <2>8. QED
    BY <2>6, <2>7
<1>12. ASSUME Restart PROVE [Actual!Next]_<<Kept, acked>>
  <2>1. \A x \in Msg : ~InHand(x)' /\ ~InQueue(x)' /\ ~InFailed(x)'
    BY <1>12, NoneIsNoMessage DEF Restart, InHand, InQueue, InFailed, Range
  <2>2. \A x \in Msg : StatusOf(x)' = IF StatusOf(x) \in {"queued", "failed"}
                                      THEN "gone" ELSE StatusOf(x)
    BY <1>12, <2>1, StatusIs, StatusNext DEF Restart, InFile
  <2>3. Actual!CrashLoss
    BY <1>12, <2>2 DEF Restart, Actual!CrashLoss, Actual!Volatile
  <2>4. QED
    BY <2>3, Zenon DEF Actual!Next
<1>13. ASSUME NEW p \in Producers, ProducerLock(p) \/ Signal(p) \/ ProducerUnlock(p)
       PROVE  [Actual!Next]_<<Kept, acked>>
  BY <1>b, <1>13 DEF ProducerLock, Signal, ProducerUnlock
<1>14. ASSUME \/ RemoveUnfinished \/ ListFiles \/ ResendDone \/ LockQueue \/ LockResend
              \/ LookAtQueue \/ Sleep \/ CheckWoken \/ UnlockResend \/ SeeWork
              \/ SeeNoWork \/ RetryDone \/ BatchDone \/ ReportMetric
       PROVE  [Actual!Next]_<<Kept, acked>>
  BY <1>b, <1>14
  DEF RemoveUnfinished, ListFiles, ResendDone, LockQueue, LockResend, LookAtQueue,
      Sleep, CheckWoken, UnlockResend, SeeWork, SeeNoWork, RetryDone, BatchDone,
      ReportMetric
<1>15. CASE UNCHANGED vars
  BY <1>b, <1>15 DEF vars
<1>16. CASE \E p \in Producers : ProducerStep(p)
  BY <1>2, <1>3, <1>4, <1>12, <1>13, <1>16 DEF ProducerStep, OverflowAbort, RenameFails
<1>17. CASE UploaderStep
  BY <1>5, <1>6, <1>7, <1>8, <1>9, <1>10, <1>11, <1>12, <1>14, <1>17
  DEF UploaderStep, SaveFailedAbort, RenameFails
<1>18. QED
  BY <1>1, <1>12, <1>15, <1>16, <1>17 DEF Next, Crash

(* The uploader implements StoreForward: every message is kept until it is *)
(* acknowledged, stored, or dropped by the retry loop after a failed       *)
(* upload, whatever the number of producers and whenever the process is    *)
(* stopped; and only a message whose save shared its name with another or  *)
(* failed is out of this promise.                                          *)
THEOREM Refinement == Spec => KeepsMessages
<1>1. KInv /\ KInv' /\ [Next]_vars => [Actual!Next]_<<Kept, acked>>
  BY StepMaps
<1>2. QED
  BY InitMaps, <1>1, Places, PTL DEF Spec, KeepsMessages, Actual!Spec, Kept

(* What the promise says of one message that is on disk.                   *)
LEMMA StoredStays ==
  ASSUME NEW m \in Msg, [Actual!Next]_<<Kept, acked>>,
         Kept[m] = "stored", Kept'[m] # "stored"
  PROVE  m \in acked' \/ Kept'[m] = "spoiled"
<1>1. \A from, to : \A n \in Msg : n # m \/ "stored" \notin from \/ to = "stored" =>
        ~(Kept[n] \in from /\ Kept' = [Kept EXCEPT ![n] = to])
  BY DEF Kept
<1>2. CASE \E n \in Msg : \/ Actual!Accept(n) \/ Actual!Refuse(n) \/ Actual!Persist(n)
                          \/ Actual!Forfeit(n)
  BY <1>1, <1>2
  DEF Actual!Accept, Actual!Refuse, Actual!Persist, Actual!Forfeit, Actual!Move,
      Actual!Volatile, Kept
<1>3. CASE \E n \in Msg : Actual!Settle(n)
  BY <1>1, <1>3 DEF Actual!Settle, Actual!Move, Kept
<1>4. CASE UNCHANGED Kept \/ \E n \in Msg : Actual!Acknowledge(n)
  BY <1>4 DEF Actual!Acknowledge, Kept
<1>5. CASE Actual!CrashLoss
  BY <1>5 DEF Actual!CrashLoss, Actual!Volatile, Kept
<1>6. CASE \E S \in SUBSET Msg : Actual!Spoil(S)
  BY <1>6 DEF Actual!Spoil, Kept
<1>7. QED
  BY <1>2, <1>3, <1>4, <1>5, <1>6 DEF Actual!Next, Kept

(* A message that is completely saved on disk stays there until an upload  *)
(* of it was acknowledged (resendCache removes the file after the answer), *)
(* unless its file name was used twice.                                    *)
THEOREM StoredIsKept == Spec => StoredUntilAcked
<1>1. ASSUME KInv, KInv', [Next]_vars, NEW m \in Msg, InFile(m), ~InFile(m)'
      PROVE  m \in acked' \cup spoiled'
  <2>1. m \in accepted
    <3>1. PICK t \in Stamps : over[t] = m
      BY <1>1 DEF InFile, Range, KInv, MInv, IInv, TypeOK
    <3>2. QED
      BY <1>1, <3>1, ParamAssumption DEF KInv, FilesInv
  <2>2. CASE m \in spoiled
    BY <1>1, <2>2, SpoiledStay
  <2>3. CASE m \notin spoiled
    <3>1. Kept[m] = "stored"
      BY <1>1, <2>1, <2>3, StatusIs DEF Kept
    <3>2. Kept'[m] # "stored"
      BY <1>1, StatusNext DEF Kept
    <3>3. m \in acked' \/ Kept'[m] = "spoiled"
      BY <1>1, <3>1, <3>2, StepMaps, StoredStays
    <3>4. QED
      BY <3>3, StatusNext DEF Kept
  <2>4. QED
    BY <2>2, <2>3
<1>2. KInv /\ KInv' /\ [Next]_vars =>
        [\A m \in Msg : InFile(m) /\ ~InFile(m)' => m \in acked' \cup spoiled']_vars
  BY <1>1
<1>3. QED
  BY <1>2, Places, PTL DEF Spec, StoredUntilAcked

(* With distinct file names and a disk that works nothing is ever spoiled. *)
THEOREM NothingSpoiled == ~SameMs /\ ~DiskFaults => (Spec => [](spoiled = {}))
<1> SUFFICES ASSUME ~SameMs, ~DiskFaults PROVE Spec => [](spoiled = {})
  OBVIOUS
<1>1. KInv /\ KInv' /\ spoiled = {} /\ [Next]_vars => (spoiled = {})'
  BY SpoiledStay
<1>2. Init => spoiled = {}
  BY DEF Init
<1>3. QED
  BY <1>1, <1>2, Places, PTL DEF Spec
=============================================================================
