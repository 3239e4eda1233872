------------------------------ MODULE FlowRpc ------------------------------
(***************************************************************************)
(* FlowRpcAsynProcessor: the uploader of flow events.                      *)
(*                                                                         *)
(* Producers (the dispatch thread) call SendToFlowServer, which appends to *)
(* q_ under qmt_ or, when the backlog is over QMAX, saves the message in a *)
(* file.  One uploader thread (run) sleeps on resmt_, a std::mutex used as *)
(* a binary semaphore, sends the front of q_, keeps failed messages in the *)
(* local failed_q, writes them to files after FAILMAX failures and sends   *)
(* the files again after a later success.                                  *)
(*                                                                         *)
(* A mutex that its owner locks again sleeps until another thread unlocks  *)
(* it, and unlocking a free mutex leaves it free: what the pthread mutex   *)
(* under std::mutex does, and what the code relies on.                     *)
(***************************************************************************)
EXTENDS Integers, Sequences, FiniteSets, Functions

CONSTANTS
  Msg,         \* messages; each is handed over at most once
  Producers,   \* threads calling SendToFlowServer
  QMAX,        \* 2000: backlog beyond which messages go to files
  FAILMAX,     \* 10: failed uploads after which failed_q is saved
  METRICFREQ,  \* 20: the intended spacing of metric reports
  Stamps,      \* millisecond time stamps that can name a file
  SameMs,      \* may two saves read the same millisecond?
  DiskFaults,  \* may creating, writing and removing files fail?
  MayCrash,    \* may the process be stopped at any point?
  Uploader,    \* the thread executing run()
  None,        \* no owner, no file, nothing in hand
  Torn         \* a file that lost part of its message

ASSUME ParamAssumption ==
  /\ QMAX \in Nat \ {0}
  /\ FAILMAX \in Nat \ {0}
  /\ METRICFREQ \in Nat \ {0}
  /\ IsFiniteSet(Stamps)
  /\ Uploader \notin Producers
  /\ None \notin Msg \cup Producers \cup Stamps \cup {Uploader, Torn}
  /\ Torn \notin Msg
  /\ {SameMs, DiskFaults, MayCrash} \subseteq BOOLEAN

VARIABLES
  pp,        \* program counter of each producer
  hand,      \* the message each producer is delivering
  up,        \* program counter of the uploader
  q,         \* q_
  qmt,       \* owner of qmt_
  resmt,     \* is resmt_ locked?
  cur,       \* the message sendMessage(q_.front()) was called with
  failedQ,   \* failed_q
  failCnt,   \* continue_failed_cnt
  ret,       \* ret: what the last sendMessage returned
  files,     \* filelist of the running resendCache
  back,      \* where the running resendCache returns to
  freq,      \* metric_upload_freq
  cnt,       \* the four metric counters
  stamp,     \* time stamp in the name of the file an actor is handling
  dat,       \* <stamp>_request_grpc_flow_failed.dat
  over,      \* the same with the completion stamp
  accepted,  \* history: messages handed to SendToFlowServer
  acked,     \* history: messages for which an upload returned true
  spoiled    \* history: messages in a save whose name was in use or that failed

disk == <<dat, over>>
history == <<accepted, acked, spoiled>>
producerVars == <<pp, hand>>
localVars == <<cur, failedQ, failCnt, ret, files, back, freq, cnt>>
vars == <<pp, hand, up, q, qmt, resmt, cur, failedQ, failCnt, ret, files,
          back, freq, cnt, stamp, dat, over, accepted, acked, spoiled>>

Actors == Producers \cup {Uploader}
Content == Msg \cup {Torn, None}
Counters == {"rtFailed", "reSuccess", "reRetry", "history"}
ZeroCounters == [c \in Counters |-> 0]

PLabels == {"idle", "lock", "enqueue", "save", "rename", "signal", "unlock"}
ULabels == {"start", "list", "resend", "remove", "lock", "lock2", "look",
            "sleep", "woken", "leave", "test", "send", "retry", "pop",
            "batch", "stamp", "metric"}

TypeOK ==
  /\ pp \in [Producers -> PLabels]
  /\ hand \in [Producers -> Msg \cup {None}]
  /\ up \in ULabels
  /\ q \in Seq(Msg)
  /\ qmt \in Actors \cup {None}
  /\ resmt \in BOOLEAN
  /\ cur \in Msg \cup {None}
  /\ failedQ \in Seq(Msg)
  /\ failCnt \in Nat
  /\ ret \in BOOLEAN
  /\ files \subseteq Stamps
  /\ back \in {"lock", "pop"}
  /\ freq \in Nat
  /\ cnt \in [Counters -> Nat]
  /\ stamp \in [Actors -> Stamps \cup {None}]
  /\ dat \in [Stamps -> Content]
  /\ over \in [Stamps -> Content]
  /\ accepted \subseteq Msg
  /\ acked \subseteq Msg
  /\ spoiled \subseteq Msg
-----------------------------------------------------------------------------
(* What a fresh process starts with: everything but the files.             *)
Volatile0 ==
  /\ pp = [p \in Producers |-> "idle"]
  /\ hand = [p \in Producers |-> None]
  /\ up = "start"
  /\ q = <<>>
  /\ qmt = None
  /\ resmt = FALSE
  /\ cur = None
  /\ failedQ = <<>>
  /\ failCnt = 0
  /\ ret = FALSE
  /\ files = {}
  /\ back = "lock"
  /\ freq = 0
  /\ cnt = ZeroCounters
  /\ stamp = [a \in Actors |-> None]

Init ==
  /\ Volatile0
  /\ dat = [t \in Stamps |-> None]
  /\ over = [t \in Stamps |-> None]
  /\ accepted = {}
  /\ acked = {}
  /\ spoiled = {}

(* LOG(FATAL), a signal, or exit(0) of the daemon while this thread is     *)
(* anywhere; supervisor starts the program again.                          *)
Restart ==
  /\ pp' = [p \in Producers |-> "idle"]
  /\ hand' = [p \in Producers |-> None]
  /\ up' = "start"
  /\ q' = <<>>
  /\ qmt' = None
  /\ resmt' = FALSE
  /\ cur' = None
  /\ failedQ' = <<>>
  /\ failCnt' = 0
  /\ ret' = FALSE
  /\ files' = {}
  /\ back' = "lock"
  /\ freq' = 0
  /\ cnt' = ZeroCounters
  /\ stamp' = [a \in Actors |-> None]
  /\ UNCHANGED <<disk, history>>

Crash == MayCrash /\ Restart
-----------------------------------------------------------------------------
(* Who is between opening a file of stamp t and renaming it, and with      *)
(* which message.                                                          *)
Savers(t) == {a \in Actors : stamp[a] = t /\ ~(a = Uploader /\ up = "remove")}
Saved(a) == IF a = Uploader THEN Head(failedQ) ELSE hand[a]

(* A save of m under stamp t meets an earlier file of that name, or another *)
(* save of that name under way; the messages that the two can mix up.      *)
InUse(t) == dat[t] # None \/ over[t] # None \/ Savers(t) # {}
Touched(t, m) == Msg \cap ({m, dat[t], over[t]} \cup {Saved(a) : a \in Savers(t)})

(* saveCache: the name is the current millisecond; the file is created     *)
(* (truncating one of that name), written and closed.                      *)
WriteFile(actor, m) ==
  \E t \in Stamps :
    /\ SameMs \/ ~InUse(t)
    /\ stamp' = [stamp EXCEPT ![actor] = t]
    /\ \/ /\ dat' = [dat EXCEPT ![t] = m]
          /\ spoiled' = spoiled \cup IF InUse(t) THEN Touched(t, m) ELSE {}
       \/ /\ DiskFaults
          /\ \/ dat' = [dat EXCEPT ![t] = Torn]   \* short write
             \/ UNCHANGED dat                     \* open failed
          /\ spoiled' = spoiled \cup Touched(t, m)

(* addCompletionStamp: rename replaces a completed file of the same name.  *)
CompleteFile(actor) ==
  LET t == stamp[actor] IN
  /\ dat[t] # None
  /\ over' = [over EXCEPT ![t] = dat[t]]
  /\ dat' = [dat EXCEPT ![t] = None]
  /\ stamp' = [stamp EXCEPT ![actor] = None]

(* ... and is LOG(FATAL) when the file is not there.                       *)
RenameFails(actor) == dat[stamp[actor]] = None /\ Restart

(* sendMessage(m): the answer is the transport's; a true answer is an      *)
(* acknowledged upload.                                                    *)
Answer(m, ok) == acked' = IF ok THEN acked \cup ({m} \cap Msg) ELSE acked
-----------------------------------------------------------------------------
(* Mutants: the backlog test is off by one; the waker tests the size it    *)
(* expects without its own message.                                        *)
BacklogFull_OffByOne == Len(q) > QMAX + 1
MustWake_AtTwo == Len(q) = 2

(* The two tests of SendToFlowServer, made while it owns qmt_.             *)
BacklogFull == Len(q) > QMAX
MustWake == Len(q) = 1

(* SendToFlowServer, one action per visible step.                          *)
Submit(p, m) ==
  /\ pp[p] = "idle"
  /\ m \notin accepted
  /\ accepted' = accepted \cup {m}
  /\ hand' = [hand EXCEPT ![p] = m]
  /\ pp' = [pp EXCEPT ![p] = "lock"]
  /\ UNCHANGED <<up, q, qmt, resmt, localVars, stamp, disk, acked, spoiled>>

ProducerLock(p) ==
  /\ pp[p] = "lock"
  /\ qmt = None
  /\ qmt' = p
  /\ pp' = [pp EXCEPT ![p] = IF BacklogFull THEN "save" ELSE "enqueue"]
  /\ UNCHANGED <<hand, up, q, resmt, localVars, stamp, disk, history>>

(* Mutant: the message is pushed at the wrong end.                         *)
Enqueue_AtFront(p) ==
  /\ pp[p] = "enqueue"
  /\ q' = <<hand[p]>> \o q
  /\ hand' = [hand EXCEPT ![p] = None]
  /\ pp' = [pp EXCEPT ![p] = "signal"]
  /\ UNCHANGED <<up, qmt, resmt, localVars, stamp, disk, history>>

Enqueue(p) ==
  /\ pp[p] = "enqueue"
  /\ q' = Append(q, hand[p])
  /\ hand' = [hand EXCEPT ![p] = None]
  /\ pp' = [pp EXCEPT ![p] = "signal"]
  /\ UNCHANGED <<up, qmt, resmt, localVars, stamp, disk, history>>

OverflowSave(p) ==
  /\ pp[p] = "save"
  /\ WriteFile(p, hand[p])
  /\ pp' = [pp EXCEPT ![p] = "rename"]
  /\ UNCHANGED <<hand, up, q, qmt, resmt, localVars, over, accepted, acked>>

OverflowComplete(p) ==
  /\ pp[p] = "rename"
  /\ CompleteFile(p)
  /\ pp' = [pp EXCEPT ![p] = "signal"]
  /\ hand' = [hand EXCEPT ![p] = None]
  /\ UNCHANGED <<up, q, qmt, resmt, localVars, history>>

OverflowAbort(p) == pp[p] = "rename" /\ RenameFails(p)

Signal(p) ==
  /\ pp[p] = "signal"
  /\ resmt' = IF MustWake THEN FALSE ELSE resmt
  /\ pp' = [pp EXCEPT ![p] = "unlock"]
  /\ UNCHANGED <<hand, up, q, qmt, localVars, stamp, disk, history>>

ProducerUnlock(p) ==
  /\ pp[p] = "unlock"
  /\ qmt' = None
  /\ pp' = [pp EXCEPT ![p] = "idle"]
  /\ UNCHANGED <<hand, up, q, resmt, localVars, stamp, disk, history>>
-----------------------------------------------------------------------------
(* resendCache(data_store), called at start-up and after a success.        *)
Completed == {t \in Stamps : over[t] # None}

ListFiles ==
  /\ up = "list"
  /\ files' = Completed
  /\ cnt' = [cnt EXCEPT !["history"] = @ + Cardinality(Completed)]
  /\ up' = "resend"
  /\ UNCHANGED <<producerVars, q, qmt, resmt, cur, failedQ, failCnt, ret, back,
                 freq, stamp, disk, history>>

ResendDone ==
  /\ up = "resend"
  /\ files = {}
  /\ up' = back
  /\ UNCHANGED <<producerVars, q, qmt, resmt, localVars, stamp, disk, history>>

(* Mutant: the return after a failed resend is missing.                    *)
ResendFile_NoReturn(t, ok) ==
  /\ up = "resend"
  /\ t \in files
  /\ Answer(over[t], ok)
  /\ ret' = ok
  /\ IF ok
       THEN /\ stamp' = [stamp EXCEPT ![Uploader] = t]
            /\ cnt' = [cnt EXCEPT !["reSuccess"] = @ + 1]
            /\ up' = "remove"
            /\ UNCHANGED files
       ELSE /\ cnt' = [cnt EXCEPT !["reRetry"] = @ + 1]
            /\ stamp' = [stamp EXCEPT ![Uploader] = t]
            /\ up' = "remove"
            /\ UNCHANGED files
  /\ UNCHANGED <<producerVars, q, qmt, resmt, cur, failedQ, failCnt, back, freq,
                 disk, accepted, spoiled>>

ResendFile(t, ok) ==
  /\ up = "resend"
  /\ t \in files
  /\ Answer(over[t], ok)
  /\ ret' = ok
  /\ IF ok
       THEN /\ stamp' = [stamp EXCEPT ![Uploader] = t]
            /\ cnt' = [cnt EXCEPT !["reSuccess"] = @ + 1]
            /\ up' = "remove"
            /\ UNCHANGED files
       ELSE /\ cnt' = [cnt EXCEPT !["reRetry"] = @ + 1]
            /\ up' = back
            /\ files' = {}
            /\ UNCHANGED stamp
  /\ UNCHANGED <<producerVars, q, qmt, resmt, cur, failedQ, failCnt, back, freq,
                 disk, accepted, spoiled>>

RemoveFile ==
  /\ up = "remove"
  /\ \/ over' = [over EXCEPT ![stamp[Uploader]] = None]
     \/ DiskFaults /\ UNCHANGED over
  /\ files' = files \ {stamp[Uploader]}
  /\ stamp' = [stamp EXCEPT ![Uploader] = None]
  /\ up' = "resend"
  /\ UNCHANGED <<producerVars, q, qmt, resmt, cur, failedQ, failCnt, ret, back,
                 freq, cnt, dat, history>>
-----------------------------------------------------------------------------
(* run(): the uploader.                                                    *)
RemoveUnfinished ==
  /\ up = "start"
  /\ cnt' = [cnt EXCEPT !["history"] =
                @ + Cardinality({t \in Stamps : dat[t] # None})]
  /\ \E keep \in SUBSET {t \in Stamps : DiskFaults} :
       dat' = [t \in Stamps |-> IF t \in keep THEN dat[t] ELSE None]
  /\ up' = "list"
  /\ UNCHANGED <<producerVars, q, qmt, resmt, cur, failedQ, failCnt, ret, files,
                 back, freq, stamp, over, history>>

LockQueue ==
  /\ up = "lock"
  /\ qmt = None
  /\ qmt' = Uploader
  /\ up' = "lock2"
  /\ UNCHANGED <<producerVars, q, resmt, localVars, stamp, disk, history>>

LockResend ==
  /\ up = "lock2"
  /\ ~resmt
  /\ resmt' = TRUE
  /\ up' = "look"
  /\ UNCHANGED <<producerVars, q, qmt, localVars, stamp, disk, history>>

LookAtQueue ==
  /\ up = "look"
  /\ qmt' = None
  /\ up' = IF q = <<>> THEN "sleep" ELSE "leave"
  /\ UNCHANGED <<producerVars, q, resmt, localVars, stamp, disk, history>>

Sleep ==
  /\ up = "sleep"
  /\ ~resmt
  /\ resmt' = TRUE
  /\ up' = "woken"
  /\ UNCHANGED <<producerVars, q, qmt, localVars, stamp, disk, history>>

(* CHECK_GE(q_.size(), 0) compares an unsigned number with 0: no effect.   *)
CheckWoken ==
  /\ up = "woken"
  /\ up' = "leave"
  /\ UNCHANGED <<producerVars, q, qmt, resmt, localVars, stamp, disk, history>>

(* Mutant: resmt_ is not released after the sleep.                         *)
UnlockResend_Forgotten ==
  /\ up = "leave"
  /\ resmt' = resmt
  /\ up' = "test"
  /\ UNCHANGED <<producerVars, q, qmt, localVars, stamp, disk, history>>

UnlockResend ==
  /\ up = "leave"
  /\ resmt' = FALSE
  /\ up' = "test"
  /\ UNCHANGED <<producerVars, q, qmt, localVars, stamp, disk, history>>

(* while (q_.size() > 0), read without qmt_.  While a producer is inside   *)
(* q_.push the read races with it: it may see the queue before or after,   *)
(* or a mixture that looks empty.                                          *)
Pushing == {p \in Producers : pp[p] = "enqueue"}

SeeWork ==
  /\ up = "test"
  /\ \/ q # <<>> /\ cur' = Head(q)
     \/ \E p \in Pushing : q = <<>> /\ cur' = hand[p]
  /\ up' = "send"
  /\ UNCHANGED <<producerVars, q, qmt, resmt, failedQ, failCnt, ret, files, back,
                 freq, cnt, stamp, disk, history>>

SeeNoWork ==
  /\ up = "test"
  /\ q = <<>> \/ Pushing # {}
  /\ up' = "lock"
  /\ UNCHANGED <<producerVars, q, qmt, resmt, localVars, stamp, disk, history>>

(* Mutant: a failed message is not pushed to failed_q.                     *)
SendFront_NotKept(ok) ==
  /\ up = "send"
  /\ Answer(cur, ok)
  /\ ret' = ok
  /\ IF ok
       THEN up' = "retry" /\ UNCHANGED <<failCnt, failedQ, cnt>>
       ELSE /\ failCnt' = failCnt + 1
            /\ failedQ' = failedQ
            /\ cnt' = [cnt EXCEPT !["rtFailed"] = @ + 1]
            /\ up' = "pop"
  /\ UNCHANGED <<producerVars, q, qmt, resmt, cur, files, back, freq, stamp, disk,
                 accepted, spoiled>>

(* Mutant: a success decrements the count of failures.                     *)
SendFront_CountsDown(ok) ==
  /\ up = "send"
  /\ Answer(cur, ok)
  /\ ret' = ok
  /\ IF ok
       THEN up' = "retry" /\ failCnt' = failCnt - 1 /\ UNCHANGED <<failedQ, cnt>>
       ELSE /\ failCnt' = failCnt + 1
            /\ failedQ' = Append(failedQ, cur)
            /\ cnt' = [cnt EXCEPT !["rtFailed"] = @ + 1]
            /\ up' = "pop"
  /\ UNCHANGED <<producerVars, q, qmt, resmt, cur, files, back, freq, stamp, disk,
                 accepted, spoiled>>

SendFront(ok) ==
  /\ up = "send"
  /\ Answer(cur, ok)
  /\ ret' = ok
  /\ IF ok
       THEN up' = "retry" /\ UNCHANGED <<failCnt, failedQ, cnt>>
       ELSE /\ failCnt' = failCnt + 1
            /\ failedQ' = Append(failedQ, cur)
            /\ cnt' = [cnt EXCEPT !["rtFailed"] = @ + 1]
            /\ up' = "pop"
  /\ UNCHANGED <<producerVars, q, qmt, resmt, cur, files, back, freq, stamp, disk,
                 accepted, spoiled>>

(* while (failed_q.size() > 0): a true answer ends the loop and leaves the *)
(* message in failed_q, a false one drops it.                              *)
RetryFailed(ok) ==
  /\ up = "retry"
  /\ failedQ # <<>>
  /\ Answer(Head(failedQ), ok)
  /\ ret' = ok
  /\ IF ok
       THEN /\ cnt' = [cnt EXCEPT !["reRetry"] = @ + 1]
            /\ up' = "list" /\ back' = "pop"
            /\ UNCHANGED failedQ
       ELSE /\ cnt' = [cnt EXCEPT !["reSuccess"] = @ + 1]
            /\ failedQ' = Tail(failedQ)
            /\ UNCHANGED <<up, back>>
  /\ UNCHANGED <<producerVars, q, qmt, resmt, cur, failCnt, files, freq, stamp,
                 disk, accepted, spoiled>>

RetryDone ==
  /\ up = "retry"
  /\ failedQ = <<>>
  /\ IF ret THEN up' = "list" /\ back' = "pop"
            ELSE up' = "pop" /\ UNCHANGED back
  /\ UNCHANGED <<producerVars, q, qmt, resmt, cur, failedQ, failCnt, ret, files,
                 freq, cnt, stamp, disk, history>>

PopFront ==
  /\ up = "pop"
  /\ qmt = None
  /\ q' = Tail(q)
  /\ cur' = None
  /\ up' = "batch"
  /\ UNCHANGED <<producerVars, qmt, resmt, failedQ, failCnt, ret, files, back,
                 freq, cnt, stamp, disk, history>>

SaveFailed ==
  /\ up = "batch"
  /\ failCnt >= FAILMAX
  /\ failedQ # <<>>
  /\ WriteFile(Uploader, Head(failedQ))
  /\ up' = "stamp"
  /\ UNCHANGED <<producerVars, q, qmt, resmt, localVars, over, accepted, acked>>

SaveFailedComplete ==
  /\ up = "stamp"
  /\ CompleteFile(Uploader)
  /\ failedQ' = Tail(failedQ)
  /\ up' = "batch"
  /\ UNCHANGED <<producerVars, q, qmt, resmt, cur, failCnt, ret, files, back,
                 freq, cnt, history>>

SaveFailedAbort == up = "stamp" /\ RenameFails(Uploader)

BatchDone ==
  /\ up = "batch"
  /\ failCnt < FAILMAX \/ failedQ = <<>>
  /\ failCnt' = IF failCnt >= FAILMAX THEN 0 ELSE failCnt
  /\ up' = "metric"
  /\ UNCHANGED <<producerVars, q, qmt, resmt, cur, failedQ, ret, files, back,
                 freq, cnt, stamp, disk, history>>

(* if (metric_upload_freq++ % 20 == 0) { sendMetric(); freq = 0; }         *)
ReportMetric ==
  /\ up = "metric"
  /\ IF freq % METRICFREQ = 0
       THEN cnt' = ZeroCounters /\ freq' = 0
       ELSE freq' = freq + 1 /\ UNCHANGED cnt
  /\ up' = "test"
  /\ UNCHANGED <<producerVars, q, qmt, resmt, cur, failedQ, failCnt, ret, files,
                 back, stamp, disk, history>>
-----------------------------------------------------------------------------
ProducerStep(p) ==
  \/ ProducerLock(p) \/ Enqueue(p) \/ OverflowSave(p) \/ OverflowComplete(p)
  \/ OverflowAbort(p) \/ Signal(p) \/ ProducerUnlock(p)

UploaderStep ==
  \/ RemoveUnfinished \/ ListFiles \/ ResendDone \/ RemoveFile
  \/ \E t \in Stamps, ok \in BOOLEAN : ResendFile(t, ok)
  \/ LockQueue \/ LockResend \/ LookAtQueue \/ Sleep \/ CheckWoken \/ UnlockResend
  \/ SeeWork \/ SeeNoWork \/ PopFront
  \/ \E ok \in BOOLEAN : SendFront(ok) \/ RetryFailed(ok)
  \/ RetryDone \/ SaveFailed \/ SaveFailedComplete \/ SaveFailedAbort
  \/ BatchDone \/ ReportMetric

Next ==
  \/ \E p \in Producers, m \in Msg : Submit(p, m)
  \/ \E p \in Producers : ProducerStep(p)
  \/ UploaderStep
  \/ Crash

Spec == Init /\ [][Next]_vars

(* Every upload ends (connect and transfer time-outs), and a thread that   *)
(* can always run eventually runs.  Nobody is obliged to submit.           *)
Fairness == WF_vars(UploaderStep) /\ \A p \in Producers : WF_vars(ProducerStep(p))
FairSpec == Spec /\ Fairness
-----------------------------------------------------------------------------
(* PROPERTIES                                                              *)

(* No wake-up is lost: when the uploader sleeps on a locked resmt_, the    *)
(* queue is empty, or the producer that made it non-empty still holds qmt_ *)
(* and is about to unlock resmt_ (SendToFlowServer lines 31-32 against     *)
(* run lines 134-138).                                                     *)
NoLostWakeup ==
  up = "sleep" /\ resmt /\ q # <<>> =>
    Len(q) = 1 /\ \E p \in Producers : pp[p] = "signal"

(* What the CHECK at line 139 says in its message ("must be bigger than    *)
(* 0"): after the sleep there is a message to send.                        *)
WakesToWork == up = "woken" => q # <<>>

(* The uploader never waits for resmt_ while it holds qmt_ (line 135), so  *)
(* no producer is ever shut out by a sleeping uploader.                    *)
NeverSleepsHoldingQueue == up = "lock2" => ~resmt

(* Memory is bounded whatever the network does: at most QMAX + 1 messages  *)
(* wait, and at most FAILMAX failed ones are kept (lines 26 and 169).      *)
BacklogBounded ==
  /\ Len(q) <= QMAX + 1
  /\ Len(failedQ) <= failCnt
  /\ failCnt <= FAILMAX

(* q_.pop() at line 166 removes the message that was sent at line 146,     *)
(* although the front was read without qmt_ and producers ran in between.  *)
PopsWhatItSent ==
  cur # None =>
    IF q # <<>> THEN Head(q) = cur ELSE \E p \in Pushing : hand[p] = cur

(* The inductive invariant behind the properties above: who owns qmt_ and  *)
(* resmt_ at each program point, what a sleeping uploader implies, what    *)
(* each point knows of the backlog, and that the message being sent is the *)
(* front of the queue (or is being pushed as its front).                   *)
LockInv ==
  /\ \A p \in Producers :
       pp[p] \in {"enqueue", "save", "rename", "signal", "unlock"} <=> qmt = p
  /\ up \in {"lock2", "look"} <=> qmt = Uploader
  /\ resmt => up \in {"look", "sleep", "woken", "leave"}
  /\ up = "look" => resmt

SleepInv ==
  /\ NoLostWakeup
  /\ WakesToWork
  /\ up = "sleep" /\ ~resmt => q # <<>>

BacklogInv ==
  /\ BacklogBounded
  /\ \A p \in Pushing : Len(q) <= QMAX
  /\ up \notin {"pop", "batch", "stamp"} => failCnt < FAILMAX
  /\ up = "stamp" => failedQ # <<>>

FrontInv ==
  /\ \A p \in Producers :
       pp[p] \in {"lock", "enqueue", "save", "rename"} => hand[p] \in Msg
  /\ up \in {"send", "retry", "pop"} => cur \in Msg
  /\ up \in {"start", "list", "resend", "remove"} /\ back = "pop" => cur \in Msg
  /\ PopsWhatItSent

IInv == TypeOK /\ LockInv /\ SleepInv /\ BacklogInv /\ FrontInv

InFile(m) == m \in Range(over)

(* A message that is completely saved on disk stays there until an upload  *)
(* of it was acknowledged.  There is one other way to lose it: the current *)
(* millisecond was used to name two saves (line 72).  No crash, no failed  *)
(* open, write, rename, removal or upload, and no interleaving of the      *)
(* resend with the saves of producers does it.                             *)
StoredUntilAcked ==
  [][\A m \in Msg : InFile(m) /\ ~InFile(m)' => m \in acked' \cup spoiled']_vars

(* A failed message leaves failed_q only when an upload of it was          *)
(* acknowledged or it is saved on disk ("once the network sends            *)
(* successfully, all the piled-up failed data can be sent", line 152).     *)
FailedKeptUntilAcked ==
  [][\A m \in Range(failedQ) : m \in Range(failedQ') \/ m \in acked' \/ InFile(m)']_vars

(* Where each message is, for the abstract specification.                  *)
StatusOf(m) ==
  IF m \notin accepted THEN "new"
  ELSE IF m \in spoiled THEN "spoiled"
  ELSE IF InFile(m) THEN "stored"
  ELSE IF m \in Range(failedQ) THEN "failed"
  ELSE IF m \in Range(q) \cup Range(hand) THEN "queued"
  ELSE "gone"

Actual == INSTANCE StoreForward
            WITH LossyRetry <- TRUE, MaySpoil <- SameMs \/ DiskFaults,
                 status <- [m \in Msg |-> StatusOf(m)]

(* The uploader keeps every message until it is acknowledged, stored on    *)
(* disk or, once an upload of it has failed, dropped by the retry loop;    *)
(* a crash loses only what is in memory, and a save that shares its name   *)
(* with another, or fails, spoils only the messages of the two saves.      *)
KeepsMessages == Actual!Spec

(* Every queued message is taken from the queue (sent, or failed and kept) *)
(* as long as uploads terminate: no interleaving leaves it behind.         *)
BacklogDrains == \A m \in Msg : m \in Range(q) ~> m \notin Range(q)

(* SendToFlowServer always returns: the dispatch thread never blocks on    *)
(* the uploader.                                                           *)
ProducersReturn == \A p \in Producers : pp[p] # "idle" ~> pp[p] = "idle"
=============================================================================
