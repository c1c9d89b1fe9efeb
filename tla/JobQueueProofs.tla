--------------------------- MODULE JobQueueProofs ---------------------------
(***************************************************************************)
(* Proofs about JobQueue, for any sets of jobs, processes and operators    *)
(* and any bounds: its type, what the lists and hands hold, how many       *)
(* copies of a job there are, what its counter says, and that it           *)
(* implements AtLeastOnceQueue.                                            *)
(***************************************************************************)
EXTENDS JobQueue, SequenceTheorems, FiniteSetTheorems, TLAPS

-----------------------------------------------------------------------------
(* The lists.                                                              *)

(***************************************************************************)
(* LPUSH: the list grows by one on the left, the rest keeps its order.     *)
(***************************************************************************)
LEMMA LPushFacts ==
    ASSUME NEW S, NEW s \in Seq(S), NEW e \in S
    PROVE  /\ LPush(s, e) \in Seq(S)
           /\ Len(LPush(s, e)) = Len(s) + 1
           /\ LPush(s, e)[1] = e
           /\ \A i \in 2..(Len(s) + 1) : LPush(s, e)[i] = s[i - 1]
    BY DEF LPush

(***************************************************************************)
(* Taking the rightmost entry leaves the others in their places.           *)
(***************************************************************************)
LEMMA PopFacts ==
    ASSUME NEW S, NEW s \in Seq(S), s # <<>>
    PROVE  /\ Len(s) \in Nat \ {0}
           /\ Rightmost(s) \in S
           /\ ButRightmost(s) \in Seq(S)
           /\ Len(ButRightmost(s)) = Len(s) - 1
           /\ \A i \in 1..(Len(s) - 1) : ButRightmost(s)[i] = s[i]
<1>1. Len(s) \in Nat \ {0}
  BY EmptySeq, LenProperties
<1>2. \A i \in 1..(Len(s) - 1) : s[i] \in S
  BY <1>1, ElementOfSeq
<1>3. Rightmost(s) \in S
  BY <1>1, ElementOfSeq DEF Rightmost
<1>4. \A i \in 1..(Len(s) - 1) : 1 + i - 1 = i
  BY <1>1
<1>5. /\ ButRightmost(s) \in Seq(S)
      /\ Len(ButRightmost(s)) = Len(s) - 1
      /\ \A i \in 1..(Len(s) - 1) : ButRightmost(s)[i] = s[1 + i - 1]
  <2> DEFINE n == Len(s) - 1
  <2>1. n \in Nat
    BY <1>1
  <2> HIDE DEF n
  <2>2. n - 1 + 1 = n /\ (IF 1 <= n THEN n - 1 + 1 ELSE 0) = n
    BY <2>1
  <2>3. /\ SubSeq(s, 1, n) \in Seq(S)
        /\ Len(SubSeq(s, 1, n)) = IF 1 <= n THEN n - 1 + 1 ELSE 0
        /\ \A i \in 1..(n - 1 + 1) : SubSeq(s, 1, n)[i] = s[1 + i - 1]
    BY <1>2, <2>1, SubSeqProperties DEF n
  <2> QED
    BY <2>2, <2>3 DEF ButRightmost, n
<1> QED
  BY <1>1, <1>3, <1>4, <1>5

(***************************************************************************)
(* LPUSH and LREM on a list modelled by its copies keep its type and       *)
(* touch one id only.                                                      *)
(***************************************************************************)
LEMMA CopyFacts ==
    ASSUME NEW copies \in [Job -> Nat], NEW j \in Job
    PROVE  /\ AddCopy(copies, j) \in [Job -> Nat]
           /\ TakeCopy(copies, j) \in [Job -> Nat]
           /\ AddCopy(copies, j)[j] = copies[j] + 1
           /\ TakeCopy(copies, j)[j] = IF copies[j] = 0 THEN 0 ELSE copies[j] - 1
           /\ \A k \in Job \ {j} : /\ AddCopy(copies, j)[k] = copies[k]
                                   /\ TakeCopy(copies, j)[k] = copies[k]
  BY DEF AddCopy, TakeCopy

-----------------------------------------------------------------------------
(* Types.  A process in the middle of an operation knows its job.          *)

StoreOK == /\ pending \in Seq(Job)
           /\ processing \in [Job -> Nat]
           /\ dead \in [Job -> Nat]
           /\ heartbeats \in [Job -> {"none", "fresh", "old"}]
           /\ deliveries \in [Job -> Nat]
HistoryOK == /\ submitted \subseteq Job
             /\ returned \subseteq Job
             /\ requeues \in [Job -> Nat]
             /\ crashes \in Nat
WorkerOK == /\ worker \in [Proc -> WorkerState]
            /\ \A p \in Proc : Driving(p) => worker[p].job \in Job
ReaperOK == /\ reaper \in [Proc -> ReaperState]
            /\ \A p \in Proc : reaper[p].pc \notin {"sleep", "scan", "down"}
                                  => reaper[p].job \in Job
OperatorOK == /\ operator \in [Operator -> OperatorState]
              /\ \A o \in Operator : operator[o].pc # "idle" => operator[o].job \in Job

TypeInv == StoreOK /\ HistoryOK /\ WorkerOK /\ ReaperOK /\ OperatorOK

(***************************************************************************)
(* The inductive type invariant gives the type invariant the runs check.   *)
(***************************************************************************)
LEMMA TypeInvTypes == TypeInv => TypeOK
  BY DEF TypeInv, StoreOK, HistoryOK, WorkerOK, ReaperOK, OperatorOK, TypeOK

(***************************************************************************)
(* The initial states are well formed.                                     *)
(***************************************************************************)
LEMMA TypeInit == Init => TypeInv
<1> SUFFICES ASSUME Init PROVE TypeInv
  OBVIOUS
<1>1. StoreOK /\ HistoryOK
  BY DEF Init, StoreOK, HistoryOK, NoCopies
<1>2. WorkerOK
  BY DEF Init, WorkerOK, IdleWorker, WorkerState, WorkerPC, Driving
<1>3. ReaperOK
  BY DEF Init, ReaperOK, AsleepReaper, ReaperState, ReaperPC, NoCopies
<1>4. OperatorOK
  BY DEF Init, OperatorOK, IdleOperator, OperatorState, OperatorPC
<1> QED
  BY <1>1, <1>2, <1>3, <1>4 DEF TypeInv

(***************************************************************************)
(* Giving one loop a well-formed state keeps the loops well formed.        *)
(***************************************************************************)
LEMMA WorkerSetType ==
    ASSUME WorkerOK, NEW p \in Proc, NEW w \in WorkerState,
           w.pc \notin {"idle", "down"} => w.job \in Job,
           worker' = [worker EXCEPT ![p] = w]
    PROVE  WorkerOK'
  BY DEF WorkerOK, Driving

\* Moving a program counter keeps the job in hand.
LEMMA WorkerStepType ==
    ASSUME WorkerOK, NEW p \in Proc, NEW from \in WorkerPC \ {"idle", "down"},
           NEW to \in WorkerPC \ {"idle", "down"}, WorkerStep(p, from, to)
    PROVE  WorkerOK'
  BY DEF WorkerOK, WorkerStep, WorkerState, Driving

(***************************************************************************)
(* Giving one reaper a well-formed state keeps the reapers well formed.    *)
(***************************************************************************)
LEMMA ReaperSetType ==
    ASSUME ReaperOK, NEW p \in Proc, NEW r \in ReaperState,
           r.pc \notin {"sleep", "scan", "down"} => r.job \in Job,
           reaper' = [reaper EXCEPT ![p] = r]
    PROVE  ReaperOK'
  BY DEF ReaperOK

(***************************************************************************)
(* Moving a reaper to its next command keeps the entry in its hand.        *)
(***************************************************************************)
LEMMA ReaperStepType ==
    ASSUME ReaperOK, NEW p \in Proc, NEW from \in ReaperPC \ {"sleep", "scan", "down"},
           NEW to \in ReaperPC, ReaperStep(p, from, to)
    PROVE  ReaperOK'
  BY DEF ReaperOK, ReaperStep, ReaperState

\* The end of a process and its restart.
LEMMA ProcessFacts ==
    /\ IdleWorker \in WorkerState /\ IdleWorker.pc = "idle"
    /\ [IdleWorker EXCEPT !.pc = "down"] \in WorkerState
    /\ [IdleWorker EXCEPT !.pc = "down"].pc = "down"
    /\ AsleepReaper \in ReaperState /\ AsleepReaper.pc = "sleep"
    /\ [AsleepReaper EXCEPT !.pc = "down"] \in ReaperState
    /\ [AsleepReaper EXCEPT !.pc = "down"].pc = "down"
  BY DEF IdleWorker, WorkerState, WorkerPC, AsleepReaper, ReaperState, ReaperPC, NoCopies

(***************************************************************************)
(* Ending or starting a process sets its loop and its reaper together.     *)
(***************************************************************************)
LEMMA ProcessType ==
    ASSUME WorkerOK, ReaperOK, NEW p \in Proc,
           NEW w \in WorkerState, w.pc \in {"idle", "down"},
           NEW r \in ReaperState, r.pc \in {"sleep", "down"},
           worker' = [worker EXCEPT ![p] = w], reaper' = [reaper EXCEPT ![p] = r]
    PROVE  WorkerOK' /\ ReaperOK'
  BY DEF WorkerOK, ReaperOK, Driving

(***************************************************************************)
(* The claim/ack loop keeps every state well formed.                       *)
(***************************************************************************)
LEMMA TypeWorker ==
    ASSUME TypeInv, NEW p \in Proc, WorkerNext(p)
    PROVE  TypeInv'
<1> USE DEF TypeInv, StoreOK, HistoryOK
<1>1. CASE ClaimMove(p)
  <2>1. Rightmost(pending) \in Job /\ ButRightmost(pending) \in Seq(Job)
    BY <1>1, PopFacts DEF ClaimMove
  <2>2. StoreOK'
    BY <1>1, <2>1, CopyFacts DEF ClaimMove, hashes
  <2>3. WorkerOK'
    <3> DEFINE w == [worker[p] EXCEPT !.pc = "stamp", !.job = Rightmost(pending)]
    <3>1. w \in WorkerState /\ w.job \in Job
      BY <2>1 DEF WorkerOK, WorkerState, WorkerPC
    <3>2. worker' = [worker EXCEPT ![p] = w]
      BY <1>1 DEF ClaimMove, WorkerOK, WorkerState
    <3> HIDE DEF w
    <3> QED
      BY <3>1, <3>2, WorkerSetType
  <2> QED
    BY <1>1, <2>2, <2>3 DEF ClaimMove, ReaperOK, OperatorOK, history
<1>2. CASE ClaimStamp(p)
  <2>1. WorkerOK'
    BY <1>2, WorkerStepType DEF ClaimStamp, WorkerPC
  <2>2. ASSUME NEW r \in Proc
        PROVE  /\ reaper'[r] \in ReaperState
               /\ reaper'[r].pc = reaper[r].pc /\ reaper'[r].job = reaper[r].job
    BY <1>2 DEF ClaimStamp, ReaperOK, ReaperState
  <2>3. ReaperOK'
    <3>1. reaper' = [r \in Proc |-> reaper'[r]]
      BY <1>2 DEF ClaimStamp
    <3> QED
      BY <2>2, <3>1 DEF ReaperOK
  <2> QED
    BY <1>2, <2>1, <2>3 DEF ClaimStamp, OperatorOK, lists, history
<1>3. CASE Finish(p)
  <2>1. WorkerOK'
    BY <1>3, WorkerStepType DEF Finish, WorkerPC
  <2>2. worker[p].job \in Job
    BY <1>3 DEF Finish, WorkerStep, WorkerOK, Driving
  <2> QED
    BY <1>3, <2>1, <2>2 DEF Finish, ReaperOK, OperatorOK, lists, hashes
<1>4. CASE Requeue(p)
  <2>1. WorkerOK'
    BY <1>4, WorkerStepType DEF Requeue, WorkerPC
  <2>2. worker[p].job \in Job
    BY <1>4 DEF Requeue, WorkerStep, WorkerOK, Driving
  <2>3. StoreOK'
    BY <1>4, <2>2, LPushFacts DEF Requeue, EnqueueAgain, hashes
  <2>4. HistoryOK'
    BY <1>4, <2>2 DEF Requeue, EnqueueAgain
  <2> QED
    BY <1>4, <2>1, <2>3, <2>4 DEF Requeue, EnqueueAgain, ReaperOK, OperatorOK
<1>5. CASE Raise(p)
  <2>1. WorkerOK'
    <3> DEFINE w == [worker[p] EXCEPT !.pc = "ackList", !.exiting = TRUE]
    <3>1. w \in WorkerState /\ w.job \in Job
      BY <1>5 DEF Raise, WorkerOK, WorkerState, WorkerPC, Driving
    <3>2. worker' = [worker EXCEPT ![p] = w]
      BY <1>5 DEF Raise, WorkerOK, WorkerState
    <3> HIDE DEF w
    <3> QED
      BY <3>1, <3>2, WorkerSetType
  <2> QED
    BY <1>5, <2>1 DEF Raise, ReaperOK, OperatorOK, lists, hashes
<1>6. CASE AckList(p)
  <2>1. WorkerOK'
    BY <1>6, WorkerStepType DEF AckList, WorkerPC
  <2>2. worker[p].job \in Job
    BY <1>6 DEF AckList, WorkerStep, WorkerOK, Driving
  <2>3. StoreOK'
    BY <1>6, <2>2, CopyFacts DEF AckList, hashes
  <2> QED
    BY <1>6, <2>1, <2>3 DEF AckList, ReaperOK, OperatorOK, history
<1>7. CASE AckBeat(p)
  <2>1. WorkerOK'
    BY <1>7, WorkerStepType DEF AckBeat, WorkerPC
  <2> QED
    BY <1>7, <2>1 DEF AckBeat, DropBeat, ReaperOK, OperatorOK, lists, history
<1>8. CASE AckCount(p)
  <2>1. WorkerOK' /\ ReaperOK'
    <3>1. CASE worker[p].exiting
      BY <1>8, <3>1, ProcessType, ProcessFacts DEF AckCount, EndProcess
    <3>2. CASE ~worker[p].exiting
      <4>1. worker' = [worker EXCEPT ![p] = IdleWorker] /\ reaper' = reaper
        BY <1>8, <3>2 DEF AckCount
      <4> QED
        BY <4>1, ProcessFacts DEF WorkerOK, ReaperOK, Driving
    <3> QED
      BY <3>1, <3>2
  <2> QED
    BY <1>8, <2>1 DEF AckCount, ForgetDeliveries, OperatorOK, lists, history
<1> QED
  BY <1>1, <1>2, <1>3, <1>4, <1>5, <1>6, <1>7, <1>8 DEF WorkerNext

(***************************************************************************)
(* The sweep keeps every state well formed.                                *)
(***************************************************************************)
LEMMA TypeReaper ==
    ASSUME TypeInv, NEW p \in Proc, ReaperNext(p)
    PROVE  TypeInv'
<1> USE DEF TypeInv, StoreOK, HistoryOK
<1>1. CASE SweepStart(p)
  <2> DEFINE r == [pc |-> "scan", job |-> Free, todo |-> processing,
                   expired |-> {j \in Job : heartbeats[j] = "old"}]
  <2>1. r \in ReaperState /\ r.pc = "scan" /\ reaper' = [reaper EXCEPT ![p] = r]
    BY <1>1 DEF SweepStart, ReaperState, ReaperPC
  <2>2. ReaperOK'
    BY <2>1, ReaperSetType
  <2> QED
    BY <1>1, <2>2 DEF SweepStart, WorkerOK, OperatorOK, Driving, lists, hashes, history
<1>2. CASE SweepEnd(p) \/ SweepFail(p)
  <2>2. ReaperOK'
    BY <1>2, ProcessFacts, ReaperSetType DEF SweepEnd, SweepFail
  <2> QED
    BY <1>2, <2>2 DEF SweepEnd, SweepFail, WorkerOK, OperatorOK, Driving, lists,
                      hashes, history
<1>3. ASSUME NEW j \in Job, SweepCheck(p, j)
      PROVE  TypeInv'
  <2> DEFINE stale == heartbeats[j] = "none" \/ j \in reaper[p].expired
             r == [reaper[p] EXCEPT !.todo[j] = @ - 1,
                                    !.job = IF stale THEN j ELSE Free,
                                    !.pc = IF stale THEN "remove" ELSE "scan"]
  <2>0. reaper[p] \in ReaperState /\ reaper[p].todo \in [Job -> Nat] /\ reaper[p].todo[j] > 0
    BY <1>3 DEF SweepCheck, ReaperOK, ReaperState
  <2>a. [reaper[p].todo EXCEPT ![j] = @ - 1] \in [Job -> Nat]
    BY <2>0
  <2>b. r \in ReaperState /\ (r.pc # "scan" => r.job \in Job)
    BY <2>0, <2>a DEF ReaperState, ReaperPC
  <2>c. reaper' = [reaper EXCEPT ![p] = r]
    BY <1>3, <2>0 DEF SweepCheck, ReaperOK
  <2>1. ReaperOK'
    BY <2>b, <2>c, ReaperSetType
  <2> QED
    BY <1>3, <2>1 DEF SweepCheck, WorkerOK, OperatorOK, Driving, lists, hashes, history
<1>4. CASE ReapRemove(p)
  <2> DEFINE mine == processing[reaper[p].job] > 0
             r == [reaper[p] EXCEPT !.pc = IF mine THEN "beat" ELSE "scan",
                                    !.job = IF mine THEN @ ELSE Free]
  <2>a. reaper[p] \in ReaperState /\ reaper[p].job \in Job
    BY <1>4 DEF ReapRemove, ReaperOK
  <2>b. r \in ReaperState /\ (r.pc # "scan" => r.job \in Job)
    BY <2>a DEF ReaperState, ReaperPC
  <2>c. reaper' = [reaper EXCEPT ![p] = r]
    BY <1>4, <2>a DEF ReapRemove, ReaperOK
  <2>1. ReaperOK'
    BY <2>b, <2>c, ReaperSetType
  <2>2. StoreOK'
    BY <1>4, <2>a, CopyFacts DEF ReapRemove, hashes
  <2> QED
    BY <1>4, <2>1, <2>2 DEF ReapRemove, WorkerOK, OperatorOK, Driving, history
<1>5. CASE ReapBeat(p)
  <2>1. ReaperOK'
    BY <1>5, ReaperStepType DEF ReapBeat, ReaperPC
  <2> QED
    BY <1>5, <2>1 DEF ReapBeat, DropBeat, WorkerOK, OperatorOK, Driving, lists, history
<1>6. CASE ReapCount(p)
  <2>1. ReaperOK'
    BY <1>6, ReaperStepType DEF ReapCount, ReaperPC
  <2>2. reaper[p].job \in Job
    BY <1>6 DEF ReapCount, ReaperStep, ReaperOK
  <2>3. deliveries' \in [Job -> Nat]
    BY <1>6, <2>2 DEF ReapCount
  <2>4. StoreOK'
    BY <1>6, <2>3 DEF ReapCount, lists
  <2> QED
    BY <1>6, <2>1, <2>4 DEF ReapCount, WorkerOK, OperatorOK, Driving, history
<1>7. CASE ReapReturn(p)
  <2>1. reaper[p].job \in Job
    BY <1>7 DEF ReapReturn, ReaperOK
  <2> DEFINE r == [reaper[p] EXCEPT !.pc = "scan", !.job = Free]
  <2>r. r \in ReaperState /\ r.pc = "scan" /\ reaper' = [reaper EXCEPT ![p] = r]
    BY <1>7 DEF ReapReturn, ReaperOK, ReaperState, ReaperPC
  <2>2. ReaperOK'
    BY <2>r, ReaperSetType
  <2>3. StoreOK'
    <3>1. pending' \in Seq(Job)
      BY <1>7, <2>1, LPushFacts DEF ReapReturn
    <3> QED
      BY <1>7, <3>1 DEF ReapReturn, hashes
  <2> QED
    BY <1>7, <2>2, <2>3 DEF ReapReturn, WorkerOK, OperatorOK, Driving, history
<1>8. CASE ReapBury(p)
  <2>1. ReaperOK'
    BY <1>8, ReaperStepType DEF ReapBury, ReaperPC
  <2>2. reaper[p].job \in Job
    BY <1>8 DEF ReapBury, ReaperStep, ReaperOK
  <2>3. StoreOK'
    BY <1>8, <2>2, CopyFacts DEF ReapBury, hashes
  <2> QED
    BY <1>8, <2>1, <2>3 DEF ReapBury, WorkerOK, OperatorOK, Driving, history
<1>9. CASE ReapForget(p)
  <2> DEFINE r == [reaper[p] EXCEPT !.pc = "scan", !.job = Free]
  <2>r. r \in ReaperState /\ r.pc = "scan" /\ reaper' = [reaper EXCEPT ![p] = r]
    BY <1>9 DEF ReapForget, ReaperOK, ReaperState, ReaperPC
  <2>1. ReaperOK'
    BY <2>r, ReaperSetType
  <2> QED
    BY <1>9, <2>1 DEF ReapForget, ForgetDeliveries, WorkerOK, OperatorOK, Driving,
                      lists, history
<1> QED
  BY <1>1, <1>2, <1>3, <1>4, <1>5, <1>6, <1>7, <1>8, <1>9 DEF ReaperNext

(***************************************************************************)
(* The dead-letter replay keeps every state well formed.                   *)
(***************************************************************************)
LEMMA TypeOperator ==
    ASSUME TypeInv, NEW o \in Operator, OperatorNext(o)
    PROVE  TypeInv'
<1> USE DEF TypeInv, StoreOK, HistoryOK
<1>1. ASSUME NEW j \in Job, ReplayRemove(o, j)
      PROVE  TypeInv'
  <2>1. OperatorOK'
    BY <1>1 DEF ReplayRemove, OperatorOK, OperatorState, OperatorPC
  <2> QED
    BY <1>1, <2>1 DEF ReplayRemove, WorkerOK, ReaperOK, Driving, hashes, history
<1>2. CASE ReplayClear(o)
  <2>1. OperatorOK'
    BY <1>2 DEF ReplayClear, OperatorStep, OperatorOK, OperatorState, OperatorPC
  <2> QED
    BY <1>2, <2>1 DEF ReplayClear, ForgetDeliveries, WorkerOK, ReaperOK, Driving,
                      lists, history
<1>3. CASE ReplayPush(o)
  <2>1. operator[o].job \in Job
    BY <1>3 DEF ReplayPush, OperatorOK
  <2>2. OperatorOK'
    BY <1>3 DEF ReplayPush, OperatorOK, IdleOperator, OperatorState, OperatorPC
  <2>3. StoreOK'
    <3>1. LPush(pending, operator[o].job) \in Seq(Job)
      BY <2>1, LPushFacts
    <3> QED
      BY <1>3, <3>1 DEF ReplayPush, hashes
  <2> QED
    BY <1>3, <2>2, <2>3 DEF ReplayPush, WorkerOK, ReaperOK, Driving, history
<1>4. CASE ReplayCrash(o)
  <2>1. OperatorOK'
    BY <1>4 DEF ReplayCrash, OperatorOK, IdleOperator, OperatorState, OperatorPC
  <2> QED
    BY <1>4, <2>1 DEF ReplayCrash, WorkerOK, ReaperOK, Driving, lists, hashes
<1> QED
  BY <1>1, <1>2, <1>3, <1>4 DEF OperatorNext

(***************************************************************************)
(* Every step keeps every state well formed.                               *)
(***************************************************************************)
LEMMA TypeStep == TypeInv /\ [Next]_vars => TypeInv'
<1> SUFFICES ASSUME TypeInv, [Next]_vars PROVE TypeInv'
  OBVIOUS
<1> USE DEF TypeInv, StoreOK, HistoryOK
<1>1. ASSUME NEW j \in Job, Submit(j) \/ Retry(j)
      PROVE  TypeInv'
  <2>1. pending' \in Seq(Job)
    BY <1>1, LPushFacts DEF Submit, Retry, EnqueueAgain
  <2>2. requeues[j] + 1 \in Nat
    OBVIOUS
  <2>3. requeues' \in [Job -> Nat]
    <3>1. CASE Submit(j)
      BY <3>1 DEF Submit
    <3>2. CASE Retry(j)
      BY <2>2, <3>2 DEF Retry, EnqueueAgain
    <3> QED
      BY <1>1, <3>1, <3>2
  <2>4. StoreOK' /\ HistoryOK'
    BY <1>1, <2>1, <2>3 DEF Submit, Retry, EnqueueAgain, hashes
  <2> QED
    BY <1>1, <2>4 DEF Submit, Retry, EnqueueAgain, WorkerOK, ReaperOK, OperatorOK, Driving
<1>2. ASSUME NEW j \in Job, Expire(j)
      PROVE  TypeInv'
  BY <1>2 DEF Expire, WorkerOK, ReaperOK, OperatorOK, Driving, lists, history
<1>3. ASSUME NEW p \in Proc, Crash(p) \/ Stop(p) \/ Restart(p)
      PROVE  TypeInv'
  <2>1. WorkerOK' /\ ReaperOK'
    <3>1. CASE Crash(p) \/ Stop(p)
      <4>1. EndProcess(p)
        BY <3>1 DEF Crash, Stop
      <4> QED
        BY <4>1, ProcessType, ProcessFacts DEF EndProcess
    <3>2. CASE Restart(p)
      BY <3>2, ProcessType, ProcessFacts DEF Restart
    <3> QED
      BY <1>3, <3>1, <3>2
  <2> QED
    BY <1>3, <2>1 DEF Crash, Stop, Restart, OperatorOK, lists, hashes, history
<1>4. CASE UNCHANGED vars
  BY <1>4 DEF vars, WorkerOK, ReaperOK, OperatorOK, Driving, lists, hashes, history
<1> QED
  BY <1>1, <1>2, <1>3, <1>4, TypeWorker, TypeReaper, TypeOperator DEF Next

(***************************************************************************)
(* Every command leaves the Redis keys and the coroutines in a state they  *)
(* can be in, whatever the faults.                                         *)
(***************************************************************************)
THEOREM TypeCorrect == Spec => []TypeOK
<1>1. Spec => []TypeInv
  BY TypeInit, TypeStep, PTL DEF Spec
<1> QED
  BY <1>1, TypeInvTypes, PTL

-----------------------------------------------------------------------------
(* No job is lost.                                                         *)

(***************************************************************************)
(* After LPUSH exactly the pushed id and the former ones occur.            *)
(***************************************************************************)
LEMMA OccursPush ==
    ASSUME NEW S, NEW s \in Seq(S), NEW e \in S, NEW j
    PROVE  Occurs(LPush(s, e), j) <=> (j = e \/ Occurs(s, j))
<1> DEFINE t == LPush(s, e)
<1>1. /\ Len(s) \in Nat /\ Len(t) = Len(s) + 1 /\ t[1] = e
      /\ \A i \in 2..(Len(s) + 1) : t[i] = s[i - 1]
  BY LPushFacts, LenProperties
<1> HIDE DEF t
<1>2. ASSUME Occurs(t, j) PROVE j = e \/ Occurs(s, j)
  <2>1. PICK i \in 1..Len(t) : t[i] = j
    BY <1>2 DEF Occurs
  <2>2. CASE i = 1
    BY <1>1, <2>1, <2>2
  <2>3. CASE i # 1
    <3>1. i \in 2..(Len(s) + 1) /\ i - 1 \in 1..Len(s)
      BY <1>1, <2>3
    <3> QED
      BY <1>1, <2>1, <3>1 DEF Occurs
  <2> QED
    BY <2>2, <2>3
<1>3. ASSUME Occurs(s, j) PROVE Occurs(t, j)
  <2>1. PICK i \in 1..Len(s) : s[i] = j
    BY <1>3 DEF Occurs
  <2>2. i + 1 \in 2..(Len(s) + 1) /\ i + 1 \in 1..Len(t) /\ (i + 1) - 1 = i
    BY <1>1
  <2>3. t[i + 1] = s[i]
    BY <1>1, <2>2
  <2> QED
    BY <2>1, <2>2, <2>3 DEF Occurs
<1>4. 1 \in 1..Len(t)
  BY <1>1
<1> QED
  BY <1>1, <1>2, <1>3, <1>4 DEF Occurs, t

(***************************************************************************)
(* An id occurs in a list at its right end or in what is left of it.       *)
(***************************************************************************)
LEMMA OccursPop ==
    ASSUME NEW S, NEW s \in Seq(S), s # <<>>, NEW j
    PROVE  Occurs(s, j) <=> (j = Rightmost(s) \/ Occurs(ButRightmost(s), j))
<1> DEFINE t == ButRightmost(s)
<1>1. /\ Len(s) \in Nat \ {0} /\ Len(t) = Len(s) - 1 /\ Rightmost(s) = s[Len(s)]
      /\ \A i \in 1..(Len(s) - 1) : t[i] = s[i]
  BY PopFacts DEF Rightmost
<1> HIDE DEF t
<1>2. ASSUME Occurs(s, j) PROVE j = s[Len(s)] \/ Occurs(t, j)
  <2>1. PICK i \in 1..Len(s) : s[i] = j
    BY <1>2 DEF Occurs
  <2>2. i = Len(s) \/ i \in 1..Len(t)
    BY <1>1
  <2> QED
    BY <1>1, <2>1, <2>2 DEF Occurs
<1>3. ASSUME Occurs(t, j) PROVE Occurs(s, j)
  <2>1. PICK i \in 1..Len(t) : t[i] = j
    BY <1>3 DEF Occurs
  <2>2. i \in 1..Len(s)
    BY <1>1
  <2> QED
    BY <1>1, <2>1, <2>2 DEF Occurs
<1>4. Len(s) \in 1..Len(s)
  BY <1>1
<1> QED
  BY <1>1, <1>2, <1>3, <1>4 DEF Occurs, t

\* Both coroutines of a process are up, or neither is.
DownTogether == \A p \in Proc : worker[p].pc = "down" => reaper[p].pc = "down"

\* With nothing that raises, only a driver that finished its job acks it.
AckedFinished ==
    \A p \in Proc : /\ worker[p].exiting = FALSE
                    /\ worker[p].pc = "ackList" => worker[p].job \in returned

(***************************************************************************)
(* A process has no reaper without its loop, and no loop without it.       *)
(***************************************************************************)
LEMMA DownStep ==
    ASSUME TypeInv, DownTogether, [Next]_vars
    PROVE  DownTogether'
<1> USE DEF TypeInv, DownTogether
<1>1. ASSUME NEW j \in Job, Submit(j) \/ Retry(j) \/ Expire(j)
      PROVE  DownTogether'
  BY <1>1 DEF Submit, Retry, EnqueueAgain, Expire
<1>2. ASSUME NEW p \in Proc, WorkerNext(p)
      PROVE  DownTogether'
  <2>1. CASE ClaimStamp(p)
    BY <2>1 DEF ClaimStamp, WorkerStep, WorkerOK, ReaperOK, WorkerState, ReaperState
  <2>2. CASE AckCount(p)
    <3>1. CASE worker[p].exiting
      BY <2>2, <3>1, ProcessFacts DEF AckCount, EndProcess, WorkerOK, ReaperOK
    <3>2. CASE ~worker[p].exiting
      <4>1. worker' = [worker EXCEPT ![p] = IdleWorker] /\ reaper' = reaper
        BY <2>2, <3>2 DEF AckCount
      <4> QED
        BY <4>1, ProcessFacts DEF WorkerOK
    <3> QED
      BY <3>1, <3>2
  <2>3. CASE ~ClaimStamp(p) /\ ~AckCount(p)
    BY <1>2, <2>3 DEF WorkerNext, ClaimMove, Finish, Requeue, EnqueueAgain, Raise, AckList,
                      AckBeat, WorkerStep, WorkerOK, WorkerState
  <2> QED
    BY <2>1, <2>2, <2>3
<1>3. ASSUME NEW p \in Proc, ReaperNext(p)
      PROVE  DownTogether'
  <2>1. reaper[p].pc # "down" /\ UNCHANGED worker
    BY <1>3 DEF ReaperNext, SweepStart, SweepEnd, SweepCheck, ReapRemove, ReapBeat,
                ReapCount, ReapReturn, ReapBury, ReapForget, SweepFail, ReaperStep
  <2>2. \A q \in Proc \ {p} : reaper'[q] = reaper[q]
    BY <1>3 DEF ReaperNext, SweepStart, SweepEnd, SweepCheck, ReapRemove, ReapBeat,
                ReapCount, ReapReturn, ReapBury, ReapForget, SweepFail, ReaperStep,
                ReaperOK
  <2> QED
    BY <2>1, <2>2
<1>4. ASSUME NEW p \in Proc, Crash(p) \/ Stop(p) \/ Restart(p)
      PROVE  DownTogether'
  BY <1>4, ProcessFacts DEF Crash, Stop, Restart, EndProcess, WorkerOK, ReaperOK
<1>5. ASSUME NEW o \in Operator, OperatorNext(o)
      PROVE  DownTogether'
  BY <1>5 DEF OperatorNext, ReplayRemove, ReplayClear, ReplayPush, ReplayCrash
<1>6. CASE UNCHANGED vars
  BY <1>6 DEF vars
<1> QED
  BY <1>1, <1>2, <1>3, <1>4, <1>5, <1>6 DEF Next

(***************************************************************************)
(* The loop acks only what a driver has finished, when nothing raises.     *)
(***************************************************************************)
LEMMA AckedStep ==
    ASSUME TypeInv, AckedFinished, ~Lossy, [Next]_vars
    PROVE  AckedFinished'
<1> USE DEF TypeInv, AckedFinished
<1>1. ASSUME NEW j \in Job, Submit(j) \/ Retry(j) \/ Expire(j)
      PROVE  AckedFinished'
  BY <1>1 DEF Submit, Retry, EnqueueAgain, Expire, history
<1>2. ASSUME NEW p \in Proc, WorkerNext(p)
      PROVE  AckedFinished'
  <2>1. "raise" \notin Faults
    BY DEF Lossy
  <2>2. CASE ClaimMove(p)
    BY <2>2 DEF ClaimMove, WorkerOK, WorkerState, history
  <2>3. CASE ClaimStamp(p) \/ AckList(p) \/ AckBeat(p)
    BY <2>3 DEF ClaimStamp, AckList, AckBeat, WorkerStep, WorkerOK, WorkerState, history
  <2>4. CASE Finish(p) \/ Requeue(p)
    BY <2>4 DEF Finish, Requeue, EnqueueAgain, WorkerStep, WorkerOK, WorkerState
  <2>5. CASE AckCount(p)
    <3>1. worker' = [worker EXCEPT ![p] = IdleWorker] /\ returned' = returned
      BY <2>5 DEF AckCount, history
    <3> QED
      BY <3>1, ProcessFacts DEF WorkerOK, IdleWorker
  <2> QED
    BY <1>2, <2>1, <2>2, <2>3, <2>4, <2>5 DEF WorkerNext, Raise
<1>3. ASSUME NEW p \in Proc, ReaperNext(p)
      PROVE  AckedFinished'
  BY <1>3 DEF ReaperNext, SweepStart, SweepEnd, SweepCheck, ReapRemove, ReapBeat,
              ReapCount, ReapReturn, ReapBury, ReapForget, SweepFail, history
<1>4. ASSUME NEW p \in Proc, Crash(p) \/ Stop(p) \/ Restart(p)
      PROVE  AckedFinished'
  BY <1>4, ProcessFacts DEF Crash, Stop, Restart, EndProcess, WorkerOK, IdleWorker, history
<1>5. ASSUME NEW o \in Operator, OperatorNext(o)
      PROVE  AckedFinished'
  BY <1>5 DEF OperatorNext, ReplayRemove, ReplayClear, ReplayPush, ReplayCrash, history
<1>6. CASE UNCHANGED vars
  BY <1>6 DEF vars, history
<1> QED
  BY <1>1, <1>2, <1>3, <1>4, <1>5, <1>6 DEF Next

(***************************************************************************)
(* Without a fault that ends a move half-way, every command keeps a copy   *)
(* of a job that nobody has finished.                                      *)
(***************************************************************************)
LEMMA SomewhereStep ==
    ASSUME TypeInv, DownTogether, AckedFinished, ~Lossy, [Next]_vars,
           NEW j \in Job, Somewhere(j), j \notin returned'
    PROVE  Somewhere(j)'
<1> USE DEF TypeInv, StoreOK
<1>1. ASSUME NEW k \in Job, Submit(k) \/ Retry(k) \/ Expire(k)
      PROVE  Somewhere(j)'
  <2>1. Occurs(pending, j) => Occurs(pending', j)
    BY <1>1, OccursPush DEF Submit, Retry, EnqueueAgain, Expire, lists
  <2> QED
    BY <1>1, <2>1 DEF Submit, Retry, EnqueueAgain, Expire, lists, Somewhere,
                      ReaperHolds, OperatorHolds, Moving
<1>2. ASSUME NEW p \in Proc, WorkerNext(p)
      PROVE  Somewhere(j)'
  <2>1. CASE ClaimMove(p)
    <3>1. Rightmost(pending) \in Job
      BY <2>1, PopFacts DEF ClaimMove
    <3>2. processing[j] > 0 \/ j = Rightmost(pending) => processing'[j] > 0
      BY <2>1, <3>1 DEF ClaimMove, AddCopy
    <3>3. Occurs(pending, j) => j = Rightmost(pending) \/ Occurs(pending', j)
      BY <2>1, OccursPop DEF ClaimMove
    <3> QED
      BY <2>1, <3>2, <3>3 DEF ClaimMove, Somewhere, ReaperHolds, OperatorHolds, Moving
  <2>2. CASE ClaimStamp(p)
    <3>1. \A r \in Proc : reaper'[r].pc = reaper[r].pc /\ reaper'[r].job = reaper[r].job
      BY <2>2 DEF ClaimStamp, ReaperOK, ReaperState
    <3> QED
      BY <2>2, <3>1 DEF ClaimStamp, lists, Somewhere, ReaperHolds, OperatorHolds, Moving
  <2>3. CASE Requeue(p)
    <3>1. worker[p].job \in Job
      BY <2>3 DEF Requeue, WorkerStep, WorkerOK, Driving
    <3>2. Occurs(pending, j) => Occurs(pending', j)
      BY <2>3, <3>1, OccursPush DEF Requeue, EnqueueAgain
    <3> QED
      BY <2>3, <3>2 DEF Requeue, EnqueueAgain, Somewhere, ReaperHolds, OperatorHolds, Moving
  <2>4. CASE AckList(p)
    <3>1. worker[p].job \in Job /\ worker[p].job \in returned
      BY <2>4 DEF AckList, WorkerStep, WorkerOK, Driving, AckedFinished
    <3>2. processing'[j] = processing[j]
      BY <2>4, <3>1 DEF AckList, TakeCopy, history
    <3> QED
      BY <2>4, <3>2 DEF AckList, Somewhere, ReaperHolds, OperatorHolds, Moving
  <2>5. CASE AckCount(p)
    BY <2>5 DEF AckCount, AckedFinished, lists, Somewhere, ReaperHolds, OperatorHolds, Moving
  <2>6. CASE Finish(p) \/ Raise(p) \/ AckBeat(p)
    BY <2>6 DEF Finish, Raise, AckBeat, lists, Somewhere, ReaperHolds, OperatorHolds, Moving
  <2> QED
    BY <1>2, <2>1, <2>2, <2>3, <2>4, <2>5, <2>6 DEF WorkerNext
<1>3. ASSUME NEW p \in Proc, ReaperNext(p)
      PROVE  Somewhere(j)'
  <2>1. CASE SweepStart(p) \/ SweepEnd(p) \/ (\E k \in Job : SweepCheck(p, k)) \/ ReapForget(p)
    <3>1. ~Moving(p) /\ \A q \in Proc \ {p} : reaper'[q] = reaper[q]
      BY <2>1 DEF SweepStart, SweepEnd, SweepCheck, ReapForget, Moving, ReaperOK
    <3> QED
      BY <2>1, <3>1 DEF SweepStart, SweepEnd, SweepCheck, ReapForget, lists, Somewhere,
                        ReaperHolds, OperatorHolds, Moving
  <2>2. CASE ReapRemove(p)
    <3>1. reaper[p].job \in Job /\ ~Moving(p) /\ \A q \in Proc \ {p} : reaper'[q] = reaper[q]
      BY <2>2 DEF ReapRemove, Moving, ReaperOK
    <3>2. processing[reaper[p].job] > 0 => Moving(p)' /\ reaper'[p].job = reaper[p].job
      BY <2>2 DEF ReapRemove, Moving, ReaperOK, ReaperState
    <3>3. j # reaper[p].job => processing'[j] = processing[j]
      BY <2>2, <3>1 DEF ReapRemove, TakeCopy
    <3> QED
      BY <2>2, <3>1, <3>2, <3>3 DEF ReapRemove, Somewhere, ReaperHolds, OperatorHolds, Moving
  <2>3. CASE ReapBeat(p) \/ ReapCount(p)
    <3>1. /\ Moving(p)' /\ reaper'[p].job = reaper[p].job
          /\ \A q \in Proc \ {p} : reaper'[q] = reaper[q]
      BY <2>3 DEF ReapBeat, ReapCount, ReaperStep, Moving, ReaperOK, ReaperState
    <3> QED
      BY <2>3, <3>1 DEF ReapBeat, ReapCount, lists, Somewhere, ReaperHolds, OperatorHolds, Moving
  <2>4. CASE ReapReturn(p)
    <3>1. reaper[p].job \in Job /\ \A q \in Proc \ {p} : reaper'[q] = reaper[q]
      BY <2>4 DEF ReapReturn, ReaperOK
    <3>2. Occurs(pending', j) <=> (j = reaper[p].job \/ Occurs(pending, j))
      BY <2>4, <3>1, OccursPush DEF ReapReturn
    <3> QED
      BY <2>4, <3>1, <3>2 DEF ReapReturn, Somewhere, ReaperHolds, OperatorHolds, Moving
  <2>5. CASE ReapBury(p)
    <3>1. reaper[p].job \in Job /\ \A q \in Proc \ {p} : reaper'[q] = reaper[q]
      BY <2>5 DEF ReapBury, ReaperStep, ReaperOK
    <3>2. dead[j] > 0 \/ j = reaper[p].job => dead'[j] > 0
      BY <2>5, <3>1 DEF ReapBury, ReaperStep, AddCopy
    <3> QED
      BY <2>5, <3>1, <3>2 DEF ReapBury, Somewhere, ReaperHolds, OperatorHolds, Moving
  <2> QED
    BY <1>3, <2>1, <2>2, <2>3, <2>4, <2>5 DEF ReaperNext, SweepFail, Lossy
<1>4. ASSUME NEW p \in Proc, Crash(p) \/ Stop(p) \/ Restart(p)
      PROVE  Somewhere(j)'
  <2>1. ~Moving(p) /\ \A q \in Proc \ {p} : reaper'[q] = reaper[q]
    BY <1>4 DEF Crash, Stop, Restart, EndProcess, Lossy, DownTogether, Moving, ReaperOK
  <2> QED
    BY <1>4, <2>1 DEF Crash, Stop, Restart, lists, Somewhere, ReaperHolds, OperatorHolds, Moving
<1>5. ASSUME NEW o \in Operator, OperatorNext(o)
      PROVE  Somewhere(j)'
  <2>1. ASSUME NEW k \in Job, ReplayRemove(o, k)
        PROVE  Somewhere(j)'
    <3>1. /\ OperatorHolds(o, k)' /\ operator[o].pc = "idle"
          /\ \A x \in Operator \ {o} : operator'[x] = operator[x]
          /\ j # k => dead'[j] = dead[j]
      BY <2>1 DEF ReplayRemove, OperatorHolds, OperatorOK
    <3> QED
      BY <2>1, <3>1 DEF ReplayRemove, Somewhere, ReaperHolds, OperatorHolds, Moving
  <2>2. CASE ReplayClear(o)
    <3>1. /\ operator'[o].pc = "push" /\ operator'[o].job = operator[o].job
          /\ \A x \in Operator \ {o} : operator'[x] = operator[x]
      BY <2>2 DEF ReplayClear, OperatorStep, OperatorOK, OperatorState
    <3> QED
      BY <2>2, <3>1 DEF ReplayClear, lists, Somewhere, ReaperHolds, OperatorHolds, Moving
  <2>3. CASE ReplayPush(o)
    <3>1. operator[o].job \in Job /\ \A x \in Operator \ {o} : operator'[x] = operator[x]
      BY <2>3 DEF ReplayPush, OperatorOK
    <3>2. Occurs(pending', j) <=> (j = operator[o].job \/ Occurs(pending, j))
      BY <2>3, <3>1, OccursPush DEF ReplayPush
    <3> QED
      BY <2>3, <3>1, <3>2 DEF ReplayPush, Somewhere, ReaperHolds, OperatorHolds, Moving
  <2> QED
    BY <1>5, <2>1, <2>2, <2>3 DEF OperatorNext, ReplayCrash, Lossy
<1>6. CASE UNCHANGED vars
  BY <1>6 DEF vars, lists, Somewhere, ReaperHolds, OperatorHolds, Moving
<1> QED
  BY <1>1, <1>2, <1>3, <1>4, <1>5, <1>6 DEF Next

(***************************************************************************)
(* What was submitted or finished stays so, and only Submit adds a job.    *)
(***************************************************************************)
LEMMA HistoryGrows ==
    ASSUME [Next]_vars
    PROVE  /\ returned \subseteq returned'
           /\ submitted \subseteq submitted'
           /\ \A j \in Job : Submit(j) => j \in submitted'
           /\ \A j \in submitted' : j \in submitted \/ Submit(j)
<1> DEFINE Goal == /\ returned \subseteq returned'
                   /\ submitted \subseteq submitted'
                   /\ \A j \in Job : Submit(j) => j \in submitted'
                   /\ \A j \in submitted' : j \in submitted \/ Submit(j)
<1>0. \A j \in Job : Submit(j) => j \in submitted'
  BY DEF Submit
<1>1. ASSUME returned \subseteq returned', submitted' = submitted
      PROVE  Goal
  BY <1>0, <1>1
<1>2. ASSUME NEW k \in Job, Submit(k)
      PROVE  Goal
  <2>1. returned' = returned /\ submitted' = submitted \cup {k}
    BY <1>2 DEF Submit
  <2> QED
    BY <1>0, <1>2, <2>1
<1>3. ASSUME NEW j \in Job, Retry(j) \/ Expire(j)
      PROVE  returned' = returned /\ submitted' = submitted
  BY <1>3 DEF Retry, EnqueueAgain, Expire, history
<1>4. ASSUME NEW p \in Proc, WorkerNext(p)
      PROVE  returned \subseteq returned' /\ submitted' = submitted
  BY <1>4 DEF WorkerNext, ClaimMove, ClaimStamp, Finish, Requeue, EnqueueAgain, Raise,
              AckList, AckBeat, AckCount, history
<1>5. ASSUME NEW p \in Proc, ReaperNext(p)
      PROVE  returned' = returned /\ submitted' = submitted
  BY <1>5 DEF ReaperNext, SweepStart, SweepEnd, SweepCheck, ReapRemove, ReapBeat, ReapCount,
              ReapReturn, ReapBury, ReapForget, SweepFail, history
<1>6. ASSUME NEW p \in Proc, Crash(p) \/ Stop(p) \/ Restart(p)
      PROVE  returned' = returned /\ submitted' = submitted
  BY <1>6 DEF Crash, Stop, Restart, history
<1>7. ASSUME NEW o \in Operator, OperatorNext(o)
      PROVE  returned' = returned /\ submitted' = submitted
  BY <1>7 DEF OperatorNext, ReplayRemove, ReplayClear, ReplayPush, ReplayCrash, history
<1>8. ASSUME UNCHANGED vars
      PROVE  returned' = returned /\ submitted' = submitted
  BY <1>8 DEF vars, history
<1> HIDE DEF Goal
<1>9. Goal
  BY <1>1, <1>2, <1>3, <1>4, <1>5, <1>6, <1>7, <1>8 DEF Next
<1> QED
  BY <1>9 DEF Goal

(***************************************************************************)
(* Every step of a process that is not ended inside a move keeps every     *)
(* unfinished job somewhere.                                               *)
(***************************************************************************)
LEMMA NoJobLostStep ==
    TypeInv /\ DownTogether /\ AckedFinished /\ NoJobLost /\ ~Lossy /\ [Next]_vars
        => NoJobLost'
<1> SUFFICES ASSUME TypeInv, DownTogether, AckedFinished, NoJobLost, ~Lossy, [Next]_vars,
                    NEW j \in Unfinished'
             PROVE  Somewhere(j)'
  BY DEF NoJobLost
<1>1. j \in Job /\ j \notin returned' /\ returned \subseteq returned'
  <2>1. TypeInv'
    BY TypeStep
  <2> QED
    BY <2>1, HistoryGrows DEF TypeInv, HistoryOK, Unfinished
<1>2. CASE j \in submitted
  BY <1>1, <1>2, SomewhereStep DEF NoJobLost, Unfinished
<1>3. CASE j \notin submitted
  <2>1. Submit(j)
    BY <1>3, HistoryGrows DEF Unfinished
  <2> QED
    BY <1>1, <2>1, OccursPush DEF Submit, Somewhere, TypeInv, StoreOK
<1> QED
  BY <1>2, <1>3

(***************************************************************************)
(* At-least-once for any number of jobs, workers and operators: whatever   *)
(* crashes, overruns and redeliveries happen, a submitted job nobody has   *)
(* finished can still be delivered, provided no process ends between the   *)
(* two list commands of a move and process_request does not raise.         *)
(***************************************************************************)
THEOREM AtLeastOnce == ~Lossy => (Spec => []NoJobLost)
<1> SUFFICES ASSUME ~Lossy PROVE Spec => []NoJobLost
  OBVIOUS
<1> DEFINE Inv == TypeInv /\ DownTogether /\ AckedFinished /\ NoJobLost
<1>1. Init => Inv
  BY TypeInit, ProcessFacts DEF Init, DownTogether, AckedFinished, NoJobLost, Unfinished,
                                IdleWorker
<1>2. Inv /\ [Next]_vars => Inv'
  BY TypeStep, DownStep, AckedStep, NoJobLostStep
<1> QED
  BY <1>1, <1>2, PTL DEF Spec

-----------------------------------------------------------------------------
(* An id on the pending list.                                              *)

Once(list, j) == \A i, k \in 1..Len(list) : list[i] = j /\ list[k] = j => i = k

(***************************************************************************)
(* LPUSH keeps an id single unless it pushes the one that was there.       *)
(***************************************************************************)
LEMMA OncePush ==
    ASSUME NEW S, NEW s \in Seq(S), NEW e \in S, NEW j, Once(s, j),
           j # e \/ ~Occurs(s, j)
    PROVE  Once(LPush(s, e), j)
<1> DEFINE t == LPush(s, e)
<1>1. /\ Len(s) \in Nat /\ Len(t) = Len(s) + 1 /\ t[1] = e
      /\ \A i \in 2..(Len(s) + 1) : t[i] = s[i - 1]
  <2>1. Len(s) \in Nat
    BY LenProperties
  <2>2. /\ Len(LPush(s, e)) = Len(s) + 1
        /\ LPush(s, e)[1] = e
        /\ \A i \in 2..(Len(s) + 1) : LPush(s, e)[i] = s[i - 1]
    BY <2>1 DEF LPush
  <2> QED
    BY <2>1, <2>2
<1> HIDE DEF t
<1> SUFFICES ASSUME NEW i \in 1..Len(t), NEW k \in 1..Len(t), t[i] = j, t[k] = j
             PROVE  i = k
  BY DEF Once, t
<1>2. ASSUME NEW n \in 1..Len(t), n # 1, t[n] = j
      PROVE  n - 1 \in 1..Len(s) /\ s[n - 1] = j
  BY <1>1, <1>2
<1>3. CASE i = 1 /\ k # 1
  BY <1>1, <1>2, <1>3 DEF Occurs
<1>4. CASE k = 1 /\ i # 1
  BY <1>1, <1>2, <1>4 DEF Occurs
<1>5. CASE i # 1 /\ k # 1
  <2>1. i - 1 = k - 1
    BY <1>2, <1>5 DEF Once
  <2> QED
    BY <1>1, <2>1
<1> QED
  BY <1>3, <1>4, <1>5

(***************************************************************************)
(* Taking the rightmost entry keeps an id single, and takes all of it if   *)
(* it was that one.                                                        *)
(***************************************************************************)
LEMMA OncePop ==
    ASSUME NEW S, NEW s \in Seq(S), s # <<>>, NEW j, Once(s, j)
    PROVE  /\ Once(ButRightmost(s), j)
           /\ j = Rightmost(s) => ~Occurs(ButRightmost(s), j)
<1> DEFINE t == ButRightmost(s)
<1>1. /\ Len(s) \in Nat \ {0} /\ Len(t) = Len(s) - 1 /\ Rightmost(s) = s[Len(s)]
      /\ \A i \in 1..(Len(s) - 1) : t[i] = s[i]
  BY PopFacts DEF Rightmost
<1> HIDE DEF t
<1>2. Once(t, j)
  BY <1>1 DEF Once
<1>3. ASSUME j = s[Len(s)], Occurs(t, j) PROVE FALSE
  <2>1. PICK i \in 1..Len(t) : t[i] = j
    BY <1>3 DEF Occurs
  <2>2. i \in 1..Len(s) /\ Len(s) \in 1..Len(s) /\ s[i] = j /\ i # Len(s)
    BY <1>1, <2>1
  <2> QED
    BY <1>3, <2>2 DEF Once
<1> QED
  BY <1>1, <1>2, <1>3 DEF t

-----------------------------------------------------------------------------
(* The copies of an id.                                                    *)

ByReaper(j) == \E p \in Proc : ReaperHolds(p, j)
ByOperator(j) == \E o \in Operator : OperatorHolds(o, j)

\* What SingleCopy says of a job, place by place.
AtMostOne(j) ==
    /\ Once(pending, j)
    /\ processing[j] <= 1
    /\ dead[j] <= 1
    /\ \A p, q \in Proc : ReaperHolds(p, j) /\ ReaperHolds(q, j) => p = q
    /\ \A o, x \in Operator : OperatorHolds(o, j) /\ OperatorHolds(x, j) => o = x
    /\ Occurs(pending, j) => /\ processing[j] = 0 /\ dead[j] = 0
                             /\ ~ByReaper(j) /\ ~ByOperator(j)
    /\ processing[j] > 0 => dead[j] = 0 /\ ~ByReaper(j) /\ ~ByOperator(j)
    /\ dead[j] > 0 => ~ByReaper(j) /\ ~ByOperator(j)
    /\ ~(ByReaper(j) /\ ByOperator(j))

(***************************************************************************)
(* Place by place, or as the set of the places: the same.                  *)
(***************************************************************************)
LEMMA AtMostOnePlace ==
    ASSUME TypeInv, NEW j \in Job, AtMostOne(j), NEW x \in Places(j), NEW y \in Places(j)
    PROVE  x = y
<1>1. processing[j] \in 0..1 /\ dead[j] \in 0..1
  BY DEF TypeInv, StoreOK, AtMostOne
<1> DEFINE InPending(z) == \E i \in 1..Len(pending) : pending[i] = j /\ z = <<"pending", i>>
           InProcessing(z) == processing[j] = 1 /\ z = <<"processing", 1>>
           InDead(z) == dead[j] = 1 /\ z = <<"dead", 1>>
           InReaper(z) == \E p \in Proc : ReaperHolds(p, j) /\ z = <<"reaper", p>>
           InOperator(z) == \E o \in Operator : OperatorHolds(o, j) /\ z = <<"operator", o>>
<1>2. ASSUME NEW z \in Places(j)
      PROVE  InPending(z) \/ InProcessing(z) \/ InDead(z) \/ InReaper(z) \/ InOperator(z)
  <2>1. CASE z \in {<<"pending", i>> : i \in {k \in 1..Len(pending) : pending[k] = j}}
    BY <2>1
  <2>2. CASE z \in {<<"processing", n>> : n \in 1..processing[j]}
    <3>1. PICK n \in 1..processing[j] : z = <<"processing", n>>
      BY <2>2
    <3>2. n = 1 /\ processing[j] = 1
      BY <1>1
    <3> QED
      BY <3>1, <3>2
  <2>3. CASE z \in {<<"dead", n>> : n \in 1..dead[j]}
    <3>1. PICK n \in 1..dead[j] : z = <<"dead", n>>
      BY <2>3
    <3>2. n = 1 /\ dead[j] = 1
      BY <1>1
    <3> QED
      BY <3>1, <3>2
  <2>4. CASE z \in {<<"reaper", p>> : p \in {r \in Proc : ReaperHolds(r, j)}}
    BY <2>4
  <2>5. CASE z \in {<<"operator", o>> : o \in {v \in Operator : OperatorHolds(v, j)}}
    BY <2>5
  <2> QED
    BY <1>2, <2>1, <2>2, <2>3, <2>4, <2>5 DEF Places
<1>3. CASE InPending(x) /\ InPending(y)
  BY <1>3 DEF AtMostOne, Once
<1>4. CASE InReaper(x) /\ InReaper(y)
  BY <1>4 DEF AtMostOne
<1>5. CASE InOperator(x) /\ InOperator(y)
  BY <1>5 DEF AtMostOne
<1>6. \A z : /\ InPending(z) => Occurs(pending, j)
             /\ InProcessing(z) => processing[j] = 1
             /\ InDead(z) => dead[j] = 1
             /\ InReaper(z) => ByReaper(j)
             /\ InOperator(z) => ByOperator(j)
  BY DEF Occurs, ByReaper, ByOperator
<1>7. \A z \in {x, y} : InPending(z) \/ InProcessing(z) \/ InDead(z) \/ InReaper(z) \/ InOperator(z)
  BY <1>2
<1>8. (InProcessing(x) /\ InProcessing(y)) \/ (InDead(x) /\ InDead(y)) => x = y
  OBVIOUS
<1> HIDE DEF InPending, InProcessing, InDead, InReaper, InOperator
<1>9. /\ Occurs(pending, j) => processing[j] # 1 /\ dead[j] # 1
                               /\ ~ByReaper(j) /\ ~ByOperator(j)
      /\ processing[j] = 1 => dead[j] # 1 /\ ~ByReaper(j) /\ ~ByOperator(j)
      /\ dead[j] = 1 => ~ByReaper(j) /\ ~ByOperator(j)
      /\ ~(ByReaper(j) /\ ByOperator(j))
  BY <1>1 DEF AtMostOne
<1> QED
  BY <1>3, <1>4, <1>5, <1>6, <1>7, <1>8, <1>9

\* A step after which an id is nowhere it was not before.
NothingGained(j) ==
    /\ Once(pending, j) => Once(pending', j)
    /\ Occurs(pending', j) => Occurs(pending, j)
    /\ processing'[j] <= processing[j]
    /\ dead'[j] <= dead[j]
    /\ \A p \in Proc : ReaperHolds(p, j)' => ReaperHolds(p, j)
    /\ \A o \in Operator : OperatorHolds(o, j)' => OperatorHolds(o, j)

(***************************************************************************)
(* A step that puts a job nowhere new leaves at most one copy of it.       *)
(***************************************************************************)
LEMMA GainedNothing ==
    ASSUME TypeInv, TypeInv', NEW j \in Job, NothingGained(j)
    PROVE  /\ AtMostOne(j) => AtMostOne(j)'
           /\ ~Somewhere(j) => ~Somewhere(j)'
<1>1. /\ processing[j] \in Nat /\ processing'[j] \in Nat
      /\ dead[j] \in Nat /\ dead'[j] \in Nat
  BY DEF TypeInv, StoreOK
<1>2. ByReaper(j)' => ByReaper(j)
  BY DEF NothingGained, ByReaper
<1>3. ByOperator(j)' => ByOperator(j)
  BY DEF NothingGained, ByOperator
<1>4. AtMostOne(j) => AtMostOne(j)'
  BY <1>1, <1>2, <1>3 DEF NothingGained, AtMostOne
<1> QED
  BY <1>1, <1>4 DEF NothingGained, Somewhere

(***************************************************************************)
(* A command that writes none of the lists, and puts nothing into a hand.  *)
(***************************************************************************)
LEMMA SamePlaces ==
    ASSUME TypeInv, NEW j \in Job, UNCHANGED lists,
           \A p \in Proc : ReaperHolds(p, j)' => ReaperHolds(p, j),
           \A o \in Operator : OperatorHolds(o, j)' => OperatorHolds(o, j)
    PROVE  NothingGained(j)
<1>1. pending' = pending /\ processing' = processing /\ dead' = dead
  BY DEF lists
<1>2. processing[j] \in Nat /\ dead[j] \in Nat
  BY DEF TypeInv, StoreOK
<1> QED
  BY <1>1, <1>2 DEF NothingGained

-----------------------------------------------------------------------------
(* Every command on an unfinished job.                                     *)

\* A command that takes an id from one place and puts it in another.
Moved(j) == Somewhere(j) /\ (AtMostOne(j) => AtMostOne(j)')

(***************************************************************************)
(* The commands of a worker leave an unfinished job alone, but for the     *)
(* claim that moves it.                                                    *)
(***************************************************************************)
LEMMA CopiesWorker ==
    ASSUME TypeInv, NEW p \in Proc, WorkerNext(p),
           NEW j \in Job, j \notin returned'
    PROVE  NothingGained(j) \/ Moved(j)
<1> USE DEF TypeInv, StoreOK
<1>1. CASE ClaimMove(p)
  <2> DEFINE k == Rightmost(pending)
  <2>1. /\ k \in Job /\ pending # <<>> /\ pending' = ButRightmost(pending)
        /\ processing' = AddCopy(processing, k)
        /\ UNCHANGED <<dead, reaper, operator>>
    BY <1>1, PopFacts DEF ClaimMove
  <2>2. /\ \A q \in Proc : ReaperHolds(q, j)' <=> ReaperHolds(q, j)
        /\ \A o \in Operator : OperatorHolds(o, j)' <=> OperatorHolds(o, j)
    BY <2>1 DEF ReaperHolds, OperatorHolds, Moving
  <2>3. /\ Once(pending, j) => Once(pending', j)
        /\ Once(pending, j) /\ j = k => ~Occurs(pending', j)
        /\ Occurs(pending, j) <=> (j = k \/ Occurs(pending', j))
    BY <2>1, OncePop, OccursPop
  <2>4. processing'[j] = IF j = k THEN processing[j] + 1 ELSE processing[j]
    BY <2>1 DEF AddCopy
  <2>5. CASE j # k
    BY <2>1, <2>2, <2>3, <2>4, <2>5 DEF NothingGained
  <2>6. CASE j = k
    <3>1. Somewhere(j) /\ Occurs(pending, j)
      BY <2>3, <2>6 DEF Somewhere
    <3>2. (ByReaper(j)' <=> ByReaper(j)) /\ (ByOperator(j)' <=> ByOperator(j))
      BY <2>2 DEF ByReaper, ByOperator
    <3>3. ASSUME AtMostOne(j) PROVE AtMostOne(j)'
      BY <2>1, <2>2, <2>3, <2>4, <2>6, <3>1, <3>2, <3>3 DEF AtMostOne
    <3> QED
      BY <3>1, <3>3 DEF Moved
  <2> QED
    BY <2>5, <2>6
<1>2. CASE ClaimStamp(p)
  <2>1. \A r \in Proc : reaper'[r].pc = reaper[r].pc /\ reaper'[r].job = reaper[r].job
    BY <1>2 DEF ClaimStamp, ReaperOK, ReaperState
  <2> QED
    BY <1>2, <2>1, SamePlaces DEF ClaimStamp, ReaperHolds, OperatorHolds, Moving
<1>3. CASE Requeue(p)
  <2>1. worker[p].job \in Job /\ j # worker[p].job
    BY <1>3 DEF Requeue, WorkerStep, WorkerOK, Driving
  <2>2. /\ Once(pending, j) => Once(pending', j)
        /\ Occurs(pending', j) <=> Occurs(pending, j)
    BY <1>3, <2>1, OncePush, OccursPush DEF Requeue, EnqueueAgain
  <2> QED
    BY <1>3, <2>2 DEF Requeue, EnqueueAgain, NothingGained, ReaperHolds, OperatorHolds, Moving
<1>4. CASE AckList(p)
  <2>1. worker[p].job \in Job
    BY <1>4 DEF AckList, WorkerStep, WorkerOK, Driving
  <2>2. processing'[j] <= processing[j]
    BY <1>4, <2>1 DEF AckList, TakeCopy
  <2> QED
    BY <1>4, <2>2 DEF AckList, NothingGained, ReaperHolds, OperatorHolds, Moving
<1>5. CASE AckCount(p)
  <2>1. \A q \in Proc : Moving(q)' => reaper'[q] = reaper[q]
    BY <1>5, ProcessFacts DEF AckCount, EndProcess, Moving, ReaperOK
  <2> QED
    BY <1>5, <2>1 DEF AckCount, lists, NothingGained, ReaperHolds, OperatorHolds, Moving
<1>6. CASE Finish(p) \/ Raise(p) \/ AckBeat(p)
  BY <1>6 DEF Finish, Raise, AckBeat, lists, NothingGained, ReaperHolds, OperatorHolds, Moving
<1> QED
  BY <1>1, <1>2, <1>3, <1>4, <1>5, <1>6 DEF WorkerNext

(***************************************************************************)
(* The commands of a sweep leave a job alone or move it: what counts is    *)
(* that only the sweep whose LREM found an entry goes on with it.          *)
(***************************************************************************)
LEMMA CopiesReaper ==
    ASSUME TypeInv, NEW p \in Proc, ReaperNext(p), NEW j \in Job
    PROVE  NothingGained(j) \/ Moved(j)
<1> USE DEF TypeInv, StoreOK
<1>1. \A q \in Proc \ {p} : reaper'[q] = reaper[q]
  BY DEF ReaperNext, SweepStart, SweepEnd, SweepCheck, ReapRemove, ReapBeat, ReapCount,
         ReapReturn, ReapBury, ReapForget, SweepFail, ReaperStep, ReaperOK
<1>2. \A q \in Proc \ {p} : ReaperHolds(q, j)' <=> ReaperHolds(q, j)
  BY <1>1 DEF ReaperHolds, Moving
<1>3. CASE SweepStart(p) \/ SweepEnd(p) \/ (\E k \in Job : SweepCheck(p, k))
           \/ ReapForget(p) \/ SweepFail(p)
  <2>1. ~Moving(p)'
    <3>1. CASE SweepStart(p)
      BY <3>1 DEF SweepStart, Moving, ReaperOK
    <3>2. CASE SweepEnd(p) \/ SweepFail(p)
      BY <3>2, ProcessFacts DEF SweepEnd, SweepFail, Moving, ReaperOK
    <3>3. ASSUME NEW k \in Job, SweepCheck(p, k)
          PROVE  ~Moving(p)'
      BY <3>3 DEF SweepCheck, Moving, ReaperOK, ReaperState
    <3>4. CASE ReapForget(p)
      BY <3>4 DEF ReapForget, Moving, ReaperOK, ReaperState
    <3> QED
      BY <1>3, <3>1, <3>2, <3>3, <3>4
  <2>2. UNCHANGED <<lists, operator>>
    BY <1>3 DEF SweepStart, SweepEnd, SweepCheck, ReapForget, SweepFail
  <2>3. \A q \in Proc : ReaperHolds(q, j)' => ReaperHolds(q, j)
    BY <1>2, <2>1 DEF ReaperHolds
  <2> QED
    BY <2>2, <2>3, SamePlaces DEF OperatorHolds
<1>4. CASE ReapRemove(p)
  <2> DEFINE k == reaper[p].job
  <2>1. /\ k \in Job /\ ~Moving(p)
        /\ UNCHANGED <<pending, dead, operator>>
        /\ processing'[j] = IF j = k /\ processing[k] > 0 THEN processing[j] - 1
                            ELSE processing[j]
    <3>1. /\ k \in Job /\ reaper[p].pc = "remove"
          /\ processing' = TakeCopy(processing, k)
          /\ UNCHANGED <<pending, dead, operator>>
      BY <1>4 DEF ReapRemove, ReaperOK
    <3>2. processing[j] \in Nat /\ processing[k] \in Nat
      BY <3>1
    <3>3. processing'[j] = IF j = k /\ processing[k] > 0 THEN processing[j] - 1
                           ELSE processing[j]
      BY <3>1, <3>2 DEF TakeCopy
    <3> QED
      BY <3>1, <3>3 DEF Moving
  <2>2. ReaperHolds(p, j)' <=> j = k /\ processing[k] > 0
    BY <1>4, <2>1 DEF ReapRemove, ReaperHolds, Moving, ReaperOK, ReaperState
  <2>3. \A o \in Operator : OperatorHolds(o, j)' <=> OperatorHolds(o, j)
    BY <2>1 DEF OperatorHolds
  <2>4. CASE ~(j = k /\ processing[k] > 0)
    BY <1>2, <2>1, <2>2, <2>3, <2>4 DEF NothingGained
  <2>5. CASE j = k /\ processing[k] > 0
    <3>1. Somewhere(j)
      BY <2>5 DEF Somewhere
    <3>2. ByReaper(j)' /\ (ByOperator(j)' <=> ByOperator(j))
      BY <2>2, <2>3, <2>5 DEF ByReaper, ByOperator
    <3>3. ASSUME AtMostOne(j) PROVE AtMostOne(j)'
      <4>1. processing[j] = 1 /\ processing'[j] = 0
        BY <2>1, <2>5, <3>3 DEF AtMostOne
      <4>2. \A q \in Proc : ReaperHolds(q, j)' <=> q = p
        BY <1>2, <2>2, <2>5, <3>3 DEF AtMostOne, ByReaper
      <4> QED
        BY <2>1, <2>3, <2>5, <3>2, <3>3, <4>1, <4>2 DEF AtMostOne
    <3> QED
      BY <3>1, <3>3 DEF Moved
  <2> QED
    BY <2>4, <2>5
<1>5. CASE ReapBeat(p) \/ ReapCount(p)
  <2>1. ReaperHolds(p, j)' <=> ReaperHolds(p, j)
    BY <1>5 DEF ReapBeat, ReapCount, ReaperStep, ReaperHolds, Moving, ReaperOK, ReaperState
  <2> QED
    BY <1>2, <1>5, <2>1 DEF ReapBeat, ReapCount, lists, NothingGained, OperatorHolds
<1>6. CASE ReapReturn(p)
  <2> DEFINE k == reaper[p].job
  <2>1. /\ k \in Job /\ ReaperHolds(p, k) /\ ~ReaperHolds(p, j)'
        /\ pending' = LPush(pending, k)
        /\ UNCHANGED <<processing, dead, operator>>
    BY <1>6 DEF ReapReturn, ReaperHolds, Moving, ReaperOK, ReaperState
  <2>2. \A o \in Operator : OperatorHolds(o, j)' <=> OperatorHolds(o, j)
    BY <2>1 DEF OperatorHolds
  <2>3. /\ Once(pending, j) /\ (j # k \/ ~Occurs(pending, j)) => Once(pending', j)
        /\ Occurs(pending', j) <=> (j = k \/ Occurs(pending, j))
    BY <2>1, OncePush, OccursPush
  <2>4. CASE j # k
    BY <1>2, <2>1, <2>2, <2>3, <2>4 DEF NothingGained
  <2>5. CASE j = k
    <3>1. Somewhere(j) /\ ByReaper(j)
      BY <2>1, <2>5 DEF Somewhere, ByReaper
    <3>2. ASSUME AtMostOne(j) PROVE AtMostOne(j)'
      <4>1. ~ByReaper(j)' /\ ~ByOperator(j)'
        BY <1>2, <2>1, <2>2, <2>5, <3>1, <3>2 DEF AtMostOne, ByReaper, ByOperator
      <4>2. ~Occurs(pending, j) /\ processing[j] = 0 /\ dead[j] = 0
        BY <3>1, <3>2 DEF AtMostOne
      <4> QED
        BY <2>1, <2>3, <3>2, <4>1, <4>2 DEF AtMostOne, ByReaper, ByOperator
    <3> QED
      BY <3>1, <3>2 DEF Moved
  <2> QED
    BY <2>4, <2>5
<1>7. CASE ReapBury(p)
  <2> DEFINE k == reaper[p].job
  <2>1. /\ k \in Job /\ ReaperHolds(p, k) /\ ~ReaperHolds(p, j)'
        /\ dead'[j] = IF j = k THEN dead[j] + 1 ELSE dead[j]
        /\ UNCHANGED <<pending, processing, operator>>
    <3>1. /\ k \in Job /\ reaper[p].pc = "bury" /\ reaper'[p].pc = "forget"
          /\ dead' = AddCopy(dead, k) /\ UNCHANGED <<pending, processing, operator>>
      BY <1>7 DEF ReapBury, ReaperStep, ReaperOK, ReaperState
    <3> QED
      BY <3>1 DEF AddCopy, ReaperHolds, Moving
  <2>2. \A o \in Operator : OperatorHolds(o, j)' <=> OperatorHolds(o, j)
    BY <2>1 DEF OperatorHolds
  <2>3. CASE j # k
    BY <1>2, <2>1, <2>2, <2>3 DEF NothingGained
  <2>4. CASE j = k
    <3>1. Somewhere(j) /\ ByReaper(j)
      BY <2>1, <2>4 DEF Somewhere, ByReaper
    <3>2. ASSUME AtMostOne(j) PROVE AtMostOne(j)'
      <4>1. ~ByReaper(j)' /\ ~ByOperator(j)'
        BY <1>2, <2>1, <2>2, <2>4, <3>1, <3>2 DEF AtMostOne, ByReaper, ByOperator
      <4>2. ~Occurs(pending, j) /\ processing[j] = 0 /\ dead[j] = 0
        BY <3>1, <3>2 DEF AtMostOne
      <4> QED
        BY <2>1, <2>4, <3>2, <4>1, <4>2 DEF AtMostOne, ByReaper, ByOperator
    <3> QED
      BY <3>1, <3>2 DEF Moved
  <2> QED
    BY <2>3, <2>4
<1> QED
  BY <1>3, <1>4, <1>5, <1>6, <1>7 DEF ReaperNext

(***************************************************************************)
(* The commands of a replay leave a job alone or move it.                  *)
(***************************************************************************)
LEMMA CopiesOperator ==
    ASSUME TypeInv, NEW o \in Operator, OperatorNext(o), NEW j \in Job
    PROVE  NothingGained(j) \/ Moved(j)
<1> USE DEF TypeInv, StoreOK
<1>1. /\ \A x \in Operator \ {o} : operator'[x] = operator[x]
      /\ UNCHANGED <<processing, reaper>>
  BY DEF OperatorNext, ReplayRemove, ReplayClear, ReplayPush, ReplayCrash, OperatorStep,
         OperatorOK, lists
<1>2. /\ \A x \in Operator \ {o} : OperatorHolds(x, j)' <=> OperatorHolds(x, j)
      /\ \A p \in Proc : ReaperHolds(p, j)' <=> ReaperHolds(p, j)
  BY <1>1 DEF OperatorHolds, ReaperHolds, Moving
<1>3. ASSUME NEW k \in Job, ReplayRemove(o, k)
      PROVE  NothingGained(j) \/ Moved(j)
  <2>1. /\ ~OperatorHolds(o, j) /\ (OperatorHolds(o, j)' <=> j = k)
        /\ dead[k] > 0 /\ dead'[j] = IF j = k THEN 0 ELSE dead[j]
        /\ pending' = pending
    BY <1>3 DEF ReplayRemove, OperatorHolds, OperatorOK
  <2>2. CASE j # k
    BY <1>1, <1>2, <2>1, <2>2 DEF NothingGained
  <2>3. CASE j = k
    <3>1. Somewhere(j)
      BY <2>1, <2>3 DEF Somewhere
    <3>2. ByOperator(j)' /\ (ByReaper(j)' <=> ByReaper(j))
      BY <1>2, <2>1, <2>3 DEF ByReaper, ByOperator
    <3>3. ASSUME AtMostOne(j) PROVE AtMostOne(j)'
      <4>1. \A x \in Operator : OperatorHolds(x, j)' <=> x = o
        BY <1>2, <2>1, <2>3, <3>3 DEF AtMostOne, ByOperator
      <4> QED
        BY <1>1, <1>2, <2>1, <2>3, <3>2, <3>3, <4>1 DEF AtMostOne
    <3> QED
      BY <3>1, <3>3 DEF Moved
  <2> QED
    BY <2>2, <2>3
<1>4. CASE ReplayClear(o) \/ ReplayCrash(o)
  <2>1. OperatorHolds(o, j)' => OperatorHolds(o, j)
    BY <1>4 DEF ReplayClear, ReplayCrash, OperatorStep, OperatorHolds, OperatorOK,
                OperatorState, IdleOperator
  <2> QED
    BY <1>1, <1>2, <1>4, <2>1 DEF ReplayClear, ReplayCrash, lists, NothingGained
<1>5. CASE ReplayPush(o)
  <2> DEFINE k == operator[o].job
  <2>1. /\ k \in Job /\ OperatorHolds(o, k) /\ ~OperatorHolds(o, j)'
        /\ pending' = LPush(pending, k) /\ dead' = dead
    BY <1>5 DEF ReplayPush, OperatorHolds, OperatorOK, OperatorState, IdleOperator
  <2>2. /\ Once(pending, j) /\ (j # k \/ ~Occurs(pending, j)) => Once(pending', j)
        /\ Occurs(pending', j) <=> (j = k \/ Occurs(pending, j))
    BY <2>1, OncePush, OccursPush
  <2>3. CASE j # k
    BY <1>1, <1>2, <2>1, <2>2, <2>3 DEF NothingGained
  <2>4. CASE j = k
    <3>1. Somewhere(j) /\ ByOperator(j)
      BY <2>1, <2>4 DEF Somewhere, ByOperator
    <3>2. ASSUME AtMostOne(j) PROVE AtMostOne(j)'
      <4>1. ~ByReaper(j)' /\ ~ByOperator(j)'
        BY <1>2, <2>1, <2>4, <3>1, <3>2 DEF AtMostOne, ByReaper, ByOperator
      <4>2. ~Occurs(pending, j) /\ processing[j] = 0 /\ dead[j] = 0
        BY <3>1, <3>2 DEF AtMostOne
      <4> QED
        BY <1>1, <2>1, <2>2, <3>2, <4>1, <4>2 DEF AtMostOne, ByReaper, ByOperator
    <3> QED
      BY <3>1, <3>2 DEF Moved
  <2> QED
    BY <2>3, <2>4
<1> QED
  BY <1>3, <1>4, <1>5 DEF OperatorNext

(***************************************************************************)
(* Every step leaves a job nobody finished alone, moves it, or submits it. *)
(***************************************************************************)
LEMMA CopiesStep ==
    ASSUME TypeInv, [Next]_vars, NEW j \in Job, j \notin returned',
           ~Submit(j)
    PROVE  NothingGained(j) \/ Moved(j)
<1> USE DEF TypeInv, StoreOK
<1>1. ASSUME NEW k \in Job, Submit(k) \/ Retry(k) \/ Expire(k)
      PROVE  NothingGained(j)
  <2>1. CASE Expire(k)
    BY <2>1 DEF Expire, lists, NothingGained, ReaperHolds, OperatorHolds, Moving
  <2>2. CASE Submit(k) \/ Retry(k)
    <3>1. j # k /\ pending' = LPush(pending, k) /\ UNCHANGED <<processing, dead, reaper, operator>>
      BY <2>2 DEF Submit, Retry, EnqueueAgain
    <3>2. /\ Once(pending, j) => Once(pending', j)
          /\ Occurs(pending', j) <=> Occurs(pending, j)
      BY <3>1, OncePush, OccursPush
    <3> QED
      BY <3>1, <3>2 DEF NothingGained, ReaperHolds, OperatorHolds, Moving
  <2> QED
    BY <1>1, <2>1, <2>2
<1>2. ASSUME NEW p \in Proc, Crash(p) \/ Stop(p) \/ Restart(p)
      PROVE  NothingGained(j)
  <2>1. \A q \in Proc : Moving(q)' => reaper'[q] = reaper[q]
    BY <1>2, ProcessFacts DEF Crash, Stop, Restart, EndProcess, Moving, ReaperOK
  <2> QED
    BY <1>2, <2>1 DEF Crash, Stop, Restart, lists, NothingGained, ReaperHolds,
                      OperatorHolds, Moving
<1>3. CASE UNCHANGED vars
  BY <1>3 DEF vars, lists, NothingGained, ReaperHolds, OperatorHolds, Moving
<1> QED
  BY <1>1, <1>2, <1>3, CopiesWorker, CopiesReaper, CopiesOperator DEF Next

-----------------------------------------------------------------------------
(* One copy.                                                               *)

\* Only a submitted job is anywhere, is driven, or is finished.
SubmittedOnly ==
    /\ returned \subseteq submitted
    /\ \A p \in Proc : Driving(p) => worker[p].job \in submitted
    /\ \A j \in Job \ submitted : ~Somewhere(j)

CopyInv ==
    /\ TypeInv
    /\ SubmittedOnly
    /\ \A j \in Job \ returned : AtMostOne(j)

(***************************************************************************)
(* Drivers hold submitted jobs, and finish no others.                      *)
(***************************************************************************)
LEMMA DriversStep ==
    ASSUME TypeInv, SubmittedOnly, [Next]_vars
    PROVE  /\ returned' \subseteq submitted'
           /\ \A p \in Proc : Driving(p)' => worker'[p].job \in submitted'
<1> USE DEF TypeInv
<1> DEFINE Goal == /\ returned' \subseteq submitted'
                   /\ \A p \in Proc : Driving(p)' => worker'[p].job \in submitted'
<1>0. /\ returned \subseteq submitted
      /\ \A p \in Proc : Driving(p) => worker[p].job \in submitted
  BY DEF SubmittedOnly
<1>1. ASSUME UNCHANGED <<worker, returned>>
      PROVE  Goal
  BY <1>0, <1>1, HistoryGrows DEF Driving
<1>2. ASSUME NEW p \in Proc, WorkerNext(p)
      PROVE  Goal
  <2>1. submitted' = submitted
    BY <1>2 DEF WorkerNext, ClaimMove, ClaimStamp, Finish, Requeue, EnqueueAgain, Raise,
                AckList, AckBeat, AckCount, history
  <2>2. \A q \in Proc \ {p} : worker'[q] = worker[q]
    BY <1>2 DEF WorkerNext, ClaimMove, ClaimStamp, Finish, Requeue, Raise, AckList, AckBeat,
                AckCount, EndProcess, WorkerStep, WorkerOK
  <2>3. CASE ClaimMove(p)
    <3>1. Rightmost(pending) \in Job /\ Occurs(pending, Rightmost(pending))
      BY <2>3, PopFacts, OccursPop DEF ClaimMove, StoreOK
    <3>2. Rightmost(pending) \in submitted
      BY <3>1 DEF SubmittedOnly, Somewhere
    <3> QED
      BY <1>0, <2>1, <2>2, <2>3, <3>2 DEF ClaimMove, Driving, WorkerOK, WorkerState, history
  <2>4. CASE AckCount(p)
    BY <1>0, <2>1, <2>2, <2>4, ProcessFacts DEF AckCount, EndProcess, Driving, WorkerOK, history
  <2>5. CASE ~ClaimMove(p) /\ ~AckCount(p)
    <3>1. /\ Driving(p) /\ worker'[p].job = worker[p].job
          /\ returned' \subseteq returned \cup {worker[p].job}
      BY <1>2, <2>5 DEF WorkerNext, ClaimStamp, Finish, Requeue, Raise, AckList, AckBeat,
                        WorkerStep, WorkerOK, WorkerState, Driving, history
    <3> QED
      BY <1>0, <2>1, <2>2, <3>1 DEF Driving
  <2> QED
    BY <2>3, <2>4, <2>5
<1>3. ASSUME NEW p \in Proc, Crash(p) \/ Stop(p) \/ Restart(p)
      PROVE  Goal
  <2>1. \A q \in Proc : Driving(q)' => worker'[q] = worker[q]
    BY <1>3, ProcessFacts DEF Crash, Stop, Restart, EndProcess, Driving, WorkerOK
  <2>2. returned' = returned /\ submitted' = submitted
    BY <1>3 DEF Crash, Stop, Restart, history
  <2> QED
    BY <1>0, <2>1, <2>2 DEF Driving
<1>4. ASSUME NEW j \in Job, Submit(j) \/ Retry(j) \/ Expire(j)
      PROVE  UNCHANGED <<worker, returned>>
  BY <1>4 DEF Submit, Retry, Expire, history
<1>5. ASSUME NEW p \in Proc, ReaperNext(p)
      PROVE  UNCHANGED <<worker, returned>>
  BY <1>5 DEF ReaperNext, SweepStart, SweepEnd, SweepCheck, ReapRemove, ReapBeat, ReapCount,
              ReapReturn, ReapBury, ReapForget, SweepFail, history
<1>6. ASSUME NEW o \in Operator, OperatorNext(o)
      PROVE  UNCHANGED <<worker, returned>>
  BY <1>6 DEF OperatorNext, ReplayRemove, ReplayClear, ReplayPush, ReplayCrash, history
<1>7. ASSUME UNCHANGED vars
      PROVE  UNCHANGED <<worker, returned>>
  BY <1>7 DEF vars, history
<1> HIDE DEF Goal
<1>8. Goal
  BY <1>1, <1>2, <1>3, <1>4, <1>5, <1>6, <1>7 DEF Next
<1> QED
  BY <1>8 DEF Goal

(***************************************************************************)
(* Submitting a job that was nowhere puts it on the pending list, once.    *)
(***************************************************************************)
LEMMA SubmitOnce ==
    ASSUME TypeInv, NEW j \in Job, Submit(j), ~Somewhere(j)
    PROVE  AtMostOne(j)'
<1>1. /\ pending \in Seq(Job) /\ processing[j] \in Nat /\ dead[j] \in Nat
  BY DEF TypeInv, StoreOK
<1>2. /\ pending' = LPush(pending, j)
      /\ UNCHANGED <<processing, dead, reaper, operator>>
  BY DEF Submit
<1>3. /\ ~Occurs(pending, j) /\ processing[j] = 0 /\ dead[j] = 0
      /\ ~ByReaper(j) /\ ~ByOperator(j)
  BY <1>1 DEF Somewhere, ByReaper, ByOperator
<1>4. Once(pending', j)
  <2>1. Once(pending, j)
    BY <1>3 DEF Once, Occurs
  <2> QED
    BY <1>1, <1>2, <1>3, <2>1, OncePush
<1>5. ~ByReaper(j)' /\ ~ByOperator(j)'
  BY <1>2, <1>3 DEF ByReaper, ByOperator, ReaperHolds, OperatorHolds, Moving
<1> QED
  BY <1>2, <1>3, <1>4, <1>5 DEF AtMostOne, ByReaper, ByOperator

(***************************************************************************)
(* CopyInv is inductive.                                                   *)
(***************************************************************************)
LEMMA CopyInvInit == Init => CopyInv
<1> SUFFICES ASSUME Init PROVE CopyInv
  OBVIOUS
<1>1. TypeInv
  BY TypeInit
<1>2. ASSUME NEW j \in Job
      PROVE  ~Somewhere(j) /\ AtMostOne(j)
  <2>1. /\ Len(pending) = 0 /\ processing[j] = 0 /\ dead[j] = 0
        /\ \A p \in Proc : reaper[p].pc = "sleep"
        /\ \A o \in Operator : operator[o].pc = "idle"
    BY ProcessFacts DEF Init, NoCopies, IdleOperator
  <2>2. ~Occurs(pending, j) /\ Once(pending, j)
    BY <2>1 DEF Occurs, Once
  <2>3. ~ByReaper(j) /\ ~ByOperator(j)
    BY <2>1 DEF ByReaper, ByOperator, ReaperHolds, OperatorHolds, Moving
  <2> QED
    BY <2>1, <2>2, <2>3 DEF Somewhere, AtMostOne, ByReaper, ByOperator
<1>3. \A p \in Proc : ~Driving(p)
  BY ProcessFacts DEF Init, Driving
<1> QED
  BY <1>1, <1>2, <1>3 DEF CopyInv, SubmittedOnly, Init

(***************************************************************************)
(* A step of the system keeps it: only a job that was nowhere is submitted. *)
(***************************************************************************)
LEMMA CopyInvStep == CopyInv /\ [Next]_vars => CopyInv'
<1> SUFFICES ASSUME CopyInv, [Next]_vars PROVE CopyInv'
  OBVIOUS
<1>1. TypeInv /\ TypeInv' /\ SubmittedOnly
  BY TypeStep DEF CopyInv
<1>2. /\ returned \subseteq returned' /\ submitted \subseteq submitted'
      /\ \A j \in Job : Submit(j) => j \in submitted'
  BY HistoryGrows
<1>3. /\ returned' \subseteq submitted'
      /\ \A p \in Proc : Driving(p)' => worker'[p].job \in submitted'
  BY <1>1, DriversStep
<1>4. ASSUME NEW j \in Job \ submitted'
      PROVE  ~Somewhere(j)'
  <2>1. j \in Job /\ j \notin returned' /\ ~Submit(j) /\ ~Somewhere(j)
    BY <1>1, <1>2, <1>3 DEF SubmittedOnly
  <2>2. NothingGained(j)
    BY <1>1, <2>1, CopiesStep DEF Moved
  <2> QED
    BY <1>1, <2>1, <2>2, GainedNothing
<1>5. ASSUME NEW j \in Job \ returned'
      PROVE  AtMostOne(j)'
  <2>1. j \in Job /\ j \notin returned' /\ AtMostOne(j)
    BY <1>2 DEF CopyInv
  <2>2. CASE Submit(j)
    <3>1. ~Somewhere(j)
      BY <1>1, <2>2 DEF Submit, SubmittedOnly
    <3> QED
      BY <1>1, <2>2, <3>1, SubmitOnce
  <2>3. CASE ~Submit(j)
    <3>1. NothingGained(j) \/ Moved(j)
      BY <1>1, <2>1, <2>3, CopiesStep
    <3> QED
      BY <1>1, <2>1, <3>1, GainedNothing DEF Moved
  <2> QED
    BY <2>2, <2>3
<1> QED
  BY <1>1, <1>3, <1>4, <1>5 DEF CopyInv, SubmittedOnly

(***************************************************************************)
(* Redelivery never multiplies a job nobody has finished, for any number   *)
(* of reapers, workers and operators, whatever faults end or fail a        *)
(* command: LREM lets one sweep only go on with an entry.                  *)
(***************************************************************************)
THEOREM OneCopy == Spec => []SingleCopy
<1>1. CopyInv => SingleCopy
  BY AtMostOnePlace DEF CopyInv, SubmittedOnly, SingleCopy, Unfinished, TypeInv, HistoryOK
<1> QED
  BY <1>1, CopyInvInit, CopyInvStep, PTL DEF Spec

-----------------------------------------------------------------------------
(* The delivery counter.                                                   *)

\* The job can be delivered, or is about to be pushed where it can.
Runnable(j) ==
    \/ Occurs(pending, j)
    \/ processing[j] > 0
    \/ \E p \in Proc : reaper[p].pc = "return" /\ reaper[p].job = j
    \/ \E o \in Operator : operator[o].pc = "push" /\ operator[o].job = j

CountInv ==
    /\ CopyInv
    /\ \A j \in Job \ returned : Runnable(j) => deliveries[j] <= MaxRedeliveries
    /\ \A j \in Job \ submitted : deliveries[j] = 0

(***************************************************************************)
(* Only four commands write the delivery counters.                         *)
(***************************************************************************)
LEMMA CounterCommands ==
    ASSUME [Next]_vars
    PROVE  \/ deliveries' = deliveries
           \/ \E p \in Proc : ReapCount(p) \/ ReapForget(p) \/ AckCount(p)
           \/ \E o \in Operator : ReplayClear(o)
<1>1. ASSUME NEW j \in Job, Submit(j) \/ Retry(j) \/ Expire(j)
      PROVE  deliveries' = deliveries
  BY <1>1 DEF Submit, Retry, EnqueueAgain, Expire, hashes
<1>2. ASSUME NEW p \in Proc, WorkerNext(p), ~AckCount(p)
      PROVE  deliveries' = deliveries
  BY <1>2 DEF WorkerNext, ClaimMove, ClaimStamp, Finish, Requeue, EnqueueAgain, Raise,
              AckList, AckBeat, hashes
<1>3. ASSUME NEW p \in Proc, ReaperNext(p), ~ReapCount(p), ~ReapForget(p)
      PROVE  deliveries' = deliveries
  BY <1>3 DEF ReaperNext, SweepStart, SweepEnd, SweepCheck, ReapRemove, ReapBeat,
              ReapReturn, ReapBury, SweepFail, hashes
<1>4. ASSUME NEW p \in Proc, Crash(p) \/ Stop(p) \/ Restart(p)
      PROVE  deliveries' = deliveries
  BY <1>4 DEF Crash, Stop, Restart, hashes
<1>5. ASSUME NEW o \in Operator, OperatorNext(o), ~ReplayClear(o)
      PROVE  deliveries' = deliveries
  BY <1>5 DEF OperatorNext, ReplayRemove, ReplayPush, ReplayCrash, hashes
<1>6. ASSUME UNCHANGED vars
      PROVE  deliveries' = deliveries
  BY <1>6 DEF vars, hashes
<1> QED
  BY <1>1, <1>2, <1>3, <1>4, <1>5, <1>6 DEF Next

\* The commands that write the counter of a job.
Counts(p, j) == ReapCount(p) /\ reaper[p].job = j
Clears(o, j) == ReplayClear(o) /\ operator[o].job = j

(***************************************************************************)
(* A step keeps the counter of a job, clears it, or is the HINCRBY of the  *)
(* sweep that moves it.                                                    *)
(***************************************************************************)
LEMMA CounterStep ==
    ASSUME TypeInv, [Next]_vars, NEW j \in Job
    PROVE  \/ deliveries'[j] = deliveries[j]
           \/ deliveries'[j] = 0
           \/ \E p \in Proc : Counts(p, j)
<1> USE DEF TypeInv, StoreOK
<1>1. ASSUME NEW p \in Proc, ReapCount(p), reaper[p].job # j
      PROVE  deliveries'[j] = deliveries[j]
  BY <1>1 DEF ReapCount
<1>2. ASSUME NEW p \in Proc, AckCount(p) \/ ReapForget(p)
      PROVE  deliveries'[j] \in {0, deliveries[j]}
  BY <1>2 DEF AckCount, ReapForget, ForgetDeliveries
<1>3. ASSUME NEW o \in Operator, ReplayClear(o)
      PROVE  deliveries'[j] \in {0, deliveries[j]}
  BY <1>3 DEF ReplayClear, ForgetDeliveries
<1> QED
  BY <1>1, <1>2, <1>3, CounterCommands DEF Counts

(***************************************************************************)
(* A job nobody finished becomes runnable by three commands only: when it  *)
(* is submitted, when its counter is cleared for a replay, and when a      *)
(* sweep has counted the delivery.                                         *)
(***************************************************************************)
LEMMA RunnableStep ==
    ASSUME TypeInv, [Next]_vars, NEW j \in Job, j \notin returned', ~Submit(j),
           \A p \in Proc : ~Counts(p, j),
           \A o \in Operator : ~Clears(o, j),
           Runnable(j)'
    PROVE  Runnable(j)
<1> USE DEF TypeInv, StoreOK
<1> DEFINE Returning(p) == reaper[p].pc = "return" /\ reaper[p].job = j
           Pushing(o) == operator[o].pc = "push" /\ operator[o].job = j
<1>0. \A p \in Proc : Returning(p) => Runnable(j)
  BY DEF Runnable
<1>7. \A o \in Operator : Pushing(o) => Runnable(j)
  BY DEF Runnable
<1>1. ASSUME NEW k \in Job, Submit(k) \/ Retry(k) \/ Expire(k)
      PROVE  Runnable(j)
  <2>1. CASE Expire(k)
    BY <2>1 DEF Expire, lists, Runnable
  <2>2. CASE Submit(k) \/ Retry(k)
    <3>1. j # k /\ pending' = LPush(pending, k) /\ UNCHANGED <<processing, reaper, operator>>
      BY <2>2 DEF Submit, Retry, EnqueueAgain
    <3>2. Occurs(pending', j) <=> Occurs(pending, j)
      BY <3>1, OccursPush
    <3> QED
      BY <3>1, <3>2 DEF Runnable
  <2> QED
    BY <1>1, <2>1, <2>2
<1>2. ASSUME NEW p \in Proc, WorkerNext(p)
      PROVE  Runnable(j)
  <2>1. /\ operator' = operator
        /\ \A q \in Proc : reaper'[q].pc = "return" => /\ reaper[q].pc = "return"
                                                       /\ reaper'[q].job = reaper[q].job
    <3>1. CASE ClaimStamp(p)
      BY <3>1 DEF ClaimStamp, ReaperOK, ReaperState
    <3>2. CASE AckCount(p)
      BY <3>2, ProcessFacts DEF AckCount, EndProcess, ReaperOK
    <3>3. CASE ~ClaimStamp(p) /\ ~AckCount(p)
      BY <1>2, <3>3 DEF WorkerNext, ClaimMove, Finish, Requeue, EnqueueAgain, Raise, AckList,
                        AckBeat
    <3> QED
      BY <3>1, <3>2, <3>3
  <2>2. Occurs(pending', j) => Occurs(pending, j)
    <3>1. CASE ClaimMove(p)
      BY <3>1, OccursPop DEF ClaimMove
    <3>2. CASE Requeue(p)
      <4>1. worker[p].job \in Job /\ j # worker[p].job
        BY <3>2 DEF Requeue, WorkerStep, WorkerOK, Driving
      <4> QED
        BY <3>2, <4>1, OccursPush DEF Requeue, EnqueueAgain
    <3>3. CASE ~ClaimMove(p) /\ ~Requeue(p)
      BY <1>2, <3>3 DEF WorkerNext, ClaimStamp, Finish, Raise, AckList, AckBeat, AckCount, lists
    <3> QED
      BY <3>1, <3>2, <3>3
  <2>3. processing'[j] > 0 => processing[j] > 0 \/ Occurs(pending, j)
    <3>1. CASE ClaimMove(p)
      <4>1. Rightmost(pending) \in Job
        BY <3>1, PopFacts DEF ClaimMove
      <4>2. j = Rightmost(pending) \/ processing'[j] = processing[j]
        BY <3>1, <4>1 DEF ClaimMove, AddCopy
      <4> QED
        BY <3>1, <4>2, OccursPop DEF ClaimMove
    <3>2. CASE AckList(p)
      <4>1. worker[p].job \in Job
        BY <3>2 DEF AckList, WorkerStep, WorkerOK, Driving
      <4> QED
        BY <3>2, <4>1 DEF AckList, TakeCopy
    <3>3. CASE ~ClaimMove(p) /\ ~AckList(p)
      BY <1>2, <3>3 DEF WorkerNext, ClaimStamp, Finish, Requeue, EnqueueAgain, Raise, AckBeat,
                        AckCount, lists
    <3> QED
      BY <3>1, <3>2, <3>3
  <2> QED
    BY <2>1, <2>2, <2>3 DEF Runnable
<1>3. ASSUME NEW p \in Proc, ReaperNext(p)
      PROVE  Runnable(j)
  <2>1. operator' = operator /\ \A q \in Proc \ {p} : reaper'[q] = reaper[q]
    BY <1>3 DEF ReaperNext, SweepStart, SweepEnd, SweepCheck, ReapRemove, ReapBeat, ReapCount,
                ReapReturn, ReapBury, ReapForget, SweepFail, ReaperStep, ReaperOK
  <2>2. ~(reaper'[p].pc = "return" /\ reaper'[p].job = j)
    <3>1. CASE ReapCount(p)
      BY <3>1 DEF ReapCount, Counts, ReaperStep, ReaperOK, ReaperState
    <3>2. CASE SweepEnd(p) \/ SweepFail(p)
      BY <3>2, ProcessFacts DEF SweepEnd, SweepFail, ReaperOK
    <3>3. CASE SweepStart(p)
      BY <3>3 DEF SweepStart, ReaperOK
    <3>4. ASSUME NEW k \in Job, SweepCheck(p, k)
          PROVE  reaper'[p].pc # "return"
      BY <3>4 DEF SweepCheck, ReaperOK, ReaperState
    <3>5. CASE ReapRemove(p) \/ ReapBeat(p) \/ ReapReturn(p) \/ ReapBury(p) \/ ReapForget(p)
      BY <3>5 DEF ReapRemove, ReapBeat, ReapReturn, ReapBury, ReapForget, ReaperStep, ReaperOK,
                  ReaperState
    <3> QED
      BY <1>3, <3>1, <3>2, <3>3, <3>4, <3>5 DEF ReaperNext
  <2>3. processing'[j] > 0 => processing[j] > 0
    <3>1. CASE ReapRemove(p)
      <4>1. reaper[p].job \in Job
        BY <3>1 DEF ReapRemove, ReaperOK
      <4> QED
        BY <3>1, <4>1 DEF ReapRemove, TakeCopy
    <3>2. CASE ~ReapRemove(p)
      BY <1>3, <3>2 DEF ReaperNext, SweepStart, SweepEnd, SweepCheck, ReapBeat, ReapCount,
                        ReapReturn, ReapBury, ReapForget, SweepFail, lists
    <3> QED
      BY <3>1, <3>2
  <2>4. Occurs(pending', j) => Occurs(pending, j) \/ Returning(p)
    <3>1. CASE ReapReturn(p)
      <4>1. reaper[p].job \in Job
        BY <3>1 DEF ReapReturn, ReaperOK
      <4> QED
        BY <3>1, <4>1, OccursPush DEF ReapReturn
    <3>2. CASE ~ReapReturn(p)
      BY <1>3, <3>2 DEF ReaperNext, SweepStart, SweepEnd, SweepCheck, ReapRemove, ReapBeat,
                        ReapCount, ReapBury, ReapForget, SweepFail, lists
    <3> QED
      BY <3>1, <3>2
  <2> QED
    BY <1>0, <2>1, <2>2, <2>3, <2>4 DEF Runnable
<1>4. ASSUME NEW p \in Proc, Crash(p) \/ Stop(p) \/ Restart(p)
      PROVE  Runnable(j)
  <2>1. \A q \in Proc : reaper'[q].pc = "return" => reaper'[q] = reaper[q]
    BY <1>4, ProcessFacts DEF Crash, Stop, Restart, EndProcess, ReaperOK
  <2>2. UNCHANGED <<pending, processing, operator>>
    BY <1>4 DEF Crash, Stop, Restart, lists
  <2> QED
    BY <2>1, <2>2 DEF Runnable
<1>5. ASSUME NEW o \in Operator, OperatorNext(o)
      PROVE  Runnable(j)
  <2>1. UNCHANGED <<processing, reaper>> /\ \A x \in Operator \ {o} : operator'[x] = operator[x]
    BY <1>5 DEF OperatorNext, ReplayRemove, ReplayClear, ReplayPush, ReplayCrash, OperatorStep,
                OperatorOK, lists
  <2>2. ~(operator'[o].pc = "push" /\ operator'[o].job = j)
    <3>1. CASE ReplayClear(o)
      BY <3>1 DEF ReplayClear, Clears, OperatorStep, OperatorOK, OperatorState
    <3>2. ASSUME NEW k \in Job, ReplayRemove(o, k)
          PROVE  operator'[o].pc # "push"
      BY <3>2 DEF ReplayRemove, OperatorOK
    <3>3. CASE ReplayPush(o) \/ ReplayCrash(o)
      BY <3>3 DEF ReplayPush, ReplayCrash, OperatorOK, IdleOperator
    <3> QED
      BY <1>5, <3>1, <3>2, <3>3 DEF OperatorNext
  <2>3. Occurs(pending', j) => Occurs(pending, j) \/ Pushing(o)
    <3>1. CASE ReplayPush(o)
      <4>1. operator[o].job \in Job
        BY <3>1 DEF ReplayPush, OperatorOK
      <4> QED
        BY <3>1, <4>1, OccursPush DEF ReplayPush
    <3>2. CASE ~ReplayPush(o)
      BY <1>5, <3>2 DEF OperatorNext, ReplayRemove, ReplayClear, ReplayCrash, lists
    <3> QED
      BY <3>1, <3>2
  <2> QED
    BY <1>7, <2>1, <2>2, <2>3 DEF Runnable
<1>6. CASE UNCHANGED vars
  BY <1>6 DEF vars, lists, Runnable
<1> QED
  BY <1>1, <1>2, <1>3, <1>4, <1>5, <1>6 DEF Next

(***************************************************************************)
(* A delivery beyond the limit is counted when the job is in one hand and  *)
(* nowhere else, so it is parked before anyone can take it.                *)
(***************************************************************************)
LEMMA BuryStep ==
    ASSUME TypeInv, NEW j \in Job, AtMostOne(j), NEW p \in Proc, Counts(p, j),
           Runnable(j)'
    PROVE  deliveries'[j] <= MaxRedeliveries
<1> USE DEF TypeInv, StoreOK
<1>1. /\ reaper[p].pc = "count" /\ ReaperHolds(p, j) /\ ByReaper(j)
      /\ UNCHANGED <<pending, processing, operator>>
      /\ deliveries'[j] = deliveries[j] + 1
  BY DEF Counts, ReapCount, ReaperStep, lists, ReaperHolds, Moving, ByReaper
<1>2. /\ ~Occurs(pending', j) /\ ~(processing'[j] > 0)
      /\ \A o \in Operator : ~(operator'[o].pc = "push" /\ operator'[o].job = j)
  BY <1>1 DEF AtMostOne, ByOperator, OperatorHolds
<1>3. \A q \in Proc \ {p} : ~(reaper'[q].pc = "return" /\ reaper'[q].job = j)
  <2>1. \A q \in Proc \ {p} : reaper'[q] = reaper[q]
    BY DEF Counts, ReapCount, ReaperStep, ReaperOK
  <2> QED
    BY <1>1, <2>1 DEF AtMostOne, ReaperHolds, Moving
<1>4. reaper'[p].pc = "return"
  BY <1>2, <1>3 DEF Runnable
<1>5. deliveries[j] + 1 > MaxRedeliveries => reaper'[p].pc = "bury"
  BY DEF Counts, ReapCount, ReaperStep, ReaperOK, ReaperState
<1> QED
  BY <1>1, <1>4, <1>5, BoundAssumption

(***************************************************************************)
(* CountInv is inductive.                                                  *)
(***************************************************************************)
LEMMA CountInvInit == Init => CountInv
  BY CopyInvInit, BoundAssumption DEF Init, CountInv

(***************************************************************************)
(* A step keeps it: what becomes runnable has been counted.                *)
(***************************************************************************)
LEMMA CountInvStep == CountInv /\ [Next]_vars => CountInv'
<1> SUFFICES ASSUME CountInv, [Next]_vars PROVE CountInv'
  OBVIOUS
<1>1. CopyInv /\ CopyInv' /\ TypeInv /\ SubmittedOnly
  BY CopyInvStep DEF CountInv, CopyInv
<1>2. /\ returned \subseteq returned' /\ submitted \subseteq submitted'
  BY HistoryGrows
<1>3. ASSUME NEW j \in Job \ submitted'
      PROVE  deliveries'[j] = 0
  <2>1. deliveries[j] = 0 /\ ~Somewhere(j)
    BY <1>1, <1>2 DEF CountInv, SubmittedOnly
  <2>2. \A p \in Proc : ~Counts(p, j)
    BY <2>1 DEF Counts, ReapCount, ReaperStep, Somewhere, ReaperHolds, Moving
  <2> QED
    BY <1>1, <2>1, <2>2, CounterStep
<1>4. ASSUME NEW j \in Job \ returned', Runnable(j)'
      PROVE  deliveries'[j] <= MaxRedeliveries
  <2>1. j \in Job \ returned /\ j \notin returned'
    BY <1>2
  <2>2. CASE \E p \in Proc : Counts(p, j)
    BY <1>1, <1>4, <2>1, <2>2, BuryStep DEF CopyInv
  <2>3. CASE Submit(j)
    BY <1>1, <2>1, <2>3, BoundAssumption DEF Submit, hashes, CountInv
  <2>4. CASE deliveries'[j] = 0
    BY <2>4, BoundAssumption
  <2>5. CASE deliveries'[j] # 0 /\ ~Submit(j) /\ ~(\E p \in Proc : Counts(p, j))
    <3>1. deliveries'[j] = deliveries[j]
      BY <1>1, <2>1, <2>5, CounterStep
    <3>2. \A o \in Operator : ~Clears(o, j)
      BY <1>1, <2>1, <2>5 DEF Clears, ReplayClear, ForgetDeliveries, TypeInv, StoreOK
    <3>3. Runnable(j)
      BY <1>1, <1>4, <2>1, <2>5, <3>2, RunnableStep
    <3> QED
      BY <2>1, <3>1, <3>3 DEF CountInv
  <2> QED
    BY <2>2, <2>3, <2>4, <2>5
<1> QED
  BY <1>1, <1>3, <1>4 DEF CountInv

(***************************************************************************)
(* A job nobody could finish is runnable within its limit of deliveries    *)
(* only, whatever acks, sweeps, replays and faults do to its counter.      *)
(***************************************************************************)
THEOREM PoisonParked == Spec => []PoisonBound
<1>1. CountInv => PoisonBound
  BY DEF CountInv, CopyInv, TypeInv, HistoryOK, PoisonBound, Unfinished, Runnable
<1> QED
  BY <1>1, CountInvInit, CountInvStep, PTL DEF Spec

-----------------------------------------------------------------------------
(* Who clears a counter.                                                   *)

\* With nothing that raises, only a driver that finished its job acks it.
AckingFinished ==
    \A p \in Proc : worker[p].pc \in {"ackList", "ackBeat", "ackCount"}
                        => worker[p].job \in returned

(***************************************************************************)
(* A driver starts the ack with the job recorded, if it does not raise.    *)
(***************************************************************************)
LEMMA AckingStep ==
    ASSUME TypeInv, AckingFinished, "raise" \notin Faults, [Next]_vars
    PROVE  AckingFinished'
<1> USE DEF TypeInv, AckingFinished
<1>0. returned \subseteq returned'
  BY HistoryGrows
<1>1. CASE UNCHANGED worker
  BY <1>0, <1>1
<1>2. ASSUME NEW p \in Proc, WorkerNext(p)
      PROVE  AckingFinished'
  <2>1. CASE ClaimMove(p)
    BY <1>0, <2>1 DEF ClaimMove, WorkerOK, WorkerState
  <2>2. CASE ClaimStamp(p) \/ AckList(p) \/ AckBeat(p)
    BY <1>0, <2>2 DEF ClaimStamp, AckList, AckBeat, WorkerStep, WorkerOK, WorkerState
  <2>3. CASE Finish(p) \/ Requeue(p)
    BY <2>3 DEF Finish, Requeue, WorkerStep, WorkerOK, WorkerState
  <2>4. CASE AckCount(p)
    BY <1>0, <2>4, ProcessFacts DEF AckCount, EndProcess, WorkerOK
  <2> QED
    BY <1>2, <2>1, <2>2, <2>3, <2>4 DEF WorkerNext, Raise
<1>3. ASSUME NEW p \in Proc, Crash(p) \/ Stop(p) \/ Restart(p)
      PROVE  AckingFinished'
  BY <1>0, <1>3, ProcessFacts DEF Crash, Stop, Restart, EndProcess, WorkerOK
<1>4. ASSUME NEW j \in Job, Submit(j) \/ Retry(j) \/ Expire(j)
      PROVE  UNCHANGED worker
  BY <1>4 DEF Submit, Retry, Expire
<1>5. ASSUME NEW p \in Proc, ReaperNext(p)
      PROVE  UNCHANGED worker
  BY <1>5 DEF ReaperNext, SweepStart, SweepEnd, SweepCheck, ReapRemove, ReapBeat, ReapCount,
              ReapReturn, ReapBury, ReapForget, SweepFail
<1>6. ASSUME NEW o \in Operator, OperatorNext(o)
      PROVE  UNCHANGED worker
  BY <1>6 DEF OperatorNext, ReplayRemove, ReplayClear, ReplayPush, ReplayCrash
<1>7. CASE UNCHANGED vars
  BY <1>1, <1>7 DEF vars
<1> QED
  BY <1>1, <1>2, <1>3, <1>4, <1>5, <1>6, <1>7 DEF Next

(***************************************************************************)
(* If process_request does not raise, only a replay, or the sweep that has *)
(* just parked a job nobody finished, lowers its counter: no ack does.     *)
(***************************************************************************)
THEOREM CounterKept == "raise" \notin Faults => (Spec => CounterKeptUntilParked)
<1> SUFFICES ASSUME "raise" \notin Faults PROVE Spec => CounterKeptUntilParked
  OBVIOUS
<1> DEFINE Inv == TypeInv /\ AckingFinished
<1>1. Init => Inv
  BY TypeInit, ProcessFacts DEF Init, AckingFinished
<1>2. Inv /\ [Next]_vars => Inv'
  BY TypeStep, AckingStep
<1>3. ASSUME Inv, [Next]_vars, NEW j \in Unfinished, deliveries'[j] < deliveries[j]
      PROVE  \/ \E o \in Operator : operator[o].pc = "clear" /\ operator[o].job = j
             \/ \E p \in Proc : reaper[p].pc = "forget" /\ reaper[p].job = j
  <2>1. j \in Job /\ j \notin returned /\ deliveries \in [Job -> Nat]
    BY <1>3 DEF Unfinished, TypeInv, HistoryOK, StoreOK
  <2>2. ASSUME NEW p \in Proc, ReapCount(p) \/ AckCount(p)
        PROVE  ~(deliveries'[j] < deliveries[j])
    <3>1. CASE ReapCount(p)
      BY <2>1, <3>1 DEF ReapCount
    <3>2. CASE AckCount(p)
      BY <1>3, <2>1, <3>2 DEF AckCount, ForgetDeliveries, AckingFinished
    <3> QED
      BY <2>2, <3>1, <3>2
  <2>3. ASSUME NEW p \in Proc, ReapForget(p)
        PROVE  reaper[p].pc = "forget" /\ reaper[p].job = j
    BY <1>3, <2>1, <2>3 DEF ReapForget, ForgetDeliveries
  <2>4. ASSUME NEW o \in Operator, ReplayClear(o)
        PROVE  operator[o].pc = "clear" /\ operator[o].job = j
    BY <1>3, <2>1, <2>4 DEF ReplayClear, OperatorStep, ForgetDeliveries
  <2>5. deliveries' # deliveries
    BY <1>3, <2>1
  <2> QED
    BY <1>3, <2>2, <2>3, <2>4, <2>5, CounterCommands
<1>4. Inv /\ [Next]_vars =>
        [\A j \in Unfinished : deliveries'[j] < deliveries[j] =>
             \/ \E o \in Operator : operator[o].pc = "clear" /\ operator[o].job = j
             \/ \E p \in Proc : reaper[p].pc = "forget" /\ reaper[p].job = j]_vars
  BY <1>3
<1> QED
  BY <1>1, <1>2, <1>4, PTL DEF Spec, CounterKeptUntilParked

-----------------------------------------------------------------------------
(***************************************************************************)
(* The refinement: the Redis commands of JobQueue implement                *)
(* AtLeastOnceQueue, for any jobs, any finite sets of processes and        *)
(* operators, any bounds and any faults.                                   *)
(***************************************************************************)

(* Counting an id on a list, and the hands that hold it.                   *)

Positions(list, j) == {i \in 1..Len(list) : list[i] = j}

(***************************************************************************)
(* The positions of an id are finitely many.                               *)
(***************************************************************************)
LEMMA PositionsFinite ==
    ASSUME NEW S, NEW s \in Seq(S), NEW j
    PROVE  IsFiniteSet(Positions(s, j)) /\ Cardinality(Positions(s, j)) \in Nat
<1>1. Len(s) \in Nat
  BY LenProperties
<1>2. IsFiniteSet(1..Len(s))
  BY <1>1, FS_Interval
<1>3. IsFiniteSet(Positions(s, j))
  BY <1>2, FS_Subset DEF Positions
<1> QED
  BY <1>3, FS_CardinalityType

(***************************************************************************)
(* LPUSH adds one position to the pushed id, and shifts the others.        *)
(***************************************************************************)
LEMMA CountPush ==
    ASSUME NEW S, NEW s \in Seq(S), NEW e \in S, NEW j
    PROVE  Cardinality(Positions(LPush(s, e), j)) =
               IF j = e THEN Cardinality(Positions(s, j)) + 1
               ELSE Cardinality(Positions(s, j))
<1> DEFINE t == LPush(s, e)
           P == Positions(s, j)
           U == {i \in 2..(Len(s) + 1) : s[i - 1] = j}
<1>1. /\ Len(s) \in Nat /\ Len(t) = Len(s) + 1 /\ t[1] = e
      /\ \A i \in 2..(Len(s) + 1) : t[i] = s[i - 1]
  BY LPushFacts, LenProperties
<1>2. IsFiniteSet(P)
  BY PositionsFinite
<1>3. ExistsBijection(P, U)
  <2> DEFINE f == [i \in P |-> i + 1]
  <2>1. f \in [P -> U]
    BY <1>1 DEF Positions
  <2>2. \A a, b \in P : f[a] = f[b] => a = b
    BY <1>1 DEF Positions
  <2>3. ASSUME NEW u \in U PROVE \E i \in P : f[i] = u
    <3>1. u - 1 \in P /\ (u - 1) + 1 = u
      BY <1>1 DEF Positions
    <3> QED
      BY <3>1
  <2> HIDE DEF f, P, U
  <2>4. f \in Injection(P, U) /\ f \in Surjection(P, U)
    BY <2>1, <2>2, <2>3 DEF Injection, Surjection, IsInjective
  <2>5. f \in Bijection(P, U)
    BY <2>4 DEF Bijection
  <2> QED
    BY <2>5 DEF ExistsBijection
<1>4. IsFiniteSet(U) /\ Cardinality(U) = Cardinality(P)
  BY <1>2, <1>3, FS_Bijection
<1> HIDE DEF t, P
<1>5. Positions(t, j) = IF j = e THEN U \cup {1} ELSE U
  BY <1>1 DEF Positions
<1>6. 1 \notin U
  BY <1>1
<1> HIDE DEF U
<1>7. Cardinality(U \cup {1}) = Cardinality(U) + 1
  BY <1>4, <1>6, FS_AddElement
<1> QED
  BY <1>4, <1>5, <1>7 DEF t, P

(***************************************************************************)
(* Taking the rightmost entry takes one position of that id.               *)
(***************************************************************************)
LEMMA CountPop ==
    ASSUME NEW S, NEW s \in Seq(S), s # <<>>, NEW j
    PROVE  Cardinality(Positions(s, j)) =
               IF j = Rightmost(s) THEN Cardinality(Positions(ButRightmost(s), j)) + 1
               ELSE Cardinality(Positions(ButRightmost(s), j))
<1> DEFINE t == ButRightmost(s)
<1>1. /\ Len(s) \in Nat \ {0} /\ Len(t) = Len(s) - 1 /\ Rightmost(s) = s[Len(s)]
      /\ \A i \in 1..(Len(s) - 1) : t[i] = s[i]
      /\ t \in Seq(S)
  BY PopFacts DEF Rightmost
<1> HIDE DEF t
<1>2. Positions(s, j) = IF j = s[Len(s)] THEN Positions(t, j) \cup {Len(s)} ELSE Positions(t, j)
  BY <1>1 DEF Positions
<1>3. Len(s) \notin Positions(t, j)
  BY <1>1 DEF Positions
<1>4. IsFiniteSet(Positions(t, j))
  BY <1>1, PositionsFinite
<1>5. Cardinality(Positions(t, j) \cup {Len(s)}) = Cardinality(Positions(t, j)) + 1
  BY <1>3, <1>4, FS_AddElement
<1> QED
  BY <1>1, <1>2, <1>5 DEF t

-----------------------------------------------------------------------------
(* The state of the abstract queue.                                        *)

ReapersWith(j) == {p \in Proc : ReaperHolds(p, j)}
OperatorsWith(j) == {o \in Operator : OperatorHolds(o, j)}

Waits(j) == Cardinality(Positions(pending, j))
Helds(j) == processing[j] + Cardinality(ReapersWith(j))
Deads(j) == dead[j] + Cardinality(OperatorsWith(j))

Waiting == [j \in Job |-> Waits(j)]
Held == [j \in Job |-> Helds(j)]
Dead == [j \in Job |-> Deads(j)]

(***************************************************************************)
(* All three counts are natural numbers.                                   *)
(***************************************************************************)
LEMMA CountsType ==
    ASSUME TypeInv, NEW j \in Job
    PROVE  /\ Waits(j) \in Nat /\ Helds(j) \in Nat /\ Deads(j) \in Nat
           /\ IsFiniteSet(ReapersWith(j)) /\ Cardinality(ReapersWith(j)) \in Nat
           /\ IsFiniteSet(OperatorsWith(j)) /\ Cardinality(OperatorsWith(j)) \in Nat
<1>1. IsFiniteSet(ReapersWith(j)) /\ IsFiniteSet(OperatorsWith(j))
  BY FiniteAssumption, FS_Subset DEF ReapersWith, OperatorsWith
<1>2. Cardinality(ReapersWith(j)) \in Nat /\ Cardinality(OperatorsWith(j)) \in Nat
  BY <1>1, FS_CardinalityType
<1>3. Waits(j) \in Nat
  BY PositionsFinite DEF Waits, TypeInv, StoreOK
<1> QED
  BY <1>1, <1>2, <1>3 DEF Helds, Deads, TypeInv, StoreOK

\* What a command does to the count of one id in one place.
Same(j) == Waits(j)' = Waits(j) /\ Helds(j)' = Helds(j) /\ Deads(j)' = Deads(j)

(***************************************************************************)
(* The abstract actions, in terms of the counts of the job they are about. *)
(***************************************************************************)
LEMMA AbstractStep ==
    ASSUME TypeInv, NEW j \in Job, \A k \in Job \ {j} : Same(k),
           \/ /\ Waits(j)' = Waits(j) + 1 /\ Helds(j)' = Helds(j) /\ Deads(j)' = Deads(j)
           \/ /\ Waits(j) > 0 /\ Waits(j)' = Waits(j) - 1
              /\ Helds(j)' = Helds(j) + 1 /\ Deads(j)' = Deads(j)
           \/ /\ Helds(j) > 0 /\ Waits(j)' = Waits(j)
              /\ Helds(j)' = Helds(j) - 1 /\ Deads(j)' = Deads(j)
           \/ /\ Helds(j) > 0 /\ Waits(j)' = Waits(j) + 1
              /\ Helds(j)' = Helds(j) - 1 /\ Deads(j)' = Deads(j)
           \/ /\ Helds(j) > 0 /\ Waits(j)' = Waits(j)
              /\ Helds(j)' = Helds(j) - 1 /\ Deads(j)' = Deads(j) + 1
           \/ /\ Deads(j)' \in 1 .. Deads(j)
              /\ Waits(j)' = Waits(j) /\ Helds(j)' = Helds(j)
           \/ /\ Deads(j) > 0 /\ Waits(j)' = Waits(j) + 1
              /\ Helds(j)' = Helds(j) /\ Deads(j)' = Deads(j) - 1
           \/ /\ Lossy /\ Deads(j) > 0 /\ Waits(j)' = Waits(j)
              /\ Helds(j)' = Helds(j) /\ Deads(j)' = Deads(j) - 1
           \/ Same(j)
    PROVE  [Abstract!Next]_(Abstract!queue)
<1>1. /\ Waiting \in [Job -> Nat] /\ Held \in [Job -> Nat] /\ Dead \in [Job -> Nat]
  BY CountsType DEF Waiting, Held, Dead
<1>2. /\ Waiting' = [Waiting EXCEPT ![j] = Waits(j)']
      /\ Held' = [Held EXCEPT ![j] = Helds(j)']
      /\ Dead' = [Dead EXCEPT ![j] = Deads(j)']
  BY DEF Waiting, Held, Dead, Same
<1>3. Waiting[j] = Waits(j) /\ Held[j] = Helds(j) /\ Dead[j] = Deads(j)
  BY DEF Waiting, Held, Dead
<1>4. /\ Abstract!queue = <<Waiting, Held, Dead>>
      /\ Abstract!Enqueue(j) <=>
            Waiting' = [Waiting EXCEPT ![j] = @ + 1] /\ Held' = Held /\ Dead' = Dead
      /\ Abstract!Deliver(j) <=>
            /\ Waiting[j] > 0 /\ Waiting' = [Waiting EXCEPT ![j] = @ - 1]
            /\ Held' = [Held EXCEPT ![j] = @ + 1] /\ Dead' = Dead
      /\ Held[j] > 0 /\ Held' = [Held EXCEPT ![j] = @ - 1] /\ Waiting' = Waiting /\ Dead' = Dead
            => Abstract!Ack(j)
      /\ Abstract!Redeliver(j) <=>
            /\ Held[j] > 0 /\ Held' = [Held EXCEPT ![j] = @ - 1]
            /\ Waiting' = [Waiting EXCEPT ![j] = @ + 1] /\ Dead' = Dead
      /\ Abstract!Bury(j) <=>
            /\ Held[j] > 0 /\ Held' = [Held EXCEPT ![j] = @ - 1]
            /\ Dead' = [Dead EXCEPT ![j] = @ + 1] /\ Waiting' = Waiting
      /\ Abstract!Collapse(j) <=>
            /\ \E n \in 1 .. Dead[j] : Dead' = [Dead EXCEPT ![j] = n]
            /\ Waiting' = Waiting /\ Held' = Held
      /\ Abstract!Replay(j) <=>
            /\ Dead[j] > 0 /\ Dead' = [Dead EXCEPT ![j] = @ - 1]
            /\ Waiting' = [Waiting EXCEPT ![j] = @ + 1] /\ Held' = Held
      /\ Lossy /\ Dead[j] > 0 /\ Dead' = [Dead EXCEPT ![j] = @ - 1]
            /\ Held' = Held /\ Waiting' = Waiting => Abstract!Lose(j)
  BY DEF Waiting, Held, Dead, Waits, Helds, Deads, ReapersWith, OperatorsWith, Positions,
         Abstract!queue, Abstract!Enqueue, Abstract!Deliver, Abstract!Ack, Abstract!Redeliver,
         Abstract!Bury, Abstract!Collapse, Abstract!Replay, Abstract!Lose, Abstract!Add,
         Abstract!Take
<1> HIDE DEF Waiting, Held, Dead
<1>5. /\ Waits(j)' = Waits(j) => Waiting' = Waiting
      /\ Helds(j)' = Helds(j) => Held' = Held
      /\ Deads(j)' = Deads(j) => Dead' = Dead
  BY <1>1, <1>2, <1>3
<1>6. CASE /\ Waits(j)' = Waits(j) + 1 /\ Helds(j)' = Helds(j) /\ Deads(j)' = Deads(j)
  <2>1. Abstract!Enqueue(j)
    BY <1>2, <1>3, <1>4, <1>5, <1>6
  <2> QED
    BY <2>1 DEF Abstract!Next
<1>7. CASE /\ Waits(j) > 0 /\ Waits(j)' = Waits(j) - 1
           /\ Helds(j)' = Helds(j) + 1 /\ Deads(j)' = Deads(j)
  <2>1. Abstract!Deliver(j)
    BY <1>2, <1>3, <1>4, <1>5, <1>7
  <2> QED
    BY <2>1 DEF Abstract!Next
<1>8. CASE /\ Helds(j) > 0 /\ Waits(j)' = Waits(j)
           /\ Helds(j)' = Helds(j) - 1 /\ Deads(j)' = Deads(j)
  <2>1. Abstract!Ack(j)
    BY <1>2, <1>3, <1>4, <1>5, <1>8
  <2> QED
    BY <2>1 DEF Abstract!Next
<1>9. CASE /\ Helds(j) > 0 /\ Waits(j)' = Waits(j) + 1
           /\ Helds(j)' = Helds(j) - 1 /\ Deads(j)' = Deads(j)
  <2>1. Abstract!Redeliver(j)
    BY <1>2, <1>3, <1>4, <1>5, <1>9
  <2> QED
    BY <2>1 DEF Abstract!Next
<1>10. CASE /\ Helds(j) > 0 /\ Waits(j)' = Waits(j)
            /\ Helds(j)' = Helds(j) - 1 /\ Deads(j)' = Deads(j) + 1
  <2>1. Abstract!Bury(j)
    BY <1>2, <1>3, <1>4, <1>5, <1>10
  <2> QED
    BY <2>1 DEF Abstract!Next
<1>11. CASE /\ Deads(j)' \in 1 .. Deads(j)
            /\ Waits(j)' = Waits(j) /\ Helds(j)' = Helds(j)
  <2>1. Abstract!Collapse(j)
    BY <1>2, <1>3, <1>4, <1>5, <1>11
  <2> QED
    BY <2>1 DEF Abstract!Next
<1>12. CASE /\ Deads(j) > 0 /\ Waits(j)' = Waits(j) + 1
            /\ Helds(j)' = Helds(j) /\ Deads(j)' = Deads(j) - 1
  <2>1. Abstract!Replay(j)
    BY <1>2, <1>3, <1>4, <1>5, <1>12
  <2> QED
    BY <2>1 DEF Abstract!Next
<1>13. CASE /\ Lossy /\ Deads(j) > 0 /\ Waits(j)' = Waits(j)
            /\ Helds(j)' = Helds(j) /\ Deads(j)' = Deads(j) - 1
  <2>1. Abstract!Lose(j)
    BY <1>2, <1>3, <1>4, <1>5, <1>13
  <2> QED
    BY <2>1 DEF Abstract!Next
<1>14. CASE Same(j)
  <2>1. <<Waiting, Held, Dead>>' = <<Waiting, Held, Dead>>
    BY <1>5, <1>14 DEF Same
  <2>2. UNCHANGED (Abstract!queue)
    BY <2>1 DEF Waiting, Held, Dead, Waits, Helds, Deads, ReapersWith, OperatorsWith,
                Positions, Abstract!queue
  <2> QED
    BY <2>2
<1> QED
  BY <1>6, <1>7, <1>8, <1>9, <1>10, <1>11, <1>12, <1>13, <1>14

-----------------------------------------------------------------------------
(* What happens to the hands.                                              *)

(***************************************************************************)
(* A reaper whose hand was empty takes an entry of j off processing.       *)
(***************************************************************************)
LEMMA ReaperTakes ==
    ASSUME NEW p \in Proc, NEW j \in Job, ~Moving(p), ReaperHolds(p, j)',
           \A q \in Proc \ {p}, k \in Job : ReaperHolds(q, k)' <=> ReaperHolds(q, k)
    PROVE  /\ Cardinality(ReapersWith(j))' = Cardinality(ReapersWith(j)) + 1
           /\ \A k \in Job \ {j} : ReapersWith(k)' = ReapersWith(k)
<1>1. ReapersWith(j)' = ReapersWith(j) \cup {p} /\ p \notin ReapersWith(j)
  BY DEF ReapersWith, ReaperHolds
<1>2. \A k \in Job \ {j} : ReapersWith(k)' = ReapersWith(k)
  BY DEF ReapersWith, ReaperHolds
<1>3. IsFiniteSet(ReapersWith(j))
  BY FiniteAssumption, FS_Subset DEF ReapersWith
<1> QED
  BY <1>1, <1>2, <1>3, FS_AddElement

(***************************************************************************)
(* A reaper pushes the entry it holds, or is ended with it in its hand.    *)
(***************************************************************************)
LEMMA ReaperGives ==
    ASSUME NEW p \in Proc, NEW j \in Job, ReaperHolds(p, j), ~Moving(p)',
           \A q \in Proc \ {p}, k \in Job : ReaperHolds(q, k)' <=> ReaperHolds(q, k)
    PROVE  /\ Cardinality(ReapersWith(j)) > 0
           /\ Cardinality(ReapersWith(j))' = Cardinality(ReapersWith(j)) - 1
           /\ \A k \in Job \ {j} : ReapersWith(k)' = ReapersWith(k)
<1>1. ReapersWith(j)' = ReapersWith(j) \ {p} /\ p \in ReapersWith(j)
  BY DEF ReapersWith, ReaperHolds
<1>2. \A k \in Job \ {j} : ReapersWith(k)' = ReapersWith(k)
  BY DEF ReapersWith, ReaperHolds
<1>3. IsFiniteSet(ReapersWith(j))
  BY FiniteAssumption, FS_Subset DEF ReapersWith
<1>4. Cardinality(ReapersWith(j)) \in Nat /\ Cardinality(ReapersWith(j)) # 0
  BY <1>1, <1>3, FS_CardinalityType, FS_EmptySet
<1>5. Cardinality(ReapersWith(j) \ {p}) = Cardinality(ReapersWith(j)) - 1
  BY <1>1, <1>3, FS_RemoveElement
<1> QED
  BY <1>1, <1>2, <1>4, <1>5

(***************************************************************************)
(* The same for the operators who replay dead letters.                     *)
(***************************************************************************)
LEMMA OperatorTakes ==
    ASSUME NEW o \in Operator, NEW j \in Job, operator[o].pc = "idle", OperatorHolds(o, j)',
           \A x \in Operator \ {o}, k \in Job : OperatorHolds(x, k)' <=> OperatorHolds(x, k)
    PROVE  /\ Cardinality(OperatorsWith(j))' = Cardinality(OperatorsWith(j)) + 1
           /\ \A k \in Job \ {j} : OperatorsWith(k)' = OperatorsWith(k)
<1>1. OperatorsWith(j)' = OperatorsWith(j) \cup {o} /\ o \notin OperatorsWith(j)
  BY DEF OperatorsWith, OperatorHolds
<1>2. \A k \in Job \ {j} : OperatorsWith(k)' = OperatorsWith(k)
  BY DEF OperatorsWith, OperatorHolds
<1>3. IsFiniteSet(OperatorsWith(j))
  BY FiniteAssumption, FS_Subset DEF OperatorsWith
<1> QED
  BY <1>1, <1>2, <1>3, FS_AddElement

(***************************************************************************)
(* An operator's hand is emptied.                                          *)
(***************************************************************************)
LEMMA OperatorGives ==
    ASSUME NEW o \in Operator, NEW j \in Job, OperatorHolds(o, j), operator'[o].pc = "idle",
           \A x \in Operator \ {o}, k \in Job : OperatorHolds(x, k)' <=> OperatorHolds(x, k)
    PROVE  /\ Cardinality(OperatorsWith(j)) > 0
           /\ Cardinality(OperatorsWith(j))' = Cardinality(OperatorsWith(j)) - 1
           /\ \A k \in Job \ {j} : OperatorsWith(k)' = OperatorsWith(k)
<1>1. OperatorsWith(j)' = OperatorsWith(j) \ {o} /\ o \in OperatorsWith(j)
  BY DEF OperatorsWith, OperatorHolds
<1>2. \A k \in Job \ {j} : OperatorsWith(k)' = OperatorsWith(k)
  BY DEF OperatorsWith, OperatorHolds
<1>3. IsFiniteSet(OperatorsWith(j))
  BY FiniteAssumption, FS_Subset DEF OperatorsWith
<1>4. Cardinality(OperatorsWith(j)) \in Nat /\ Cardinality(OperatorsWith(j)) # 0
  BY <1>1, <1>3, FS_CardinalityType, FS_EmptySet
<1>5. Cardinality(OperatorsWith(j) \ {o}) = Cardinality(OperatorsWith(j)) - 1
  BY <1>1, <1>3, FS_RemoveElement
<1> QED
  BY <1>1, <1>2, <1>4, <1>5

-----------------------------------------------------------------------------
(* What every command does to the counts.                                  *)

(***************************************************************************)
(* A command that pushes no list and moves no entry stutters.              *)
(***************************************************************************)
LEMMA StutterStep ==
    ASSUME TypeInv, UNCHANGED lists,
           \A q \in Proc, k \in Job : ReaperHolds(q, k)' <=> ReaperHolds(q, k),
           \A x \in Operator, k \in Job : OperatorHolds(x, k)' <=> OperatorHolds(x, k)
    PROVE  [Abstract!Next]_(Abstract!queue)
<1>1. ASSUME NEW k \in Job PROVE Same(k)
  <2>1. ReapersWith(k)' = ReapersWith(k) /\ OperatorsWith(k)' = OperatorsWith(k)
    BY DEF ReapersWith, OperatorsWith
  <2> QED
    BY <2>1 DEF lists, Same, Waits, Helds, Deads
<1>2. CASE Job = {}
  <2>1. <<Waiting, Held, Dead>>' = <<Waiting, Held, Dead>>
    BY <1>2 DEF Waiting, Held, Dead
  <2>2. UNCHANGED (Abstract!queue)
    BY <2>1 DEF Waiting, Held, Dead, Waits, Helds, Deads, ReapersWith, OperatorsWith,
                Positions, Abstract!queue
  <2> QED
    BY <2>2
<1>3. CASE Job # {}
  <2>1. PICK j \in Job : TRUE
    BY <1>3
  <2>2. \A k \in Job \ {j} : Same(k)
    BY <1>1
  <2>3. Same(j)
    BY <1>1
  <2> QED
    BY <2>2, <2>3, AbstractStep
<1> QED
  BY <1>2, <1>3

(***************************************************************************)
(* LPUSH by a caller enqueues.                                             *)
(***************************************************************************)
LEMMA EnqueueStep ==
    ASSUME TypeInv, NEW j \in Job, pending' = LPush(pending, j),
           UNCHANGED <<processing, dead, reaper, operator>>
    PROVE  [Abstract!Next]_(Abstract!queue)
<1>1. \A k \in Job : ReapersWith(k)' = ReapersWith(k) /\ OperatorsWith(k)' = OperatorsWith(k)
  BY DEF ReapersWith, ReaperHolds, Moving, OperatorsWith, OperatorHolds
<1>2. \A k \in Job : Helds(k)' = Helds(k) /\ Deads(k)' = Deads(k)
  BY <1>1 DEF Helds, Deads
<1>3. \A k \in Job : Waits(k)' = IF k = j THEN Waits(k) + 1 ELSE Waits(k)
  BY CountPush DEF Waits, TypeInv, StoreOK
<1>4. \A k \in Job \ {j} : Same(k)
  BY <1>2, <1>3 DEF Same
<1>5. Waits(j)' = Waits(j) + 1 /\ Helds(j)' = Helds(j) /\ Deads(j)' = Deads(j)
  BY <1>2, <1>3
<1> HIDE DEF Abstract!Next, Abstract!queue
<1> QED
  BY <1>4, <1>5, AbstractStep

(***************************************************************************)
(* BLMOVE delivers a waiting copy.                                         *)
(***************************************************************************)
LEMMA DeliverStep ==
    ASSUME TypeInv, NEW p \in Proc, ClaimMove(p)
    PROVE  [Abstract!Next]_(Abstract!queue)
<1>1. pending # <<>> /\ pending \in Seq(Job)
  BY DEF ClaimMove, TypeInv, StoreOK
<1> PICK j \in Job : j = Rightmost(pending)
  BY <1>1, PopFacts
<1>2. /\ pending' = ButRightmost(pending) /\ processing' = AddCopy(processing, j)
      /\ dead' = dead /\ reaper' = reaper /\ operator' = operator
  BY DEF ClaimMove
<1>3. \A k \in Job : ReapersWith(k)' = ReapersWith(k) /\ OperatorsWith(k)' = OperatorsWith(k)
  BY <1>2 DEF ReapersWith, ReaperHolds, Moving, OperatorsWith, OperatorHolds
<1>4. \A k \in Job : Waits(k) = IF k = j THEN Waits(k)' + 1 ELSE Waits(k)'
  BY <1>1, <1>2, CountPop DEF Waits
<1>5. Waits(j)' \in Nat
  <2>1. pending' \in Seq(Job)
    BY <1>1, <1>2, PopFacts
  <2> QED
    BY <2>1, PositionsFinite DEF Waits
<1>6. \A k \in Job : Helds(k)' = IF k = j THEN Helds(k) + 1 ELSE Helds(k)
  <2>1. processing \in [Job -> Nat]
    BY DEF TypeInv, StoreOK
  <2>2. /\ processing'[j] = processing[j] + 1
        /\ \A k \in Job \ {j} : processing'[k] = processing[k]
    BY <1>2, <2>1, CopyFacts
  <2>3. \A k \in Job : Cardinality(ReapersWith(k)) \in Nat
    BY CountsType
  <2> QED
    BY <1>3, <2>1, <2>2, <2>3 DEF Helds
<1>7. \A k \in Job : Deads(k)' = Deads(k)
  BY <1>2, <1>3 DEF Deads
<1>8. \A k \in Job \ {j} : Same(k)
  BY <1>4, <1>6, <1>7 DEF Same
<1>9. /\ Waits(j) > 0 /\ Waits(j)' = Waits(j) - 1
      /\ Helds(j)' = Helds(j) + 1 /\ Deads(j)' = Deads(j)
  BY <1>1, <1>4, <1>5, <1>6, <1>7
<1> QED
  BY <1>1, <1>8, <1>9, AbstractStep

(***************************************************************************)
(* LREM by an ack settles a held copy, if processing still has one.        *)
(***************************************************************************)
LEMMA AckListStep ==
    ASSUME TypeInv, NEW p \in Proc, AckList(p)
    PROVE  [Abstract!Next]_(Abstract!queue)
<1> PICK j \in Job : j = worker[p].job
  BY DEF AckList, WorkerStep, TypeInv, WorkerOK, Driving
<1>1. /\ j \in Job /\ processing' = TakeCopy(processing, j)
      /\ pending' = pending /\ dead' = dead /\ reaper' = reaper /\ operator' = operator
  BY DEF AckList
<1>2. \A k \in Job : ReapersWith(k)' = ReapersWith(k) /\ OperatorsWith(k)' = OperatorsWith(k)
  BY <1>1 DEF ReapersWith, ReaperHolds, Moving, OperatorsWith, OperatorHolds
<1>3. \A k \in Job : Waits(k)' = Waits(k) /\ Deads(k)' = Deads(k)
  BY <1>1, <1>2 DEF Waits, Deads
<1>4. /\ \A k \in Job \ {j} : processing'[k] = processing[k]
      /\ processing'[j] = IF processing[j] = 0 THEN 0 ELSE processing[j] - 1
      /\ processing[j] \in Nat /\ Cardinality(ReapersWith(j)) \in Nat
  <2>1. processing \in [Job -> Nat]
    BY DEF TypeInv, StoreOK
  <2>2. Cardinality(ReapersWith(j)) \in Nat
    BY CountsType
  <2> QED
    BY <1>1, <2>1, <2>2, CopyFacts
<1>5. \A k \in Job \ {j} : Same(k)
  BY <1>2, <1>3, <1>4 DEF Same, Helds
<1>6. CASE processing[j] = 0
  <2>1. Same(j)
    BY <1>1, <1>2, <1>3, <1>4, <1>6 DEF Same, Helds
  <2> QED
    BY <1>1, <1>5, <2>1, AbstractStep
<1>7. CASE processing[j] # 0
  <2>1. Helds(j) > 0 /\ Helds(j)' = Helds(j) - 1
    BY <1>1, <1>2, <1>4, <1>7 DEF Helds
  <2> QED
    BY <1>1, <1>3, <1>5, <2>1, AbstractStep
<1> QED
  BY <1>6, <1>7

(***************************************************************************)
(* A sweep that removes an entry still holds it; one that finds it gone    *)
(* changes nothing.                                                        *)
(***************************************************************************)
LEMMA RemoveStep ==
    ASSUME TypeInv, NEW p \in Proc, ReapRemove(p)
    PROVE  [Abstract!Next]_(Abstract!queue)
<1> PICK j \in Job : j = reaper[p].job
  BY DEF ReapRemove, TypeInv, ReaperOK
<1>1. /\ j \in Job /\ processing' = TakeCopy(processing, j) /\ ~Moving(p)
      /\ pending' = pending /\ dead' = dead /\ operator' = operator
      /\ \A q \in Proc \ {p} : reaper'[q] = reaper[q]
  BY DEF ReapRemove, Moving, TypeInv, ReaperOK
<1>2. processing[j] > 0 => reaper'[p].pc = "beat" /\ reaper'[p].job = j
  BY DEF ReapRemove, TypeInv, ReaperOK, ReaperState
<1>3. ~(processing[j] > 0) => reaper'[p].pc = "scan"
  BY DEF ReapRemove, TypeInv, ReaperOK, ReaperState
<1>4. /\ \A k \in Job \ {j} : processing'[k] = processing[k]
      /\ processing'[j] = IF processing[j] = 0 THEN 0 ELSE processing[j] - 1
      /\ processing[j] \in Nat /\ Cardinality(ReapersWith(j)) \in Nat
  <2>1. processing \in [Job -> Nat]
    BY DEF TypeInv, StoreOK
  <2>2. Cardinality(ReapersWith(j)) \in Nat
    BY CountsType
  <2> QED
    BY <1>1, <2>1, <2>2, CopyFacts
<1>5. \A k \in Job : OperatorsWith(k)' = OperatorsWith(k)
  BY <1>1 DEF OperatorsWith, OperatorHolds
<1>6. \A k \in Job : Waits(k)' = Waits(k) /\ Deads(k)' = Deads(k)
  BY <1>1, <1>5 DEF Waits, Deads
<1>7. \A q \in Proc \ {p}, k \in Job : ReaperHolds(q, k)' <=> ReaperHolds(q, k)
  BY <1>1 DEF ReaperHolds, Moving
<1>8. \A k \in Job : Helds(k)' = Helds(k)
  <2>1. CASE processing[j] > 0
    <3>1. ReaperHolds(p, j)'
      BY <1>2, <2>1 DEF ReaperHolds, Moving
    <3>2. /\ Cardinality(ReapersWith(j))' = Cardinality(ReapersWith(j)) + 1
          /\ \A k \in Job \ {j} : ReapersWith(k)' = ReapersWith(k)
      BY <1>1, <1>7, <3>1, ReaperTakes
    <3> QED
      BY <1>1, <1>4, <2>1, <3>2 DEF Helds
  <2>2. CASE ~(processing[j] > 0)
    <3>1. processing[j] = 0
      BY <1>4, <2>2
    <3>2. \A k \in Job : ReapersWith(k)' = ReapersWith(k)
      BY <1>1, <1>3, <1>7, <2>2 DEF ReapersWith, ReaperHolds, Moving
    <3> QED
      BY <1>1, <1>4, <3>1, <3>2 DEF Helds
  <2> QED
    BY <2>1, <2>2
<1>9. \A k \in Job : Same(k)
  BY <1>6, <1>8 DEF Same
<1>10. \A k \in Job \ {j} : Same(k)
  BY <1>9
<1> QED
  BY <1>1, <1>9, <1>10, AbstractStep

(***************************************************************************)
(* A sweep pushes the entry it holds back to pending.                      *)
(***************************************************************************)
LEMMA ReturnStep ==
    ASSUME TypeInv, NEW p \in Proc, ReapReturn(p)
    PROVE  [Abstract!Next]_(Abstract!queue)
<1> PICK j \in Job : j = reaper[p].job
  BY DEF ReapReturn, TypeInv, ReaperOK
<1>1. /\ ReaperHolds(p, j) /\ pending' = LPush(pending, j)
      /\ processing' = processing /\ dead' = dead /\ operator' = operator
      /\ \A q \in Proc \ {p} : reaper'[q] = reaper[q]
      /\ reaper'[p].pc = "scan"
  BY DEF ReapReturn, ReaperHolds, Moving, TypeInv, ReaperOK, ReaperState
<1>2. ~Moving(p)'
  BY <1>1 DEF Moving
<1>3. \A q \in Proc \ {p}, k \in Job : ReaperHolds(q, k)' <=> ReaperHolds(q, k)
  BY <1>1 DEF ReaperHolds, Moving
<1>4. /\ Cardinality(ReapersWith(j)) > 0
      /\ Cardinality(ReapersWith(j))' = Cardinality(ReapersWith(j)) - 1
      /\ \A k \in Job \ {j} : ReapersWith(k)' = ReapersWith(k)
  BY <1>1, <1>2, <1>3, ReaperGives
<1>5. \A k \in Job : OperatorsWith(k)' = OperatorsWith(k)
  BY <1>1 DEF OperatorsWith, OperatorHolds
<1>6. \A k \in Job : Waits(k)' = IF k = j THEN Waits(k) + 1 ELSE Waits(k)
  BY <1>1, CountPush DEF Waits, TypeInv, StoreOK
<1>7. \A k \in Job : Deads(k)' = Deads(k)
  BY <1>1, <1>5 DEF Deads
<1>8. processing[j] \in Nat /\ Cardinality(ReapersWith(j)) \in Nat
  <2>1. processing[j] \in Nat
    BY DEF TypeInv, StoreOK
  <2> QED
    BY <2>1, CountsType
<1>9. Helds(j) > 0 /\ Helds(j)' = Helds(j) - 1
  BY <1>1, <1>4, <1>8 DEF Helds
<1>10. \A k \in Job \ {j} : Same(k)
  BY <1>1, <1>4, <1>6, <1>7 DEF Same, Helds
<1>11. Waits(j)' = Waits(j) + 1 /\ Deads(j)' = Deads(j)
  BY <1>6, <1>7
<1> QED
  BY <1>9, <1>10, <1>11, AbstractStep

(***************************************************************************)
(* A sweep pushes the entry it holds on the dead letters.                  *)
(***************************************************************************)
LEMMA BurialStep ==
    ASSUME TypeInv, NEW p \in Proc, ReapBury(p)
    PROVE  [Abstract!Next]_(Abstract!queue)
<1> PICK j \in Job : j = reaper[p].job
  BY DEF ReapBury, ReaperStep, TypeInv, ReaperOK
<1>1. /\ ReaperHolds(p, j) /\ dead' = AddCopy(dead, j)
      /\ processing' = processing /\ pending' = pending /\ operator' = operator
      /\ \A q \in Proc \ {p} : reaper'[q] = reaper[q]
      /\ reaper'[p].pc = "forget"
  BY DEF ReapBury, ReaperStep, ReaperHolds, Moving, TypeInv, ReaperOK, ReaperState
<1>2. ~Moving(p)'
  BY <1>1 DEF Moving
<1>3. \A q \in Proc \ {p}, k \in Job : ReaperHolds(q, k)' <=> ReaperHolds(q, k)
  BY <1>1 DEF ReaperHolds, Moving
<1>4. /\ Cardinality(ReapersWith(j)) > 0
      /\ Cardinality(ReapersWith(j))' = Cardinality(ReapersWith(j)) - 1
      /\ \A k \in Job \ {j} : ReapersWith(k)' = ReapersWith(k)
  BY <1>1, <1>2, <1>3, ReaperGives
<1>5. \A k \in Job : OperatorsWith(k)' = OperatorsWith(k)
  BY <1>1 DEF OperatorsWith, OperatorHolds
<1>6. \A k \in Job : Waits(k)' = Waits(k)
  BY <1>1 DEF Waits
<1>7. /\ processing[j] \in Nat /\ dead \in [Job -> Nat]
      /\ Cardinality(ReapersWith(j)) \in Nat /\ Cardinality(OperatorsWith(j)) \in Nat
  <2>1. processing[j] \in Nat /\ dead \in [Job -> Nat]
    BY DEF TypeInv, StoreOK
  <2> QED
    BY <2>1, CountsType
<1>8. Helds(j) > 0 /\ Helds(j)' = Helds(j) - 1
  BY <1>1, <1>4, <1>7 DEF Helds
<1>9. dead'[j] = dead[j] + 1 /\ \A k \in Job \ {j} : dead'[k] = dead[k]
  BY <1>1, <1>7, CopyFacts
<1>10. Waits(j)' = Waits(j) /\ Deads(j)' = Deads(j) + 1
  BY <1>5, <1>6, <1>7, <1>9 DEF Deads
<1>11. \A k \in Job \ {j} : Same(k)
  BY <1>1, <1>4, <1>5, <1>6, <1>9 DEF Same, Helds, Deads
<1> QED
  BY <1>8, <1>10, <1>11, AbstractStep

(***************************************************************************)
(* A sweep that ends, for whatever reason, drops the entry in its hand, if *)
(* there is one: to the callers it is as if the copy had been acked.       *)
(***************************************************************************)
LEMMA DropStep ==
    ASSUME TypeInv, NEW p \in Proc, ~Moving(p)', UNCHANGED <<lists, operator>>,
           \A q \in Proc \ {p} : reaper'[q] = reaper[q]
    PROVE  [Abstract!Next]_(Abstract!queue)
<1>1. \A q \in Proc \ {p}, k \in Job : ReaperHolds(q, k)' <=> ReaperHolds(q, k)
  BY DEF ReaperHolds, Moving
<1>2. CASE ~Moving(p)
  <2>1. \A q \in Proc, k \in Job : ReaperHolds(q, k)' <=> ReaperHolds(q, k)
    BY <1>1, <1>2 DEF ReaperHolds
  <2>2. \A x \in Operator, k \in Job : OperatorHolds(x, k)' <=> OperatorHolds(x, k)
    BY DEF OperatorHolds
  <2> QED
    BY <2>1, <2>2, StutterStep
<1>3. CASE Moving(p)
  <2> PICK j \in Job : j = reaper[p].job
    BY <1>3 DEF Moving, TypeInv, ReaperOK
  <2>1. ReaperHolds(p, j)
    BY <1>3 DEF ReaperHolds
  <2>2. /\ Cardinality(ReapersWith(j)) > 0
        /\ Cardinality(ReapersWith(j))' = Cardinality(ReapersWith(j)) - 1
        /\ \A k \in Job \ {j} : ReapersWith(k)' = ReapersWith(k)
    BY <1>1, <2>1, ReaperGives
  <2>3. \A k \in Job : OperatorsWith(k)' = OperatorsWith(k)
    BY DEF OperatorsWith, OperatorHolds
  <2>4. \A k \in Job : Waits(k)' = Waits(k) /\ Deads(k)' = Deads(k)
    BY <2>3 DEF Waits, Deads, lists
  <2>5. processing[j] \in Nat /\ Cardinality(ReapersWith(j)) \in Nat
    <3>1. processing[j] \in Nat
      BY DEF TypeInv, StoreOK
    <3> QED
      BY <3>1, CountsType
  <2>6. Helds(j) > 0 /\ Helds(j)' = Helds(j) - 1
    BY <2>2, <2>5 DEF Helds, lists
  <2>7. \A k \in Job \ {j} : Same(k)
    BY <2>2, <2>4 DEF Same, Helds, lists
  <2> QED
    BY <2>4, <2>6, <2>7, AbstractStep
<1> QED
  BY <1>2, <1>3

(***************************************************************************)
(* A replay takes every dead copy and holds one, as a collapse does.       *)
(***************************************************************************)
LEMMA CollapseStep ==
    ASSUME TypeInv, NEW o \in Operator, NEW j \in Job, ReplayRemove(o, j)
    PROVE  [Abstract!Next]_(Abstract!queue)
<1>1. /\ operator[o].pc = "idle" /\ OperatorHolds(o, j)'
      /\ processing' = processing /\ pending' = pending /\ reaper' = reaper
      /\ \A x \in Operator \ {o} : operator'[x] = operator[x]
  BY DEF ReplayRemove, OperatorHolds, TypeInv, OperatorOK
<1>2. /\ dead[j] \in Nat /\ dead[j] > 0 /\ dead'[j] = 0
      /\ \A k \in Job \ {j} : dead'[k] = dead[k]
  BY DEF ReplayRemove, TypeInv, StoreOK
<1>3. \A x \in Operator \ {o}, k \in Job : OperatorHolds(x, k)' <=> OperatorHolds(x, k)
  BY <1>1 DEF OperatorHolds
<1>4. /\ Cardinality(OperatorsWith(j))' = Cardinality(OperatorsWith(j)) + 1
      /\ \A k \in Job \ {j} : OperatorsWith(k)' = OperatorsWith(k)
  BY <1>1, <1>3, OperatorTakes
<1>5. \A k \in Job : ReapersWith(k)' = ReapersWith(k)
  BY <1>1 DEF ReapersWith, ReaperHolds, Moving
<1>6. \A k \in Job : Waits(k)' = Waits(k) /\ Helds(k)' = Helds(k)
  BY <1>1, <1>5 DEF Waits, Helds
<1>7. Cardinality(OperatorsWith(j)) \in Nat
  BY CountsType
<1>8. Deads(j)' \in 1 .. Deads(j)
  BY <1>2, <1>4, <1>7 DEF Deads
<1>9. \A k \in Job \ {j} : Same(k)
  BY <1>2, <1>4, <1>6 DEF Same, Deads
<1> QED
  BY <1>6, <1>8, <1>9, AbstractStep

(***************************************************************************)
(* The replay pushes what it holds, or dies with it.                       *)
(***************************************************************************)
LEMMA ReplayStep ==
    ASSUME TypeInv, NEW o \in Operator, ReplayPush(o) \/ ReplayCrash(o)
    PROVE  [Abstract!Next]_(Abstract!queue)
<1> PICK j \in Job : j = operator[o].job
  BY DEF ReplayPush, ReplayCrash, TypeInv, OperatorOK
<1>1. /\ OperatorHolds(o, j) /\ operator'[o].pc = "idle"
      /\ processing' = processing /\ dead' = dead /\ reaper' = reaper
      /\ \A x \in Operator \ {o} : operator'[x] = operator[x]
  BY DEF ReplayPush, ReplayCrash, OperatorHolds, IdleOperator, lists, TypeInv, OperatorOK
<1>2. \A x \in Operator \ {o}, k \in Job : OperatorHolds(x, k)' <=> OperatorHolds(x, k)
  BY <1>1 DEF OperatorHolds
<1>3. /\ Cardinality(OperatorsWith(j)) > 0
      /\ Cardinality(OperatorsWith(j))' = Cardinality(OperatorsWith(j)) - 1
      /\ \A k \in Job \ {j} : OperatorsWith(k)' = OperatorsWith(k)
  BY <1>1, <1>2, OperatorGives
<1>4. \A k \in Job : ReapersWith(k)' = ReapersWith(k)
  BY <1>1 DEF ReapersWith, ReaperHolds, Moving
<1>5. \A k \in Job : Helds(k)' = Helds(k)
  BY <1>1, <1>4 DEF Helds
<1>6. dead[j] \in Nat /\ Cardinality(OperatorsWith(j)) \in Nat
  <2>1. dead[j] \in Nat
    BY DEF TypeInv, StoreOK
  <2> QED
    BY <2>1, CountsType
<1>7. Deads(j) > 0 /\ Deads(j)' = Deads(j) - 1
  BY <1>1, <1>3, <1>6 DEF Deads
<1>8. \A k \in Job \ {j} : Deads(k)' = Deads(k)
  BY <1>1, <1>3 DEF Deads
<1>9. CASE ReplayPush(o)
  <2>1. \A k \in Job : Waits(k)' = IF k = j THEN Waits(k) + 1 ELSE Waits(k)
    BY <1>9, CountPush DEF ReplayPush, Waits, TypeInv, StoreOK
  <2>2. \A k \in Job \ {j} : Same(k)
    BY <1>5, <1>8, <2>1 DEF Same
  <2>3. Waits(j)' = Waits(j) + 1 /\ Helds(j)' = Helds(j)
    BY <1>5, <2>1
  <2> QED
    BY <1>7, <2>2, <2>3, AbstractStep
<1>10. CASE ReplayCrash(o)
  <2>1. Lossy /\ \A k \in Job : Waits(k)' = Waits(k)
    BY <1>10 DEF ReplayCrash, Lossy, Waits, lists
  <2>2. \A k \in Job \ {j} : Same(k)
    BY <1>5, <1>8, <2>1 DEF Same
  <2> QED
    BY <1>5, <1>7, <2>1, <2>2, AbstractStep
<1> QED
  BY <1>9, <1>10

-----------------------------------------------------------------------------
(* The refinement.                                                         *)

(***************************************************************************)
(* The empty store is the empty queue.                                     *)
(***************************************************************************)
LEMMA AbstractInit == Init => Abstract!Init
<1> SUFFICES ASSUME Init PROVE Abstract!Init
  OBVIOUS
<1>1. ASSUME NEW j \in Job PROVE Waits(j) = 0 /\ Helds(j) = 0 /\ Deads(j) = 0
  <2>1. Positions(pending, j) = {}
    BY DEF Init, Positions
  <2>2. ReapersWith(j) = {} /\ OperatorsWith(j) = {}
    BY DEF Init, ReapersWith, ReaperHolds, Moving, AsleepReaper, OperatorsWith,
           OperatorHolds, IdleOperator
  <2>3. processing[j] = 0 /\ dead[j] = 0
    BY DEF Init, NoCopies
  <2> QED
    BY <2>1, <2>2, <2>3, FS_EmptySet DEF Waits, Helds, Deads
<1>2. /\ Waiting = [j \in Job |-> 0] /\ Held = [j \in Job |-> 0]
      /\ Dead = [j \in Job |-> 0]
  BY <1>1 DEF Waiting, Held, Dead
<1> QED
  BY <1>2 DEF Waiting, Held, Dead, Waits, Helds, Deads, ReapersWith, OperatorsWith,
              Positions, Abstract!Init

(***************************************************************************)
(* Every command is a step of the abstract queue or a stutter.             *)
(***************************************************************************)
LEMMA ImplementsStep == TypeInv /\ [Next]_vars => [Abstract!Next]_(Abstract!queue)
<1> SUFFICES ASSUME TypeInv, [Next]_vars PROVE [Abstract!Next]_(Abstract!queue)
  OBVIOUS
<1>1. ASSUME NEW j \in Job, Submit(j) \/ Retry(j) \/ Expire(j)
      PROVE  [Abstract!Next]_(Abstract!queue)
  <2>1. CASE Submit(j) \/ Retry(j)
    BY <2>1, EnqueueStep DEF Submit, Retry, EnqueueAgain
  <2>2. CASE Expire(j)
    BY <2>2, StutterStep DEF Expire, ReaperHolds, Moving, OperatorHolds
  <2> QED
    BY <1>1, <2>1, <2>2
<1>2. ASSUME NEW p \in Proc, WorkerNext(p)
      PROVE  [Abstract!Next]_(Abstract!queue)
  <2>1. CASE ClaimMove(p)
    BY <2>1, DeliverStep
  <2>2. CASE AckList(p)
    BY <2>2, AckListStep
  <2>3. CASE Requeue(p)
    <3>1. worker[p].job \in Job
      BY <2>3 DEF Requeue, WorkerStep, TypeInv, WorkerOK, Driving
    <3> QED
      BY <2>3, <3>1, EnqueueStep DEF Requeue, EnqueueAgain
  <2>4. CASE ClaimStamp(p)
    <3>1. \A r \in Proc : reaper'[r].pc = reaper[r].pc /\ reaper'[r].job = reaper[r].job
      BY <2>4 DEF ClaimStamp, TypeInv, ReaperOK, ReaperState
    <3> QED
      BY <2>4, <3>1, StutterStep DEF ClaimStamp, ReaperHolds, Moving, OperatorHolds
  <2>5. CASE AckCount(p)
    <3>1. CASE worker[p].exiting
      <4>1. reaper' = [reaper EXCEPT ![p] = [AsleepReaper EXCEPT !.pc = "down"]]
        BY <2>5, <3>1 DEF AckCount, EndProcess
      <4>2. ~Moving(p)' /\ \A q \in Proc \ {p} : reaper'[q] = reaper[q]
        BY <4>1 DEF Moving, AsleepReaper, TypeInv, ReaperOK
      <4> QED
        BY <2>5, <4>2, DropStep DEF AckCount
    <3>2. CASE ~worker[p].exiting
      BY <2>5, <3>2, StutterStep DEF AckCount, ReaperHolds, Moving, OperatorHolds
    <3> QED
      BY <3>1, <3>2
  <2>6. CASE Finish(p) \/ Raise(p) \/ AckBeat(p)
    BY <2>6, StutterStep DEF Finish, Raise, AckBeat, ReaperHolds, Moving, OperatorHolds
  <2> QED
    BY <1>2, <2>1, <2>2, <2>3, <2>4, <2>5, <2>6 DEF WorkerNext
<1>3. ASSUME NEW p \in Proc, ReaperNext(p)
      PROVE  [Abstract!Next]_(Abstract!queue)
  <2>1. CASE ReapRemove(p)
    BY <2>1, RemoveStep
  <2>2. CASE ReapReturn(p)
    BY <2>2, ReturnStep
  <2>3. CASE ReapBury(p)
    BY <2>3, BurialStep
  <2>4. CASE ReapBeat(p) \/ ReapCount(p)
    <3>1. /\ Moving(p) /\ Moving(p)' /\ reaper'[p].job = reaper[p].job
          /\ \A q \in Proc \ {p} : reaper'[q] = reaper[q]
      BY <2>4 DEF ReapBeat, ReapCount, ReaperStep, Moving, TypeInv, ReaperOK, ReaperState
    <3>2. \A q \in Proc, k \in Job : ReaperHolds(q, k)' <=> ReaperHolds(q, k)
      BY <3>1 DEF ReaperHolds, Moving
    <3> QED
      BY <2>4, <3>2, StutterStep DEF ReapBeat, ReapCount, OperatorHolds
  <2>5. CASE \/ SweepStart(p) \/ SweepEnd(p) \/ (\E j \in Job : SweepCheck(p, j))
             \/ ReapForget(p) \/ SweepFail(p)
    <3>1. /\ reaper'[p].pc \in {"scan", "sleep", "remove"}
          /\ \A q \in Proc \ {p} : reaper'[q] = reaper[q]
      <4>1. CASE SweepStart(p) \/ SweepEnd(p) \/ SweepFail(p)
        BY <4>1 DEF SweepStart, SweepEnd, SweepFail, AsleepReaper, TypeInv, ReaperOK
      <4>2. CASE ReapForget(p)
        BY <4>2 DEF ReapForget, TypeInv, ReaperOK, ReaperState
      <4>3. ASSUME NEW j \in Job, SweepCheck(p, j)
            PROVE  /\ reaper'[p].pc \in {"scan", "sleep", "remove"}
                   /\ \A q \in Proc \ {p} : reaper'[q] = reaper[q]
        BY <4>3 DEF SweepCheck, TypeInv, ReaperOK, ReaperState
      <4> QED
        BY <2>5, <4>1, <4>2, <4>3
    <3>2. UNCHANGED <<lists, operator>>
      BY <2>5 DEF SweepStart, SweepEnd, SweepCheck, ReapForget, SweepFail
    <3>3. ~Moving(p)'
      BY <3>1 DEF Moving
    <3> QED
      BY <3>1, <3>2, <3>3, DropStep
  <2> QED
    BY <1>3, <2>1, <2>2, <2>3, <2>4, <2>5 DEF ReaperNext
<1>4. ASSUME NEW p \in Proc, Crash(p) \/ Stop(p) \/ Restart(p)
      PROVE  [Abstract!Next]_(Abstract!queue)
  <2>1. ~Moving(p)' /\ \A q \in Proc \ {p} : reaper'[q] = reaper[q]
    BY <1>4 DEF Crash, Stop, Restart, EndProcess, AsleepReaper, Moving, TypeInv, ReaperOK
  <2>2. UNCHANGED <<lists, operator>>
    BY <1>4 DEF Crash, Stop, Restart
  <2> QED
    BY <2>1, <2>2, DropStep
<1>5. ASSUME NEW o \in Operator, OperatorNext(o)
      PROVE  [Abstract!Next]_(Abstract!queue)
  <2>1. ASSUME NEW j \in Job, ReplayRemove(o, j)
        PROVE  [Abstract!Next]_(Abstract!queue)
    BY <2>1, CollapseStep
  <2>2. CASE ReplayClear(o)
    <3>1. /\ operator[o].pc # "idle" /\ operator'[o].pc # "idle"
          /\ operator'[o].job = operator[o].job
          /\ \A x \in Operator \ {o} : operator'[x] = operator[x]
      BY <2>2 DEF ReplayClear, OperatorStep, TypeInv, OperatorOK, OperatorState
    <3>2. \A x \in Operator, k \in Job : OperatorHolds(x, k)' <=> OperatorHolds(x, k)
      BY <3>1 DEF OperatorHolds
    <3> QED
      BY <2>2, <3>2, StutterStep DEF ReplayClear, ReaperHolds, Moving
  <2>3. CASE ReplayPush(o) \/ ReplayCrash(o)
    BY <2>3, ReplayStep
  <2> QED
    BY <1>5, <2>1, <2>2, <2>3 DEF OperatorNext
<1>6. CASE UNCHANGED vars
  <2>1. UNCHANGED <<lists, reaper, operator>>
    BY <1>6 DEF vars
  <2> QED
    BY <2>1, StutterStep DEF ReaperHolds, Moving, OperatorHolds
<1> QED
  BY <1>1, <1>2, <1>3, <1>4, <1>5, <1>6 DEF Next

(***************************************************************************)
(* The Redis commands implement the abstract queue, whatever fails and     *)
(* however they interleave: a copy is enqueued, delivered, acked,          *)
(* redelivered, buried or replayed as a whole, and a dead one disappears   *)
(* only under a fault that can end a move.  (queue.py, all operations)     *)
(***************************************************************************)
THEOREM Implements == Spec => RefinesAtLeastOnce
<1>1. Init => TypeInv
  BY TypeInit
<1>2. TypeInv /\ [Next]_vars => TypeInv'
  BY TypeStep
<1>3. Init => Abstract!Init
  BY AbstractInit
<1>4. TypeInv /\ [Next]_vars => [Abstract!Next]_(Abstract!queue)
  BY ImplementsStep
<1> QED
  BY <1>1, <1>2, <1>3, <1>4, PTL DEF Spec, RefinesAtLeastOnce, Abstract!Spec
=============================================================================
