------------------------- MODULE StuckAlertsProofs -------------------------
(***************************************************************************)
(* Proofs about StuckAlerts, for any jobs, any finite set of processes and *)
(* any limits and interval.                                                *)
(***************************************************************************)
EXTENDS StuckAlerts, FiniteSetTheorems, TLAPS

-----------------------------------------------------------------------------
(* Types.                                                                  *)

(***************************************************************************)
(* The longer of the limits is a limit.                                    *)
(***************************************************************************)
LEMMA HorizonFacts ==
    ASSUME limits \in Settings
    PROVE  /\ limits.visibility \in Nat \ {0} /\ limits.threshold \in Nat \ {0}
           /\ Horizon \in Nat
           /\ limits.visibility <= Horizon /\ limits.threshold <= Horizon
<1>1. limits.visibility \in Nat \ {0} /\ limits.threshold \in Nat \ {0}
  BY SettingsAssumption DEF Limits
<1> QED
  BY <1>1 DEF Horizon

\* The variables of the queue, of the processes, and of the history.
QueueOK == /\ place \in [Job -> {"none", "pending", "processing", "dead"}]
           /\ stamped \subseteq Job
           /\ age \in [Job -> 0 .. Horizon]
           /\ deliveries \in [Job -> 0 .. MaxRedeliveries]
LoopsOK == /\ hand \in [Worker -> Job \cup {Free}]
           /\ fresh \subseteq Worker
TasksOK == /\ reaper \in [Worker -> {"sleep", "check", "page", "down"}]
           /\ timer \in [Worker -> 0 .. Interval + SweepTime]
           /\ stuck \in [Worker -> SUBSET Job]
           /\ seen \subseteq Worker
RestOK == /\ limits \in Settings
          /\ phase \in 0 .. Interval - 1
          /\ posts \in Nat
          /\ alerted \subseteq Job
          /\ timed \subseteq Job
          /\ crashed \in [Worker -> 0 .. MaxCrashes]

\* A claim that is about to be stamped has a job.
TypeInv == /\ QueueOK /\ LoopsOK /\ TasksOK /\ RestOK
           /\ \A w \in fresh : hand[w] \in Job

LEMMA TypeInvTypes == TypeInv => TypeOK
  BY DEF TypeInv, QueueOK, LoopsOK, TasksOK, RestOK, TypeOK

LEMMA TypeInit == Init => TypeInv
<1> SUFFICES ASSUME Init PROVE TypeInv
  OBVIOUS
<1>1. Horizon \in Nat
  BY HorizonFacts DEF Init
<1> QED
  BY <1>1, BoundAssumption DEF Init, TypeInv, QueueOK, LoopsOK, TasksOK, RestOK

(***************************************************************************)
(* A reaper goes back to sleep.                                            *)
(***************************************************************************)
LEMMA SleepType ==
    ASSUME TasksOK, NEW w \in Worker, BackToSleep(w), seen' \subseteq seen \cup {w}
    PROVE  TasksOK'
  BY BoundAssumption DEF TasksOK, BackToSleep

(***************************************************************************)
(* Expired jobs are moved to lists, with a counter within the limit.       *)
(***************************************************************************)
LEMMA MoveType ==
    ASSUME QueueOK, RestOK, NEW expired \in SUBSET Job, Move(expired), UNCHANGED limits
    PROVE  QueueOK' /\ timed' \subseteq Job /\ alerted' \subseteq Job
<1>1. Horizon' = Horizon /\ Horizon \in Nat
  BY HorizonFacts DEF Horizon, RestOK
<1>2. age' \in [Job -> 0 .. Horizon]
  BY <1>1 DEF Move, QueueOK
<1>3. deliveries' \in [Job -> 0 .. MaxRedeliveries]
  BY BoundAssumption DEF Move, QueueOK
<1>4. place' \in [Job -> {"none", "pending", "processing", "dead"}]
  BY DEF Move, QueueOK
<1>5. stamped' \subseteq Job /\ timed' \subseteq Job /\ alerted' \subseteq Job
  BY DEF Move, QueueOK, RestOK
<1> QED
  BY <1>1, <1>2, <1>3, <1>4, <1>5 DEF QueueOK

LEMMA TypeTick == TypeInv /\ Tick => TypeInv'
<1> SUFFICES ASSUME TypeInv, Tick PROVE TypeInv'
  OBVIOUS
<1> USE DEF TypeInv
<1>1. Horizon' = Horizon /\ Horizon \in Nat
  BY HorizonFacts DEF Tick, Horizon, RestOK
<1>2. age' \in [Job -> 0 .. Horizon]
  BY <1>1 DEF Tick, QueueOK
<1>3. timer' \in [Worker -> 0 .. Interval + SweepTime]
  BY BoundAssumption DEF Tick, TasksOK
<1>4. phase' \in 0 .. Interval - 1
  BY BoundAssumption DEF Tick, RestOK
<1>5. seen' \subseteq Worker /\ posts' \in Nat
  BY DEF Tick, TasksOK, RestOK
<1> QED
  BY <1>1, <1>2, <1>3, <1>4, <1>5 DEF Tick, QueueOK, LoopsOK, TasksOK, RestOK, loops

(***************************************************************************)
(* Every step of a process, and of time, keeps the types.                  *)
(***************************************************************************)
LEMMA TypeWorker ==
    ASSUME TypeInv, NEW w \in Worker,
           \/ ClaimMove(w) \/ ClaimStamp(w) \/ Finish(w)
           \/ Reap(w) \/ Check(w) \/ Page(w) \/ SweepFails(w)
           \/ Crash(w) \/ Restart(w)
    PROVE  TypeInv'
<1> USE DEF TypeInv
<1>0. UNCHANGED limits /\ Horizon' = Horizon /\ Horizon \in Nat
  <2>1. UNCHANGED limits
    BY DEF ClaimMove, ClaimStamp, Finish, Reap, Check, Page, SweepFails, Crash, Restart
  <2> QED
    BY <2>1, HorizonFacts DEF Horizon, RestOK
<1>1. CASE ClaimMove(w)
  <2>1. PICK j \in Job : /\ place' = [place EXCEPT ![j] = "processing"]
                         /\ hand' = [hand EXCEPT ![w] = j]
                         /\ timed' = timed \ {j}
    BY <1>1 DEF ClaimMove
  <2>2. /\ fresh' = fresh \cup {w}
        /\ UNCHANGED <<limits, stamped, age, deliveries, tasks, phase, posts,
                       alerted, crashed>>
    BY <1>1 DEF ClaimMove
  <2> QED
    BY <1>0, <2>1, <2>2 DEF QueueOK, LoopsOK, TasksOK, RestOK, tasks
<1>2. CASE ClaimStamp(w)
  BY <1>0, <1>2 DEF ClaimStamp, InFlight, QueueOK, LoopsOK, TasksOK, RestOK, tasks
<1>3. CASE Finish(w)
  <2>1. hand[w] \in Job
    BY <1>3 DEF Finish, LoopsOK
  <2>2. QueueOK'
    BY <1>0, <1>3, <2>1, BoundAssumption DEF Finish, QueueOK
  <2>3. LoopsOK' /\ \A v \in fresh' : hand'[v] \in Job
    BY <1>3 DEF Finish, LoopsOK
  <2> QED
    BY <1>0, <1>3, <2>2, <2>3 DEF Finish, TasksOK, RestOK, tasks
<1>4. CASE Reap(w)
  <2>1. QueueOK' /\ timed' \subseteq Job /\ alerted' \subseteq Job
    <3>1. {j \in InFlight : Expired(j)} \in SUBSET Job
      BY DEF InFlight
    <3> QED
      BY <1>0, <1>4, <3>1, MoveType DEF Reap
  <2>2. TasksOK'
    BY <1>4, BoundAssumption DEF Reap, TasksOK
  <2> QED
    BY <1>0, <1>4, <2>1, <2>2 DEF Reap, LoopsOK, RestOK, loops
<1>5. CASE Check(w)
  <2>1. TasksOK'
    <3>1. CASE {j \in InFlight : Stuck(j)} = {}
      BY <1>5, <3>1, SleepType DEF Check, TasksOK
    <3>2. CASE {j \in InFlight : Stuck(j)} # {}
      BY <1>5, <3>2 DEF Check, TasksOK, InFlight
    <3> QED
      BY <3>1, <3>2
  <2> QED
    BY <1>0, <1>5, <2>1 DEF Check, QueueOK, LoopsOK, RestOK, queue, loops, history
<1>6. CASE Page(w)
  <2>1. TasksOK'
    BY <1>6, SleepType DEF Page, TasksOK
  <2>2. posts' \in Nat /\ alerted' \subseteq Job
    BY <1>6 DEF Page, TasksOK, RestOK
  <2>3. crashed' \in [Worker -> 0 .. MaxCrashes]
    BY <1>6, BoundAssumption DEF Page, RestOK
  <2> QED
    BY <1>0, <1>6, <2>1, <2>2, <2>3 DEF Page, QueueOK, LoopsOK, RestOK, queue, loops
<1>7. CASE SweepFails(w)
  <2>1. TasksOK'
    BY <1>7, SleepType DEF SweepFails, TasksOK
  <2>2. crashed' \in [Worker -> 0 .. MaxCrashes]
    BY <1>7, BoundAssumption DEF SweepFails, RestOK
  <2> QED
    BY <1>0, <1>7, <2>1, <2>2 DEF SweepFails, QueueOK, LoopsOK, RestOK, queue, loops
<1>8. CASE Crash(w)
  <2>1. crashed' \in [Worker -> 0 .. MaxCrashes]
    BY <1>8, BoundAssumption DEF Crash, RestOK
  <2>2. TasksOK' /\ LoopsOK' /\ \A v \in fresh' : hand'[v] \in Job
    BY <1>8, BoundAssumption DEF Crash, TasksOK, LoopsOK
  <2> QED
    BY <1>0, <1>8, <2>1, <2>2 DEF Crash, QueueOK, RestOK, queue
<1>9. CASE Restart(w)
  <2>1. TasksOK'
    BY <1>9, SleepType DEF Restart, TasksOK
  <2> QED
    BY <1>0, <1>9, <2>1 DEF Restart, QueueOK, LoopsOK, RestOK, queue, loops, history
<1> QED
  BY <1>1, <1>2, <1>3, <1>4, <1>5, <1>6, <1>7, <1>8, <1>9

LEMMA TypeStep == TypeInv /\ [Next]_vars => TypeInv'
<1> SUFFICES ASSUME TypeInv, [Next]_vars PROVE TypeInv'
  OBVIOUS
<1>1. CASE Tick
  BY <1>1, TypeTick
<1>2. ASSUME NEW w \in Worker,
             \/ ClaimMove(w) \/ ClaimStamp(w) \/ Finish(w)
             \/ Reap(w) \/ Check(w) \/ Page(w) \/ SweepFails(w)
             \/ Crash(w) \/ Restart(w)
      PROVE  TypeInv'
  BY <1>2, TypeWorker
<1>3. CASE UNCHANGED vars
  BY <1>3 DEF vars, queue, loops, tasks, history, TypeInv, QueueOK, LoopsOK, TasksOK, RestOK,
              Horizon
<1> QED
  BY <1>1, <1>2, <1>3 DEF Next

(***************************************************************************)
(* The queue, the processes and their history keep their types, for any    *)
(* limits, interval and number of crashes.                                 *)
(***************************************************************************)
THEOREM TypeCorrect == Spec => []TypeOK
<1> QED
  BY TypeInit, TypeStep, TypeInvTypes, PTL DEF Spec

-----------------------------------------------------------------------------
(* Pages under one key.                                                    *)

(***************************************************************************)
(* The processes that may still page before the key changes: those in a    *)
(* sweep, and those that wake before the interval is over.                 *)
(***************************************************************************)
MayPage == {w \in Worker : \/ reaper[w] \in {"check", "page"}
                           \/ reaper[w] = "sleep" /\ timer[w] + phase < Interval}

(***************************************************************************)
(* What makes PagesBounded inductive: every page was posted by a process   *)
(* that will not sweep again under the same key, as it sleeps for a whole  *)
(* interval after its sweep, and also when it is started again.  The       *)
(* memory of the key therefore never has a page to skip.                   *)
(***************************************************************************)
PageInv == /\ posts + Cardinality(MayPage) <= Cardinality(Worker)
           /\ seen \cap MayPage = {}

LEMMA MayPageFinite ==
    /\ IsFiniteSet(MayPage) /\ Cardinality(MayPage) \in Nat
    /\ Cardinality(MayPage) <= Cardinality(Worker) /\ Cardinality(Worker) \in Nat
<1>1. MayPage \in SUBSET Worker
  BY DEF MayPage
<1>2. IsFiniteSet(MayPage) /\ Cardinality(MayPage) <= Cardinality(Worker)
  BY <1>1, WorkerAssumption, FS_Subset
<1> QED
  BY <1>2, WorkerAssumption, FS_CardinalityType

(***************************************************************************)
(* Nobody new may page, and nothing is posted.                             *)
(***************************************************************************)
LEMMA NobodyNew ==
    ASSUME TypeInv, PageInv, posts' = posts, seen' \subseteq seen, MayPage' \subseteq MayPage
    PROVE  PageInv'
<1>1. IsFiniteSet(MayPage) /\ Cardinality(MayPage) \in Nat /\ Cardinality(Worker) \in Nat
  BY MayPageFinite
<1>2. IsFiniteSet(MayPage') /\ Cardinality(MayPage') <= Cardinality(MayPage)
  BY <1>1, FS_Subset
<1>3. Cardinality(MayPage') \in Nat
  BY <1>2, FS_CardinalityType
<1>4. posts \in Nat
  BY DEF TypeInv, RestOK
<1> QED
  BY <1>1, <1>2, <1>3, <1>4 DEF PageInv

(***************************************************************************)
(* A process whose sweep is over, or that is started, will not wake before *)
(* the key changes; the others are as they were.                           *)
(***************************************************************************)
LEMMA SleepsOn ==
    ASSUME TypeInv, NEW w \in Worker, BackToSleep(w), phase' = phase
    PROVE  MayPage' = MayPage \ {w}
<1>1. /\ reaper'[w] = "sleep" /\ timer'[w] = Interval
      /\ \A v \in Worker \ {w} : reaper'[v] = reaper[v] /\ timer'[v] = timer[v]
  BY DEF BackToSleep, TypeInv, TasksOK
<1>2. ~(Interval + phase < Interval)
  BY BoundAssumption DEF TypeInv, RestOK
<1> QED
  BY <1>1, <1>2 DEF MayPage

(***************************************************************************)
(* A page moves a process from those that may page to those that did.      *)
(***************************************************************************)
LEMMA PageStep ==
    ASSUME TypeInv, PageInv, [Next]_vars
    PROVE  PageInv'
<1>1. CASE Tick
  <2>1. CASE phase' = 0
    <3>1. posts' = 0 /\ seen' = {}
      BY <1>1, <2>1 DEF Tick
    <3>2. Cardinality(MayPage)' \in Nat /\ Cardinality(MayPage)' <= Cardinality(Worker)
      <4>1. MayPage' \in SUBSET Worker
        BY DEF MayPage
      <4>2. IsFiniteSet(MayPage') /\ Cardinality(MayPage') <= Cardinality(Worker)
        BY <4>1, WorkerAssumption, FS_Subset
      <4> QED
        BY <4>2, FS_CardinalityType
    <3> QED
      BY <3>1, <3>2, MayPageFinite DEF PageInv
  <2>2. CASE phase' # 0
    <3>1. posts' = posts /\ seen' = seen /\ phase' = phase + 1 /\ reaper' = reaper
      BY <1>1, <2>2, BoundAssumption DEF Tick, TypeInv, RestOK
    <3>2. ASSUME NEW w \in MayPage' PROVE w \in MayPage
      <4>1. w \in Worker /\ reaper[w] # "down" /\ timer[w] > 0
        BY <1>1, <3>1, <3>2 DEF Tick, MayPage
      <4>2. CASE reaper[w] \in {"check", "page"}
        BY <4>1, <4>2 DEF MayPage
      <4>3. CASE reaper[w] = "sleep"
        <5>1. timer'[w] = timer[w] - 1 /\ timer'[w] + phase' < Interval
          BY <1>1, <3>1, <3>2, <4>1, <4>3 DEF Tick, MayPage
        <5>2. timer[w] \in Nat /\ phase \in Nat /\ Interval \in Nat
          BY <4>1, BoundAssumption DEF TypeInv, TasksOK, RestOK
        <5>3. timer[w] + phase < Interval
          BY <3>1, <5>1, <5>2
        <5> QED
          BY <4>1, <4>3, <5>3 DEF MayPage
      <4> QED
        BY <3>1, <3>2, <4>2, <4>3 DEF MayPage
    <3> QED
      BY <3>1, <3>2, NobodyNew
  <2> QED
    BY <2>1, <2>2
<1>2. ASSUME NEW w \in Worker, ClaimMove(w) \/ ClaimStamp(w) \/ Finish(w)
      PROVE  PageInv'
  <2>1. posts' = posts /\ seen' = seen /\ MayPage' = MayPage
    BY <1>2 DEF ClaimMove, ClaimStamp, Finish, tasks, MayPage
  <2> QED
    BY <2>1, NobodyNew
<1>3. ASSUME NEW w \in Worker, Reap(w)
      PROVE  PageInv'
  <2>1. timer[w] + phase < Interval /\ reaper[w] = "sleep"
    BY <1>3, BoundAssumption DEF Reap, Awake, TypeInv, RestOK
  <2>2. /\ posts' = posts /\ seen' = seen /\ phase' = phase
        /\ \A v \in Worker \ {w} : reaper'[v] = reaper[v] /\ timer'[v] = timer[v]
    BY <1>3 DEF Reap, TypeInv, TasksOK
  <2>3. MayPage' \subseteq MayPage
    BY <2>1, <2>2 DEF MayPage
  <2> QED
    BY <2>2, <2>3, NobodyNew
<1>4. ASSUME NEW w \in Worker, Check(w)
      PROVE  PageInv'
  <2>1. posts' = posts /\ seen' = seen /\ phase' = phase
    BY <1>4 DEF Check, history
  <2>2. CASE BackToSleep(w)
    BY <2>1, <2>2, SleepsOn, NobodyNew
  <2>3. CASE ~BackToSleep(w)
    <3>1. /\ reaper[w] = "check" /\ timer' = timer
          /\ \A v \in Worker \ {w} : reaper'[v] = reaper[v]
      BY <1>4, <2>3 DEF Check, TypeInv, TasksOK
    <3>2. MayPage' \subseteq MayPage
      BY <2>1, <3>1 DEF MayPage
    <3> QED
      BY <2>1, <3>2, NobodyNew
  <2> QED
    BY <2>2, <2>3
<1>5. ASSUME NEW w \in Worker, Page(w)
      PROVE  PageInv'
  <2>1. w \in MayPage /\ MayPage' = MayPage \ {w}
    BY <1>5, SleepsOn DEF Page, MayPage
  <2>2. posts' <= posts + 1 /\ posts' \in Nat /\ posts \in Nat
    BY <1>5 DEF Page, TypeInv, RestOK
  <2>3. Cardinality(MayPage') = Cardinality(MayPage) - 1
    BY <2>1, MayPageFinite, FS_RemoveElement
  <2>4. seen' \cap MayPage' = {}
    BY <1>5, <2>1 DEF Page, PageInv
  <2> QED
    BY <2>2, <2>3, <2>4, MayPageFinite DEF PageInv
<1>6. ASSUME NEW w \in Worker, SweepFails(w) \/ Restart(w)
      PROVE  PageInv'
  <2>1. posts' = posts /\ seen' = seen /\ MayPage' = MayPage \ {w}
    BY <1>6, SleepsOn DEF SweepFails, Restart, history
  <2> QED
    BY <2>1, NobodyNew
<1>7. ASSUME NEW w \in Worker, Crash(w)
      PROVE  PageInv'
  <2>1. /\ posts' = posts /\ seen' \subseteq seen
        /\ phase' = phase /\ reaper'[w] = "down"
        /\ \A v \in Worker \ {w} : reaper'[v] = reaper[v] /\ timer'[v] = timer[v]
    BY <1>7 DEF Crash, TypeInv, TasksOK
  <2>2. MayPage' \subseteq MayPage
    BY <2>1 DEF MayPage
  <2> QED
    BY <2>1, <2>2, NobodyNew
<1>8. CASE UNCHANGED vars
  <2>1. posts' = posts /\ seen' = seen /\ MayPage' = MayPage
    BY <1>8 DEF vars, tasks, history, MayPage
  <2> QED
    BY <2>1, NobodyNew
<1> QED
  BY <1>1, <1>2, <1>3, <1>4, <1>5, <1>6, <1>7, <1>8 DEF Next

LEMMA PageInit == Init => PageInv
<1> SUFFICES ASSUME Init PROVE PageInv
  OBVIOUS
<1>1. posts = 0 /\ seen = {}
  BY DEF Init
<1> QED
  BY <1>1, MayPageFinite DEF PageInv

(***************************************************************************)
(* However many processes there are, crash and are started again, Slack    *)
(* takes at most one page of each under one key.                           *)
(***************************************************************************)
THEOREM PagesLimited == Spec => []PagesBounded
<1>1. TypeInv /\ PageInv => PagesBounded
  BY MayPageFinite DEF TypeInv, RestOK, PageInv, PagesBounded
<1> QED
  BY <1>1, TypeInit, TypeStep, PageInit, PageStep, PTL DEF Spec

-----------------------------------------------------------------------------
(* What a sweep may say of a claim that has written its time.              *)

\* Such a claim is in flight and has a time.
TimedOK == \A j \in timed : place[j] = "processing" /\ j \in stamped

\* A sleep is no longer than the interval, and a sweep than its bound.
TimerOK ==
    \A w \in Worker : timer[w] <= IF reaper[w] = "sleep" THEN Interval ELSE SweepTime

(***************************************************************************)
(* What makes SilentWhenReapedFirst provable: after the first half of a    *)
(* sweep every claim with a time was younger than the visibility timeout,  *)
(* and it grows older by no more than the rest of the sweep takes.         *)
(***************************************************************************)
ReapedInv ==
    \A w \in Worker : reaper[w] = "check" =>
        \A j \in timed : age[j] + timer[w] < limits.visibility + SweepTime

(***************************************************************************)
(* What makes AlertedBeforeReaped provable: an undisturbed reaper wakes    *)
(* before an unannounced claim is older than the threshold by more than an *)
(* interval and a sweep, its sweep ends one sweep later, and a sweep that  *)
(* pages counts every claim that was beyond the threshold in its second    *)
(* half.                                                                   *)
(***************************************************************************)
Wakes == limits.threshold + Interval + SweepTime
Ends == limits.threshold + Interval + 2 * SweepTime
AlertInv ==
    \A w \in Worker : crashed[w] = 0 =>
        /\ reaper[w] # "down"
        /\ \A j \in timed \ alerted :
              /\ reaper[w] = "sleep" => age[j] + timer[w] < Wakes
              /\ reaper[w] = "check" => age[j] + timer[w] < Ends
              /\ reaper[w] = "page" =>
                    \/ age[j] + timer[w] < limits.threshold + SweepTime
                    \/ j \in stuck[w] /\ age[j] + timer[w] < Ends

SweepInv == TypeInv /\ PageInv /\ TimerOK /\ TimedOK /\ ReapedInv /\ AlertInv

(***************************************************************************)
(* The numbers the steps calculate with.                                   *)
(***************************************************************************)
LEMMA Numbers ==
    ASSUME TypeInv
    PROVE  /\ limits.visibility \in Nat /\ limits.visibility > 0
           /\ limits.threshold \in Nat /\ limits.threshold > 0
           /\ Interval \in Nat /\ Interval > 0 /\ SweepTime \in Nat
           /\ \A j \in Job : age[j] \in Nat
           /\ \A w \in Worker : timer[w] \in Nat
           /\ timed \subseteq Job
<1>1. Horizon \in Nat
  BY HorizonFacts DEF TypeInv, RestOK
<1> QED
  BY <1>1, HorizonFacts, BoundAssumption DEF TypeInv, QueueOK, TasksOK, RestOK

(***************************************************************************)
(* Every step keeps the timers within their bounds.                        *)
(***************************************************************************)
LEMMA TimerStep ==
    ASSUME TypeInv, TimerOK, [Next]_vars
    PROVE  TimerOK'
<1> USE Numbers
<1>1. CASE Tick
  BY <1>1 DEF Tick, TimerOK
<1>2. ASSUME NEW w \in Worker, ClaimMove(w) \/ ClaimStamp(w) \/ Finish(w)
      PROVE  TimerOK'
  BY <1>2 DEF ClaimMove, ClaimStamp, Finish, tasks, TimerOK
<1>3. ASSUME NEW w \in Worker, BackToSleep(w)
      PROVE  TimerOK'
  <2>1. /\ reaper'[w] = "sleep" /\ timer'[w] = Interval
        /\ \A v \in Worker \ {w} : reaper'[v] = reaper[v] /\ timer'[v] = timer[v]
    BY <1>3 DEF BackToSleep, TypeInv, TasksOK
  <2> QED
    BY <2>1 DEF TimerOK
<1>4. ASSUME NEW w \in Worker, Reap(w)
      PROVE  TimerOK'
  <2>1. /\ reaper'[w] = "check" /\ timer'[w] = SweepTime
        /\ \A v \in Worker \ {w} : reaper'[v] = reaper[v] /\ timer'[v] = timer[v]
    BY <1>4 DEF Reap, TypeInv, TasksOK
  <2> QED
    BY <2>1 DEF TimerOK
<1>5. ASSUME NEW w \in Worker, Check(w), ~BackToSleep(w)
      PROVE  TimerOK'
  <2>1. /\ reaper[w] = "check" /\ reaper'[w] = "page" /\ timer' = timer
        /\ \A v \in Worker \ {w} : reaper'[v] = reaper[v]
    BY <1>5 DEF Check, TypeInv, TasksOK
  <2> QED
    BY <2>1 DEF TimerOK
<1>6. ASSUME NEW w \in Worker, Crash(w)
      PROVE  TimerOK'
  <2>1. /\ reaper'[w] = "down" /\ timer'[w] = 0
        /\ \A v \in Worker \ {w} : reaper'[v] = reaper[v] /\ timer'[v] = timer[v]
    BY <1>6 DEF Crash, TypeInv, TasksOK
  <2> QED
    BY <2>1 DEF TimerOK
<1>7. CASE UNCHANGED vars
  BY <1>7 DEF vars, tasks, TimerOK
<1> QED
  BY <1>1, <1>2, <1>3, <1>4, <1>5, <1>6, <1>7 DEF Next, Page, SweepFails, Restart

(***************************************************************************)
(* Claims that stay as they were, under processes that stay as they were.  *)
(***************************************************************************)
LEMMA ClaimsKept ==
    ASSUME SweepInv, UNCHANGED <<limits, tasks, crashed>>,
           \A j \in timed' : \/ j \in timed /\ place'[j] = place[j] /\ age'[j] = age[j]
                             \/ place'[j] = "processing" /\ age'[j] = 0,
           timed' \subseteq stamped', timed' \subseteq Job,
           \A j \in timed' \ alerted' : j \in timed => j \notin alerted
    PROVE  TimedOK' /\ ReapedInv' /\ AlertInv'
<1> USE Numbers DEF SweepInv
<1>1. TimedOK'
  BY DEF TimedOK
<1>2. ReapedInv'
  BY DEF ReapedInv, TimerOK, tasks
<1>3. AlertInv'
  <2> SUFFICES ASSUME NEW w \in Worker, crashed[w] = 0, NEW j \in timed' \ alerted'
               PROVE  /\ reaper[w] = "sleep" => age'[j] + timer[w] < Wakes
                      /\ reaper[w] = "check" => age'[j] + timer[w] < Ends
                      /\ reaper[w] = "page" =>
                            \/ age'[j] + timer[w] < limits.threshold + SweepTime
                            \/ j \in stuck[w] /\ age'[j] + timer[w] < Ends
    BY DEF AlertInv, tasks, Wakes, Ends
  <2>1. CASE j \in timed /\ age'[j] = age[j]
    BY <2>1 DEF AlertInv
  <2>2. CASE age'[j] = 0
    <3>1. timer[w] <= IF reaper[w] = "sleep" THEN Interval ELSE SweepTime
      BY DEF TimerOK
    <3> QED
      BY <2>2, <3>1 DEF Wakes, Ends
  <2> QED
    BY <2>1, <2>2
<1> QED
  BY <1>1, <1>2, <1>3

(***************************************************************************)
(* A process that goes back to sleep with nothing left to page about.      *)
(***************************************************************************)
LEMMA SleepKeeps ==
    ASSUME SweepInv, NEW w \in Worker, BackToSleep(w), UNCHANGED <<limits, queue, timed>>,
           alerted \subseteq alerted',
           \A v \in Worker \ {w} : crashed'[v] = crashed[v],
           crashed'[w] = 0 =>
               \A j \in timed \ alerted' : age[j] < limits.threshold + SweepTime
    PROVE  TimedOK' /\ ReapedInv' /\ AlertInv'
<1> USE Numbers DEF SweepInv
<1>1. TimedOK'
  BY DEF TimedOK, queue
<1>2. /\ reaper'[w] = "sleep" /\ timer'[w] = Interval
      /\ \A v \in Worker \ {w} : /\ reaper'[v] = reaper[v] /\ timer'[v] = timer[v]
                                 /\ stuck'[v] = stuck[v]
  BY DEF BackToSleep, TypeInv, TasksOK
<1>3. ReapedInv'
  BY <1>2 DEF ReapedInv, queue
<1>4. AlertInv'
  BY <1>2 DEF AlertInv, Wakes, Ends, queue
<1> QED
  BY <1>1, <1>3, <1>4

(***************************************************************************)
(* Every step keeps the three of them.                                     *)
(***************************************************************************)
LEMMA SweepStep ==
    ASSUME SweepInv, [Next]_vars
    PROVE  TimedOK' /\ ReapedInv' /\ AlertInv'
<1> USE Numbers DEF SweepInv
<1>1. CASE Tick
  <2>1. \A w \in Worker : reaper[w] = "down" \/ timer'[w] + 1 = timer[w]
    BY <1>1 DEF Tick
  <2>2. UNCHANGED <<limits, place, stamped, reaper, stuck, alerted, timed, crashed>>
    BY <1>1 DEF Tick
  <2>3. TimedOK'
    BY <2>2 DEF TimedOK
  <2>4. \A j \in Job : age'[j] = age[j] + 1 \/ age'[j] = age[j]
    BY <1>1 DEF Tick
  <2>5. \A w \in Worker : timer'[w] \in Nat
    BY <1>1 DEF Tick
  <2>6. ASSUME NEW w \in Worker, NEW j \in timed, reaper[w] # "down"
        PROVE  age'[j] + timer'[w] <= age[j] + timer[w] /\ age'[j] + timer'[w] \in Nat
    BY <2>1, <2>4, <2>5, <2>6
  <2>7. ReapedInv'
    <3> SUFFICES ASSUME NEW w \in Worker, reaper[w] = "check", NEW j \in timed
                 PROVE  age'[j] + timer'[w] < limits.visibility + SweepTime
      BY <2>2 DEF ReapedInv
    <3>1. age[j] + timer[w] < limits.visibility + SweepTime
      BY DEF ReapedInv
    <3> QED
      BY <2>6, <3>1
  <2>8. AlertInv'
    <3> SUFFICES ASSUME NEW w \in Worker, crashed[w] = 0
                 PROVE  /\ reaper[w] # "down"
                        /\ \A j \in timed \ alerted :
                              /\ reaper[w] = "sleep" => age'[j] + timer'[w] < Wakes
                              /\ reaper[w] = "check" => age'[j] + timer'[w] < Ends
                              /\ reaper[w] = "page" =>
                                    \/ age'[j] + timer'[w] < limits.threshold + SweepTime
                                    \/ j \in stuck[w] /\ age'[j] + timer'[w] < Ends
      BY <2>2 DEF AlertInv, Wakes, Ends
    <3>1. reaper[w] # "down"
      BY DEF AlertInv
    <3>2. ASSUME NEW j \in timed \ alerted
          PROVE  /\ reaper[w] = "sleep" => age'[j] + timer'[w] < Wakes
                 /\ reaper[w] = "check" => age'[j] + timer'[w] < Ends
                 /\ reaper[w] = "page" =>
                       \/ age'[j] + timer'[w] < limits.threshold + SweepTime
                       \/ j \in stuck[w] /\ age'[j] + timer'[w] < Ends
      <4>1. age'[j] + timer'[w] <= age[j] + timer[w] /\ age'[j] + timer'[w] \in Nat
        BY <2>6, <3>1
      <4>2. j \in Job
        OBVIOUS
      <4> QED
        BY <4>1, <4>2 DEF AlertInv, Wakes, Ends
    <3> QED
      BY <3>1, <3>2
  <2> QED
    BY <2>3, <2>7, <2>8
<1>2. ASSUME NEW w \in Worker, ClaimMove(w)
      PROVE  TimedOK' /\ ReapedInv' /\ AlertInv'
  <2>1. PICK k \in Job : /\ place[k] = "pending"
                         /\ place' = [place EXCEPT ![k] = "processing"]
                         /\ timed' = timed \ {k}
    BY <1>2 DEF ClaimMove
  <2>2. UNCHANGED <<limits, stamped, age, tasks, alerted, crashed>>
    BY <1>2 DEF ClaimMove
  <2>3. \A j \in timed' : \/ j \in timed /\ place'[j] = place[j] /\ age'[j] = age[j]
                          \/ place'[j] = "processing" /\ age'[j] = 0
    BY <2>1, <2>2 DEF TypeInv, QueueOK
  <2>4. timed' \subseteq stamped' /\ timed' \subseteq Job
    BY <2>1, <2>2 DEF TimedOK
  <2>5. \A j \in timed' \ alerted' : j \in timed => j \notin alerted
    BY <2>2
  <2> QED
    BY <2>2, <2>3, <2>4, <2>5, ClaimsKept
<1>3. ASSUME NEW w \in Worker, ClaimStamp(w)
      PROVE  TimedOK' /\ ReapedInv' /\ AlertInv'
  <2>1. UNCHANGED <<limits, place, tasks, alerted, crashed>>
    BY <1>3 DEF ClaimStamp
  <2>2. hand[w] \in Job
    BY <1>3 DEF ClaimStamp, TypeInv
  <2>3. /\ stamped' = stamped \cup {hand[w]} /\ age' = [age EXCEPT ![hand[w]] = 0]
        /\ timed' = timed \cup ({hand[w]} \cap InFlight)
    BY <1>3 DEF ClaimStamp
  <2>4. \A j \in timed' : \/ j \in timed /\ place'[j] = place[j] /\ age'[j] = age[j]
                          \/ place'[j] = "processing" /\ age'[j] = 0
    <3> SUFFICES ASSUME NEW j \in timed'
                 PROVE  \/ j \in timed /\ place'[j] = place[j] /\ age'[j] = age[j]
                        \/ place'[j] = "processing" /\ age'[j] = 0
      OBVIOUS
    <3>1. CASE j = hand[w]
      BY <2>1, <2>2, <2>3, <3>1 DEF InFlight, TypeInv, QueueOK, TimedOK
    <3>2. CASE j # hand[w]
      BY <2>1, <2>2, <2>3, <3>2 DEF TypeInv, QueueOK
    <3> QED
      BY <3>1, <3>2
  <2>5. timed' \subseteq stamped' /\ timed' \subseteq Job
    BY <2>2, <2>3 DEF TimedOK
  <2>6. \A j \in timed' \ alerted' : j \in timed => j \notin alerted
    BY <2>1
  <2> QED
    BY <2>1, <2>4, <2>5, <2>6, ClaimsKept
<1>4. ASSUME NEW w \in Worker, Finish(w)
      PROVE  TimedOK' /\ ReapedInv' /\ AlertInv'
  <2>1. UNCHANGED <<limits, tasks, crashed>>
    BY <1>4 DEF Finish
  <2>2. /\ stamped' = stamped \ {hand[w]} /\ age' = [age EXCEPT ![hand[w]] = 0]
        /\ timed' = timed \ {hand[w]} /\ alerted' = alerted \ {hand[w]}
        /\ \A j \in Job \ {hand[w]} : place'[j] = place[j]
    BY <1>4 DEF Finish, TypeInv, QueueOK
  <2>3. \A j \in timed' : \/ j \in timed /\ place'[j] = place[j] /\ age'[j] = age[j]
                          \/ place'[j] = "processing" /\ age'[j] = 0
    BY <2>2 DEF TypeInv, QueueOK
  <2>4. timed' \subseteq stamped' /\ timed' \subseteq Job
    BY <2>2 DEF TimedOK
  <2>5. \A j \in timed' \ alerted' : j \in timed => j \notin alerted
    BY <2>2
  <2> QED
    BY <2>1, <2>3, <2>4, <2>5, ClaimsKept
<1>5. ASSUME NEW w \in Worker, Reap(w)
      PROVE  TimedOK' /\ ReapedInv' /\ AlertInv'
  <2> DEFINE expired == {j \in InFlight : Expired(j)}
  <2>1. UNCHANGED <<limits, stuck, crashed>>
    BY <1>5 DEF Reap
  <2>2. /\ reaper[w] = "sleep" /\ timer[w] = 0
        /\ reaper'[w] = "check" /\ timer'[w] = SweepTime
        /\ \A v \in Worker \ {w} : reaper'[v] = reaper[v] /\ timer'[v] = timer[v]
    BY <1>5 DEF Reap, Awake, TypeInv, TasksOK
  <2>3. /\ timed' = timed \ expired /\ alerted' = alerted \ expired
        /\ stamped' = stamped \ expired
        /\ \A j \in Job \ expired : place'[j] = place[j] /\ age'[j] = age[j]
    BY <1>5 DEF Reap, Move
  <2>4. \A j \in timed' : /\ j \in timed /\ j \in Job \ expired
                          /\ age[j] < limits.visibility
    BY <2>3 DEF TimedOK, InFlight, Expired
  <2>5. TimedOK'
    BY <2>3, <2>4 DEF TimedOK
  <2>6. ReapedInv'
    BY <2>1, <2>2, <2>3, <2>4 DEF ReapedInv
  <2>7. \A j \in timed' \ alerted' : j \in timed \ alerted
    BY <2>3
  <2> HIDE DEF expired
  <2>8. \A j \in timed' : age'[j] = age[j]
    BY <2>3, <2>4
  <2>9. AlertInv'
    BY <2>1, <2>2, <2>4, <2>7, <2>8 DEF AlertInv, Wakes, Ends
  <2> QED
    BY <2>5, <2>6, <2>9
<1>6. ASSUME NEW w \in Worker, Check(w)
      PROVE  TimedOK' /\ ReapedInv' /\ AlertInv'
  <2> DEFINE found == {j \in InFlight : Stuck(j)}
  <2>1. UNCHANGED <<limits, queue, timed, alerted, crashed>>
    BY <1>6 DEF Check, history
  <2>2. \A j \in timed : j \notin found => age[j] < limits.threshold
    BY DEF TimedOK, InFlight, Stuck
  <2>3. CASE found = {}
    <3>1. BackToSleep(w)
      BY <1>6, <2>3 DEF Check
    <3>2. \A j \in timed \ alerted' : age[j] < limits.threshold + SweepTime
      BY <2>2, <2>3
    <3> QED
      BY <2>1, <3>1, <3>2, SleepKeeps
  <2>4. CASE found # {}
    <3>1. /\ reaper[w] = "check" /\ reaper'[w] = "page" /\ stuck'[w] = found
          /\ timer' = timer
          /\ \A v \in Worker \ {w} : reaper'[v] = reaper[v] /\ stuck'[v] = stuck[v]
      BY <1>6, <2>4 DEF Check, TypeInv, TasksOK
    <3>2. TimedOK'
      BY <2>1 DEF TimedOK, queue
    <3>3. ReapedInv'
      BY <2>1, <3>1 DEF ReapedInv, queue
    <3>4. AlertInv'
      BY <2>1, <2>2, <3>1 DEF AlertInv, TimerOK, Wakes, Ends, queue
    <3> QED
      BY <3>2, <3>3, <3>4
  <2> QED
    BY <2>3, <2>4
<1>7. ASSUME NEW w \in Worker, Page(w)
      PROVE  TimedOK' /\ ReapedInv' /\ AlertInv'
  <2>1. /\ BackToSleep(w) /\ UNCHANGED <<limits, queue, timed>>
        /\ reaper[w] = "page" /\ w \notin seen
    BY <1>7 DEF Page, PageInv, MayPage
  <2>2. CASE alerted' = alerted \cup (stuck[w] \cap InFlight) /\ UNCHANGED crashed
    <3>1. crashed'[w] = 0 =>
              \A j \in timed \ alerted' : age[j] < limits.threshold + SweepTime
      BY <2>1, <2>2 DEF AlertInv, TimedOK, InFlight
    <3> QED
      BY <2>1, <2>2, <3>1, SleepKeeps
  <2>3. CASE crashed' = [crashed EXCEPT ![w] = @ + 1] /\ UNCHANGED alerted
    <3>1. crashed'[w] # 0 /\ \A v \in Worker \ {w} : crashed'[v] = crashed[v]
      BY <2>3, BoundAssumption DEF TypeInv, RestOK
    <3> QED
      BY <2>1, <2>3, <3>1, SleepKeeps
  <2> QED
    BY <1>7, <2>1, <2>2, <2>3 DEF Page
<1>8. ASSUME NEW w \in Worker, SweepFails(w)
      PROVE  TimedOK' /\ ReapedInv' /\ AlertInv'
  <2>1. /\ BackToSleep(w) /\ UNCHANGED <<limits, queue, timed, alerted>>
        /\ crashed' = [crashed EXCEPT ![w] = @ + 1]
    BY <1>8 DEF SweepFails
  <2>2. crashed'[w] # 0 /\ \A v \in Worker \ {w} : crashed'[v] = crashed[v]
    BY <2>1, BoundAssumption DEF TypeInv, RestOK
  <2> QED
    BY <2>1, <2>2, SleepKeeps
<1>9. ASSUME NEW w \in Worker, Crash(w)
      PROVE  TimedOK' /\ ReapedInv' /\ AlertInv'
  <2>1. UNCHANGED <<limits, queue, timed, alerted>>
    BY <1>9 DEF Crash
  <2>2. /\ reaper'[w] = "down" /\ crashed'[w] # 0
        /\ \A v \in Worker \ {w} : /\ reaper'[v] = reaper[v] /\ timer'[v] = timer[v]
                                   /\ stuck'[v] = stuck[v] /\ crashed'[v] = crashed[v]
    BY <1>9, BoundAssumption DEF Crash, TypeInv, TasksOK, RestOK
  <2>3. TimedOK'
    BY <2>1 DEF TimedOK, queue
  <2>4. ReapedInv'
    BY <2>1, <2>2 DEF ReapedInv, queue
  <2>5. AlertInv'
    BY <2>1, <2>2 DEF AlertInv, Wakes, Ends, queue
  <2> QED
    BY <2>3, <2>4, <2>5
<1>10. ASSUME NEW w \in Worker, Restart(w)
       PROVE  TimedOK' /\ ReapedInv' /\ AlertInv'
  <2>1. BackToSleep(w) /\ UNCHANGED <<limits, queue, timed, alerted, crashed>>
    BY <1>10 DEF Restart, history
  <2>2. crashed'[w] # 0
    BY <1>10, <2>1 DEF Restart, AlertInv
  <2> QED
    BY <2>1, <2>2, SleepKeeps
<1>11. CASE UNCHANGED vars
  BY <1>11 DEF vars, queue, tasks, history, TimedOK, ReapedInv, AlertInv, Wakes, Ends
<1> QED
  BY <1>1, <1>2, <1>3, <1>4, <1>5, <1>6, <1>7, <1>8, <1>9, <1>10, <1>11 DEF Next

(***************************************************************************)
(* All of it together is inductive.                                        *)
(***************************************************************************)
LEMMA SweepInvariant == Spec => []SweepInv
<1>1. Init => SweepInv
  <2> SUFFICES ASSUME Init PROVE SweepInv
    OBVIOUS
  <2>1. TypeInv /\ PageInv
    BY TypeInit, PageInit
  <2>2. TimerOK
    BY BoundAssumption DEF Init, TimerOK
  <2> QED
    BY <2>1, <2>2 DEF Init, SweepInv, TimedOK, ReapedInv, AlertInv
<1>2. SweepInv /\ [Next]_vars => SweepInv'
  <2> SUFFICES ASSUME SweepInv, [Next]_vars PROVE SweepInv'
    OBVIOUS
  <2>1. TypeInv' /\ PageInv' /\ TimerOK'
    BY TypeStep, PageStep, TimerStep DEF SweepInv
  <2> QED
    BY <2>1, SweepStep DEF SweepInv
<1> QED
  BY <1>1, <1>2, PTL DEF Spec

(***************************************************************************)
(* Only a sweep redelivers, and only claims beyond the visibility timeout. *)
(***************************************************************************)
LEMMA RedeliveredOld ==
    ASSUME TypeInv, TimedOK, [Next]_vars, NEW j \in timed, Redelivered(j)
    PROVE  age[j] >= limits.visibility
<1> USE Numbers
<1>1. j \in Job /\ place[j] = "processing" /\ j \in stamped
  BY DEF TimedOK
<1>2. PICK w \in Worker : Reap(w)
  <2>1. ASSUME NEW w \in Worker, ClaimMove(w)
        PROVE  FALSE
    BY <1>1, <2>1 DEF ClaimMove, Redelivered, TypeInv, QueueOK
  <2>2. ASSUME NEW w \in Worker, Finish(w)
        PROVE  FALSE
    BY <1>1, <2>2 DEF Finish, Redelivered, TypeInv, QueueOK
  <2>3. place'[j] # place[j]
    BY DEF Redelivered
  <2> QED
    BY <2>1, <2>2, <2>3 DEF Next, Tick, ClaimStamp, Check, Page, SweepFails, Crash, Restart,
                            vars, queue
<1>3. j \in InFlight /\ Expired(j)
  BY <1>1, <1>2 DEF Reap, Move, Redelivered
<1> QED
  BY <1>1, <1>3 DEF Expired

(***************************************************************************)
(* Where the settings leave room for an interval and two sweeps, a page    *)
(* Slack took counts a slow job before it is redelivered, whatever else    *)
(* claims, sweeps, crashes and fails, if one process has been up, its      *)
(* sweeps undisturbed and its pages not refused.                           *)
(***************************************************************************)
THEOREM SlowJobsAlerted == Spec => AlertedBeforeReaped
<1>1. SweepInv /\ [Next]_vars =>
        [\A j \in timed : LeavesRoom /\ Steady /\ Redelivered(j) => j \in alerted]_vars
  <2> SUFFICES ASSUME SweepInv, [Next]_vars, NEW j \in timed,
                      LeavesRoom, Steady, Redelivered(j), j \notin alerted
               PROVE  FALSE
    OBVIOUS
  <2> USE Numbers DEF SweepInv
  <2>1. age[j] >= limits.visibility
    BY RedeliveredOld
  <2>2. PICK w \in Worker : crashed[w] = 0
    BY DEF Steady
  <2>3. age[j] < Ends
    <3>1. reaper[w] \in {"sleep", "check", "page"}
      BY <2>2 DEF AlertInv, TypeInv, TasksOK
    <3>2. timer[w] \in Nat /\ age[j] \in Nat
      OBVIOUS
    <3>3. \/ age[j] + timer[w] < Wakes \/ age[j] + timer[w] < Ends
          \/ age[j] + timer[w] < limits.threshold + SweepTime
      BY <2>2, <3>1 DEF AlertInv
    <3> QED
      BY <3>2, <3>3 DEF Wakes, Ends
  <2>4. age[j] \in Nat
    OBVIOUS
  <2> QED
    BY <2>1, <2>3, <2>4 DEF LeavesRoom, Ends
<1> QED
  BY <1>1, SweepInvariant, PTL DEF Spec, AlertedBeforeReaped

(***************************************************************************)
(* Where the visibility timeout is shorter than the threshold by the time  *)
(* of a sweep, no page ever names a claim that has written its time,       *)
(* although time passes between the two looks of a sweep at the clock.     *)
(***************************************************************************)
THEOREM AlertsNoTimedClaim == Spec => SilentWhenReapedFirst
<1>1. SweepInv /\ [Next]_vars =>
        [ReapedFirst => \A w \in Worker : \A j \in stuck'[w] \ stuck[w] : j \notin timed]_vars
  <2> SUFFICES ASSUME SweepInv, [Next]_vars, ReapedFirst,
                      NEW w \in Worker, NEW j \in stuck'[w] \ stuck[w], j \in timed
               PROVE  FALSE
    OBVIOUS
  <2> USE Numbers DEF SweepInv
  <2>1. stuck' # stuck
    OBVIOUS
  <2>2. PICK v \in Worker : Check(v) \/ Page(v) \/ SweepFails(v) \/ Crash(v) \/ Restart(v)
    BY <2>1 DEF Next, Tick, ClaimMove, ClaimStamp, Finish, Reap, tasks, vars
  <2>3. j \notin {}
    OBVIOUS
  <2>4. v = w /\ Check(w) /\ stuck'[w] = {i \in InFlight : Stuck(i)}
    BY <2>2, <2>3 DEF Check, Page, SweepFails, Crash, Restart, BackToSleep, TypeInv, TasksOK
  <2>5. reaper[w] = "check" /\ j \in Job /\ j \in stamped
    BY <2>4 DEF Check, TimedOK
  <2>6. age[j] + timer[w] < limits.visibility + SweepTime
    BY <2>5 DEF ReapedInv
  <2>7. age[j] >= limits.threshold
    BY <2>4, <2>5 DEF Stuck
  <2>8. age[j] \in Nat /\ timer[w] \in Nat
    BY <2>5
  <2> QED
    BY <2>6, <2>7, <2>8 DEF ReapedFirst
<1> QED
  BY <1>1, SweepInvariant, PTL DEF Spec, SilentWhenReapedFirst
=============================================================================
