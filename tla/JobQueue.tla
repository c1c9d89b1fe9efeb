------------------------------ MODULE JobQueue ------------------------------
(***************************************************************************)
(* The reliable Redis work queue (app/jobs/queue.py) together with the     *)
(* processes that call it: worker processes, each running a claim/ack loop *)
(* and a reaper task on one event loop (app/jobs/worker.py), and operators *)
(* of the API who replay dead-lettered jobs.  Every action is one Redis    *)
(* command: the commands of different coroutines and processes interleave  *)
(* freely, which is what makes the queue hard to get right.                *)
(*                                                                         *)
(* pending is a FIFO list and is modelled as one.  processing and dead are *)
(* only ever pushed to, scanned, counted and removed from by id, so they   *)
(* are modelled as the number of copies of every id.  A claim timestamp is *)
(* abstracted to whether it is older than the visibility timeout.          *)
(***************************************************************************)
EXTENDS Naturals, Sequences, FiniteSets

CONSTANTS
    Job,              \* request ids
    Proc,             \* worker processes
    Operator,         \* callers of the dead-letter replay endpoint
    Free,             \* "no job": the value of an empty hand
    MaxRedeliveries,  \* settings.job_max_redeliveries
    MaxRequeues,      \* bound: explicit re-enqueues of one job
    MaxCrashes,       \* bound: ends of a worker process or of an operator call
    Faults            \* what may go wrong, see FaultKinds

(***************************************************************************)
(* "crash"    a worker process dies while its reaper is not moving a job   *)
(* "midMove"  ... or between the two list commands of a move               *)
(* "stop"     SIGTERM: the idle worker loop ends and cancels its reaper    *)
(* "raise"    process_request raises (database unreachable in _begin)      *)
(* "redis"    a Redis error inside reap, which the reaper loop swallows    *)
(* "overrun"  a live worker keeps a job longer than the visibility timeout *)
(***************************************************************************)
FaultKinds == {"crash", "midMove", "stop", "raise", "redis", "overrun"}

\* The faults that can end a move half-way, or ack a job whose run is not over.
Lossy == Faults \cap {"midMove", "stop", "redis", "raise"} # {}

ASSUME FreeAssumption == Free \notin Job
ASSUME FiniteAssumption == IsFiniteSet(Proc) /\ IsFiniteSet(Operator)
ASSUME BoundAssumption == /\ MaxRedeliveries \in Nat
                          /\ MaxRequeues \in Nat
                          /\ MaxCrashes \in Nat
ASSUME FaultAssumption == Faults \subseteq FaultKinds

VARIABLES
    pending,     \* Redis list <key>: LPUSH on the left, taken from the right
    processing,  \* Redis list <key>:processing: copies of every id
    dead,        \* Redis list <key>:dead: copies of every id
    heartbeats,  \* Redis hash <key>:heartbeats: age of the last claim
    deliveries,  \* Redis hash <key>:deliveries: 0 when the field is absent
    worker,      \* the claim/ack loop of every worker process
    reaper,      \* the reaper task of every worker process
    operator,    \* requeue_from_dead calls in progress
    submitted,   \* jobs enqueued by an API request
    returned,    \* jobs process_request has returned from at least once
    requeues,    \* explicit re-enqueues so far, per job
    crashes      \* processes ended so far

lists == <<pending, processing, dead>>
hashes == <<heartbeats, deliveries>>
history == <<submitted, returned, requeues, crashes>>
vars == <<lists, hashes, worker, reaper, operator, history>>

WorkerPC == {"idle", "stamp", "run", "ackList", "ackBeat", "ackCount", "down"}
ReaperPC == {"sleep", "scan", "remove", "beat", "count", "return", "bury",
             "forget", "down"}
OperatorPC == {"idle", "clear", "push"}

\* The worker loop holds the job it drives; exiting is set when the loop will
\* leave run_worker after the ack instead of claiming again.
WorkerState == [pc : WorkerPC, job : Job \cup {Free}, exiting : BOOLEAN]

\* A sweep holds what is left of its snapshot, the entry it is moving, and the
\* ids whose claim had already expired at the sweep's own reading of the clock.
ReaperState == [pc : ReaperPC, job : Job \cup {Free}, todo : [Job -> Nat],
                expired : SUBSET Job]
OperatorState == [pc : OperatorPC, job : Job \cup {Free}]

NoCopies == [j \in Job |-> 0]
IdleWorker == [pc |-> "idle", job |-> Free, exiting |-> FALSE]
AsleepReaper == [pc |-> "sleep", job |-> Free, todo |-> NoCopies, expired |-> {}]
IdleOperator == [pc |-> "idle", job |-> Free]

TypeOK ==
    /\ pending \in Seq(Job)
    /\ processing \in [Job -> Nat]
    /\ dead \in [Job -> Nat]
    /\ heartbeats \in [Job -> {"none", "fresh", "old"}]
    /\ deliveries \in [Job -> Nat]
    /\ worker \in [Proc -> WorkerState]
    /\ reaper \in [Proc -> ReaperState]
    /\ operator \in [Operator -> OperatorState]
    /\ submitted \subseteq Job
    /\ returned \subseteq Job
    /\ requeues \in [Job -> Nat]
    /\ crashes \in Nat

Init ==
    /\ pending = <<>>
    /\ processing = NoCopies
    /\ dead = NoCopies
    /\ heartbeats = [j \in Job |-> "none"]
    /\ deliveries = [j \in Job |-> 0]
    /\ worker = [p \in Proc |-> IdleWorker]
    /\ reaper = [p \in Proc |-> AsleepReaper]
    /\ operator = [o \in Operator |-> IdleOperator]
    /\ submitted = {}
    /\ returned = {}
    /\ requeues = [j \in Job |-> 0]
    /\ crashes = 0

-----------------------------------------------------------------------------
(* Redis commands.                                                         *)

LPush(list, j) == <<j>> \o list
Rightmost(list) == list[Len(list)]
ButRightmost(list) == SubSeq(list, 1, Len(list) - 1)

\* LREM key 1 j, and LPUSH, on a list modelled by its copies.
TakeCopy(copies, j) == [copies EXCEPT ![j] = IF @ = 0 THEN 0 ELSE @ - 1]
AddCopy(copies, j) == [copies EXCEPT ![j] = @ + 1]

\* HDEL <key>:heartbeats j
DropBeat(j) == heartbeats' = [heartbeats EXCEPT ![j] = "none"]

\* HDEL <key>:deliveries j
ForgetDeliveries(j) == deliveries' = [deliveries EXCEPT ![j] = 0]

Driving(p) == worker[p].pc \notin {"idle", "down"}
Alive(p) == worker[p].pc # "down"

\* The reaper of p has taken an entry off processing and not yet pushed it.
Moving(p) == reaper[p].pc \in {"beat", "count", "return", "bury"}

EndProcess(p) ==
    /\ worker' = [worker EXCEPT ![p] = [IdleWorker EXCEPT !.pc = "down"]]
    /\ reaper' = [reaper EXCEPT ![p] = [AsleepReaper EXCEPT !.pc = "down"]]

-----------------------------------------------------------------------------
(* Clients: the submit and batch endpoints enqueue a new id once; the      *)
(* retry endpoint enqueues again an id whose run ended in failure.         *)

Submit(j) ==
    /\ j \notin submitted
    /\ submitted' = submitted \cup {j}
    /\ pending' = LPush(pending, j)
    /\ UNCHANGED <<processing, dead, hashes, worker, reaper, operator,
                   returned, requeues, crashes>>

EnqueueAgain(j) ==
    /\ requeues[j] < MaxRequeues
    /\ requeues' = [requeues EXCEPT ![j] = @ + 1]
    /\ pending' = LPush(pending, j)
    /\ UNCHANGED <<processing, dead, hashes, reaper, operator, submitted, crashes>>

Retry(j) ==
    /\ j \in returned
    /\ EnqueueAgain(j)
    /\ UNCHANGED <<worker, returned>>

-----------------------------------------------------------------------------
(* The worker loop: claim, process_request, ack in a finally block.        *)

WorkerStep(p, from, to) ==
    /\ worker[p].pc = from
    /\ worker' = [worker EXCEPT ![p].pc = to]

\* Mutant: a plain BRPOP, the job is on no list while the worker drives it.
ClaimPop(p) ==
    /\ worker[p].pc = "idle"
    /\ pending # <<>>
    /\ pending' = ButRightmost(pending)
    /\ worker' = [worker EXCEPT ![p].pc = "stamp", ![p].job = Rightmost(pending)]
    /\ UNCHANGED <<processing, dead, hashes, reaper, operator, history>>

\* claim, first command: BLMOVE pending RIGHT -> processing LEFT.
ClaimMove(p) ==
    /\ worker[p].pc = "idle"
    /\ pending # <<>>
    /\ LET j == Rightmost(pending)
       IN /\ pending' = ButRightmost(pending)
          /\ processing' = AddCopy(processing, j)
          /\ worker' = [worker EXCEPT ![p].pc = "stamp", ![p].job = j]
    /\ UNCHANGED <<dead, hashes, reaper, operator, history>>

\* claim, second command: HSET the claim time, which is younger than the clock
\* reading of every sweep in progress.
ClaimStamp(p) ==
    /\ WorkerStep(p, "stamp", "run")
    /\ heartbeats' = [heartbeats EXCEPT ![worker[p].job] = "fresh"]
    /\ reaper' = [r \in Proc |->
                    [reaper[r] EXCEPT !.expired = @ \ {worker[p].job}]]
    /\ UNCHANGED <<lists, deliveries, operator, history>>

\* process_request returns with the outcome recorded in the database.
Finish(p) ==
    /\ WorkerStep(p, "run", "ackList")
    /\ returned' = returned \cup {worker[p].job}
    /\ UNCHANGED <<lists, hashes, reaper, operator, submitted, requeues, crashes>>

\* process_request returns after _handle_failure has enqueued the job again: the
\* run is over, and the next attempt waits as an entry of its own.
Requeue(p) ==
    /\ WorkerStep(p, "run", "ackList")
    /\ returned' = returned \cup {worker[p].job}
    /\ EnqueueAgain(worker[p].job)

\* process_request raises: the finally block acks, then run_worker ends.
Raise(p) ==
    /\ "raise" \in Faults
    /\ crashes < MaxCrashes
    /\ worker[p].pc = "run"
    /\ worker' = [worker EXCEPT ![p].pc = "ackList", ![p].exiting = TRUE]
    /\ crashes' = crashes + 1
    /\ UNCHANGED <<lists, hashes, reaper, operator, submitted, returned, requeues>>

\* ack, first command: LREM processing 1.
AckList(p) ==
    /\ WorkerStep(p, "ackList", "ackBeat")
    /\ processing' = TakeCopy(processing, worker[p].job)
    /\ UNCHANGED <<pending, dead, hashes, reaper, operator, history>>

\* ack, second command: HDEL heartbeats.
AckBeat(p) ==
    /\ WorkerStep(p, "ackBeat", "ackCount")
    /\ DropBeat(worker[p].job)
    /\ UNCHANGED <<lists, deliveries, reaper, operator, history>>

\* Mutant: the ack takes back one delivery with HINCRBY instead of HDEL.
AckCountUndoes(p) ==
    /\ worker[p].pc = "ackCount"
    /\ deliveries' = [deliveries EXCEPT ![worker[p].job] = @ - 1]
    /\ IF worker[p].exiting THEN EndProcess(p)
       ELSE worker' = [worker EXCEPT ![p] = IdleWorker] /\ UNCHANGED reaper
    /\ UNCHANGED <<lists, heartbeats, operator, history>>

\* ack, third command: HDEL deliveries.  The loop goes back to claim, unless an
\* exception is on its way out of run_worker: that cancels the reaper too.
AckCount(p) ==
    /\ worker[p].pc = "ackCount"
    /\ ForgetDeliveries(worker[p].job)
    /\ IF worker[p].exiting THEN EndProcess(p)
       ELSE worker' = [worker EXCEPT ![p] = IdleWorker] /\ UNCHANGED reaper
    /\ UNCHANGED <<lists, heartbeats, operator, history>>

-----------------------------------------------------------------------------
(* The reaper task: one sweep over a snapshot of the processing list.      *)

ReaperStep(p, from, to) ==
    /\ reaper[p].pc = from
    /\ reaper' = [reaper EXCEPT ![p].pc = to]

\* Reads the clock and LRANGEs the processing list.
SweepStart(p) ==
    /\ reaper[p].pc = "sleep"
    /\ reaper' = [reaper EXCEPT ![p] =
          [pc |-> "scan", job |-> Free, todo |-> processing,
           expired |-> {j \in Job : heartbeats[j] = "old"}]]
    /\ UNCHANGED <<lists, hashes, worker, operator, history>>

\* Mutant: an entry without a claim time counts as just claimed.
SweepCheckMissingIsFresh(p, j) ==
    /\ reaper[p].pc = "scan"
    /\ reaper[p].todo[j] > 0
    /\ LET stale == j \in reaper[p].expired
       IN reaper' = [reaper EXCEPT ![p].todo[j] = @ - 1,
                                   ![p].job = IF stale THEN j ELSE Free,
                                   ![p].pc = IF stale THEN "remove" ELSE "scan"]
    /\ UNCHANGED <<lists, hashes, worker, operator, history>>

\* HGET of the next entry's claim time: an entry without one is stale at once.
SweepCheck(p, j) ==
    /\ reaper[p].pc = "scan"
    /\ reaper[p].todo[j] > 0
    /\ LET stale == heartbeats[j] = "none" \/ j \in reaper[p].expired
       IN reaper' = [reaper EXCEPT ![p].todo[j] = @ - 1,
                                   ![p].job = IF stale THEN j ELSE Free,
                                   ![p].pc = IF stale THEN "remove" ELSE "scan"]
    /\ UNCHANGED <<lists, hashes, worker, operator, history>>

SweepEnd(p) ==
    /\ reaper[p].pc = "scan"
    /\ reaper[p].todo = NoCopies
    /\ reaper' = [reaper EXCEPT ![p] = AsleepReaper]
    /\ UNCHANGED <<lists, hashes, worker, operator, history>>

\* Mutant: the result of LREM is ignored.
ReapRemoveUnguarded(p) ==
    /\ ReaperStep(p, "remove", "beat")
    /\ processing' = TakeCopy(processing, reaper[p].job)
    /\ UNCHANGED <<pending, dead, hashes, worker, operator, history>>

\* LREM processing 1: only the sweep that removes the entry may move it.
ReapRemove(p) ==
    /\ reaper[p].pc = "remove"
    /\ LET mine == processing[reaper[p].job] > 0
       IN reaper' = [reaper EXCEPT ![p].pc = IF mine THEN "beat" ELSE "scan",
                                   ![p].job = IF mine THEN @ ELSE Free]
    /\ processing' = TakeCopy(processing, reaper[p].job)
    /\ UNCHANGED <<pending, dead, hashes, worker, operator, history>>

ReapBeat(p) ==
    /\ ReaperStep(p, "beat", "count")
    /\ DropBeat(reaper[p].job)
    /\ UNCHANGED <<lists, deliveries, worker, operator, history>>

\* Mutant: the limit is compared with the counter before the increment.
ReapCountLate(p) ==
    /\ LET n == deliveries[reaper[p].job]
       IN /\ ReaperStep(p, "count", IF n > MaxRedeliveries THEN "bury" ELSE "return")
          /\ deliveries' = [deliveries EXCEPT ![reaper[p].job] = n + 1]
    /\ UNCHANGED <<lists, heartbeats, worker, operator, history>>

\* HINCRBY deliveries decides between another delivery and the dead letters.
ReapCount(p) ==
    /\ LET n == deliveries[reaper[p].job] + 1
       IN /\ ReaperStep(p, "count", IF n > MaxRedeliveries THEN "bury" ELSE "return")
          /\ deliveries' = [deliveries EXCEPT ![reaper[p].job] = n]
    /\ UNCHANGED <<lists, heartbeats, worker, operator, history>>

\* Mutant: the counter is cleared on the way back to pending as well.
ReapReturnForgets(p) ==
    /\ reaper[p].pc = "return"
    /\ pending' = LPush(pending, reaper[p].job)
    /\ ForgetDeliveries(reaper[p].job)
    /\ reaper' = [reaper EXCEPT ![p].pc = "scan", ![p].job = Free]
    /\ UNCHANGED <<processing, dead, heartbeats, worker, operator, history>>

ReapReturn(p) ==
    /\ reaper[p].pc = "return"
    /\ pending' = LPush(pending, reaper[p].job)
    /\ reaper' = [reaper EXCEPT ![p].pc = "scan", ![p].job = Free]
    /\ UNCHANGED <<processing, dead, hashes, worker, operator, history>>

ReapBury(p) ==
    /\ ReaperStep(p, "bury", "forget")
    /\ dead' = AddCopy(dead, reaper[p].job)
    /\ UNCHANGED <<pending, processing, hashes, worker, operator, history>>

ReapForget(p) ==
    /\ reaper[p].pc = "forget"
    /\ ForgetDeliveries(reaper[p].job)
    /\ reaper' = [reaper EXCEPT ![p].pc = "scan", ![p].job = Free]
    /\ UNCHANGED <<lists, heartbeats, worker, operator, history>>

-----------------------------------------------------------------------------
(* requeue_from_dead, called by the dead-letter replay endpoint.           *)

OperatorStep(o, from, to) ==
    /\ operator[o].pc = from
    /\ operator' = [operator EXCEPT ![o].pc = to]

\* Mutant: the entry is looked up and left on the dead-letter list.
ReplayCopy(o, j) ==
    /\ operator[o].pc = "idle"
    /\ dead[j] > 0
    /\ operator' = [operator EXCEPT ![o] = [pc |-> "clear", job |-> j]]
    /\ UNCHANGED <<lists, hashes, worker, reaper, history>>

\* LREM dead 0: every copy goes; the call ends here when there was none.
ReplayRemove(o, j) ==
    /\ operator[o].pc = "idle"
    /\ dead[j] > 0
    /\ dead' = [dead EXCEPT ![j] = 0]
    /\ operator' = [operator EXCEPT ![o] = [pc |-> "clear", job |-> j]]
    /\ UNCHANGED <<pending, processing, hashes, worker, reaper, history>>

ReplayClear(o) ==
    /\ OperatorStep(o, "clear", "push")
    /\ ForgetDeliveries(operator[o].job)
    /\ UNCHANGED <<lists, heartbeats, worker, reaper, history>>

ReplayPush(o) ==
    /\ operator[o].pc = "push"
    /\ pending' = LPush(pending, operator[o].job)
    /\ operator' = [operator EXCEPT ![o] = IdleOperator]
    /\ UNCHANGED <<processing, dead, hashes, worker, reaper, history>>

-----------------------------------------------------------------------------
(* Time and faults.                                                        *)

\* A visibility timeout passes since the claim of j was stamped.
Expire(j) ==
    /\ heartbeats[j] = "fresh"
    /\ "overrun" \in Faults \/ \A p \in Proc : Driving(p) => worker[p].job # j
    /\ heartbeats' = [heartbeats EXCEPT ![j] = "old"]
    /\ UNCHANGED <<lists, deliveries, worker, reaper, operator, history>>

\* A worker process is killed: both of its coroutines are gone.
Crash(p) ==
    /\ Moving(p) => "midMove" \in Faults
    /\ "crash" \in Faults
    /\ Alive(p)
    /\ crashes < MaxCrashes
    /\ EndProcess(p)
    /\ crashes' = crashes + 1
    /\ UNCHANGED <<lists, hashes, operator, submitted, returned, requeues>>

\* Graceful shutdown: the loop ends between two jobs and cancels the reaper
\* at whichever await it is suspended.
Stop(p) ==
    /\ "stop" \in Faults
    /\ worker[p].pc = "idle"
    /\ crashes < MaxCrashes
    /\ EndProcess(p)
    /\ crashes' = crashes + 1
    /\ UNCHANGED <<lists, hashes, operator, submitted, returned, requeues>>

Restart(p) ==
    /\ worker[p].pc = "down"
    /\ worker' = [worker EXCEPT ![p] = IdleWorker]
    /\ reaper' = [reaper EXCEPT ![p] = AsleepReaper]
    /\ UNCHANGED <<lists, hashes, operator, history>>

\* A Redis error aborts the sweep; the reaper loop logs it and sleeps again.
SweepFail(p) ==
    /\ "redis" \in Faults
    /\ reaper[p].pc \notin {"sleep", "down"}
    /\ crashes < MaxCrashes
    /\ reaper' = [reaper EXCEPT ![p] = AsleepReaper]
    /\ crashes' = crashes + 1
    /\ UNCHANGED <<lists, hashes, worker, operator, submitted, returned, requeues>>

\* The API process dies between the commands of a replay.
ReplayCrash(o) ==
    /\ "midMove" \in Faults
    /\ operator[o].pc # "idle"
    /\ crashes < MaxCrashes
    /\ operator' = [operator EXCEPT ![o] = IdleOperator]
    /\ crashes' = crashes + 1
    /\ UNCHANGED <<lists, hashes, worker, reaper, submitted, returned, requeues>>

-----------------------------------------------------------------------------
WorkerNext(p) == \/ ClaimMove(p) \/ ClaimStamp(p) \/ Finish(p) \/ Requeue(p)
                 \/ Raise(p) \/ AckList(p) \/ AckBeat(p) \/ AckCount(p)
ReaperNext(p) == \/ SweepStart(p) \/ SweepEnd(p) \/ (\E j \in Job : SweepCheck(p, j))
                 \/ ReapRemove(p) \/ ReapBeat(p) \/ ReapCount(p) \/ ReapReturn(p)
                 \/ ReapBury(p) \/ ReapForget(p) \/ SweepFail(p)
OperatorNext(o) == \/ (\E j \in Job : ReplayRemove(o, j))
                   \/ ReplayClear(o) \/ ReplayPush(o) \/ ReplayCrash(o)

Next == \/ \E j \in Job : Submit(j) \/ Retry(j) \/ Expire(j)
        \/ \E p \in Proc : WorkerNext(p) \/ ReaperNext(p)
        \/ \E p \in Proc : Crash(p) \/ Stop(p) \/ Restart(p)
        \/ \E o \in Operator : OperatorNext(o)

Spec == Init /\ [][Next]_vars

-----------------------------------------------------------------------------
(* Properties.                                                             *)

Occurs(list, j) == \E i \in 1..Len(list) : list[i] = j

\* An entry taken off one list and not yet pushed on another is in the hand of
\* the reaper or the operator that is moving it.
ReaperHolds(p, j) == Moving(p) /\ reaper[p].job = j
OperatorHolds(o, j) == operator[o].pc # "idle" /\ operator[o].job = j

\* Where the copies of an id are.
Places(j) ==
    {<<"pending", i>> : i \in {k \in 1..Len(pending) : pending[k] = j}}
    \cup {<<"processing", n>> : n \in 1..processing[j]}
    \cup {<<"dead", n>> : n \in 1..dead[j]}
    \cup {<<"reaper", p>> : p \in {r \in Proc : ReaperHolds(r, j)}}
    \cup {<<"operator", o>> : o \in {x \in Operator : OperatorHolds(x, j)}}

Somewhere(j) ==
    \/ Occurs(pending, j)
    \/ processing[j] > 0
    \/ dead[j] > 0
    \/ \E p \in Proc : ReaperHolds(p, j)
    \/ \E o \in Operator : OperatorHolds(o, j)

\* Nobody has brought the job to the end of a run yet.  A run that marks its job
\* for another attempt has returned: the attempt is a new entry of the queue.
Unfinished == submitted \ returned

(***************************************************************************)
(* At-least-once: a submitted job whose run no driver has returned from is *)
(* still on a list or being moved, whatever crashed, was redelivered or    *)
(* was acked meanwhile.  (queue.py claim/ack/reap, worker.py finally: ack) *)
(***************************************************************************)
NoJobLost == \A j \in Unfinished : Somewhere(j)

(***************************************************************************)
(* Redelivery never multiplies a job: until a driver returns from it there *)
(* is at most one copy of it, even when several reapers sweep the same     *)
(* snapshot, crash in the middle, or race a replay.  (LREM guard of reap)  *)
(***************************************************************************)
SingleCopy == \A j \in Unfinished : \A x, y \in Places(j) : x = y

(***************************************************************************)
(* A poison job cannot loop: a job nobody could finish is runnable only    *)
(* while its delivery counter is within max_redeliveries, whatever         *)
(* concurrent acks, sweeps and replays do to the counter.  (reap, HINCRBY) *)
(***************************************************************************)
PoisonBound ==
    \A j \in Unfinished :
        Occurs(pending, j) \/ processing[j] > 0 => deliveries[j] <= MaxRedeliveries

(***************************************************************************)
(* The counter that decides when a job is parked survives everything else: *)
(* under a job nobody finished only a replay clears it, or the sweep that  *)
(* has just parked the job.  (queue.py: HDEL deliveries in ack, reap and   *)
(* requeue_from_dead)                                                      *)
(***************************************************************************)
CounterKeptUntilParked ==
    [][\A j \in Unfinished : deliveries'[j] < deliveries[j] =>
             \/ \E o \in Operator : operator[o].pc = "clear" /\ operator[o].job = j
             \/ \E p \in Proc : reaper[p].pc = "forget" /\ reaper[p].job = j]_vars

(***************************************************************************)
(* queue.py lines 10-12: "If a worker dies between claim and ack, the job  *)
(* stays in processing" and so is redelivered: the job of every running    *)
(* driver is somewhere it can be delivered from again.                     *)
(***************************************************************************)
ClaimIsRecoverable ==
    \A p \in Proc : worker[p].pc = "run" => Somewhere(worker[p].job)

(***************************************************************************)
(* The queue as its callers see it: every behaviour of the commands is a   *)
(* behaviour of AtLeastOnceQueue, an entry in the hand of a reaper being   *)
(* still held and one in the hand of an operator still dead.               *)
(***************************************************************************)
Abstract == INSTANCE AtLeastOnceQueue WITH
    waiting <- [j \in Job |-> Cardinality({i \in 1..Len(pending) : pending[i] = j})],
    held <- [j \in Job |-> processing[j] +
                Cardinality({p \in Proc : ReaperHolds(p, j)})],
    dead <- [j \in Job |-> dead[j] +
                Cardinality({o \in Operator : OperatorHolds(o, j)})]

RefinesAtLeastOnce == Abstract!Spec

-----------------------------------------------------------------------------
(***************************************************************************)
(* Every process keeps running its coroutines, a run ends (every adapter   *)
(* call has a timeout), time passes, and a process that ended is started   *)
(* again.                                                                  *)
(***************************************************************************)
FairSpec ==
    /\ Spec
    /\ \A p \in Proc : WF_vars(WorkerNext(p)) /\ WF_vars(ReaperNext(p)) /\ WF_vars(Restart(p))
    /\ \A o \in Operator : WF_vars(ReplayClear(o) \/ ReplayPush(o))
    /\ \A j \in Job : WF_vars(Expire(j))

(***************************************************************************)
(* Every submitted job is run to the end by some driver or parked on the   *)
(* dead-letter list, although workers crash while they hold it.            *)
(***************************************************************************)
FinishedOrParked == \A j \in Job : j \in submitted ~> (j \in returned \/ dead[j] > 0)

(***************************************************************************)
(* The processing list drains: no entry is left behind by a crash, by an   *)
(* ack that settled another driver's copy, or by a duplicate delivery.     *)
(***************************************************************************)
ProcessingDrains == \A j \in Job : processing[j] > 0 ~> processing[j] = 0
=============================================================================
