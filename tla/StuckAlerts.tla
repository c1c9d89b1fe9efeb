---------------------------- MODULE StuckAlerts ----------------------------
(***************************************************************************)
(* The stuck-job alert (_check_stuck_jobs in app/jobs/worker.py) beside    *)
(* the redelivery it shares a sweep with: every worker process has a       *)
(* reaper that sleeps for an interval, redelivers the claims older than    *)
(* the visibility timeout, and then pages the operators about the claims   *)
(* older than the stuck threshold.  The two limits are settings of the     *)
(* deployment, and which is longer decides whether a page can go out.      *)
(*                                                                         *)
(* Time is relative: a claim has an age, a reaper the ticks left of its    *)
(* sleep or of its sweep, and the clock is kept modulo the interval,       *)
(* because the key of a page is the number of the current interval.  Both  *)
(* halves of a sweep read the clock, and so does the key of the page: time *)
(* may pass between the three, up to SweepTime.  How the single commands   *)
(* of sweeps and claims interleave is the subject of JobQueue; here only a *)
(* claim and its time stamp are two steps.                                 *)
(***************************************************************************)
EXTENDS Naturals, FiniteSets

CONSTANTS
    Job,              \* request ids
    Worker,           \* worker processes
    Free,             \* "no job": the value of an empty hand
    Settings,         \* the limits a deployment may have, see Limits
    Interval,         \* settings.job_reaper_interval_seconds, in ticks
    SweepTime,        \* bound: ticks a sweep takes, from its first look at
                      \* the clock to its page
    MaxRedeliveries,  \* settings.job_max_redeliveries
    MaxCrashes        \* bound: ends, failed sweeps and refused pages of a process

\* visibility: settings.job_visibility_timeout_seconds (300 by default);
\* threshold: settings.stuck_job_threshold_seconds (1800 by default).
Limits == [visibility : Nat \ {0}, threshold : Nat \ {0}]

ASSUME FreeAssumption == Free \notin Job
ASSUME WorkerAssumption == IsFiniteSet(Worker)
ASSUME SettingsAssumption == Settings \subseteq Limits
ASSUME BoundAssumption == /\ Interval \in Nat \ {0}
                          /\ SweepTime \in Nat
                          /\ MaxRedeliveries \in Nat
                          /\ MaxCrashes \in Nat

VARIABLES
    limits,      \* the settings of this deployment
    place,       \* the list an id is on
    stamped,     \* ids with a claim time in <key>:heartbeats
    age,         \* ticks since that time; grows no further than Horizon
    deliveries,  \* Redis hash <key>:deliveries
    hand,        \* the job a worker loop drives
    fresh,       \* worker loops between BLMOVE and HSET of a claim
    reaper,      \* where the reaper task of a process is
    timer,       \* ticks until a reaper wakes, or its sweep has ended
    stuck,       \* the jobs a sweep is about to page about
    seen,        \* processes whose notifier remembers the current key
    phase,       \* the clock modulo Interval
    posts,       \* pages Slack took under the current key
    alerted,     \* jobs in flight that a page Slack took counts
    timed,       \* jobs in flight whose latest claim has written its time
    crashed      \* ends, failed sweeps and refused pages of every process

queue == <<place, stamped, age, deliveries>>
loops == <<hand, fresh>>
tasks == <<reaper, timer, stuck, seen>>
history == <<posts, alerted, timed, crashed>>
vars == <<limits, queue, loops, tasks, phase, history>>

\* bound: no comparison tells older claims apart.
Horizon == IF limits.visibility > limits.threshold THEN limits.visibility
           ELSE limits.threshold

TypeOK ==
    /\ limits \in Settings
    /\ place \in [Job -> {"none", "pending", "processing", "dead"}]
    /\ stamped \subseteq Job
    /\ age \in [Job -> 0 .. Horizon]
    /\ deliveries \in [Job -> 0 .. MaxRedeliveries]
    /\ hand \in [Worker -> Job \cup {Free}]
    /\ fresh \subseteq Worker
    /\ reaper \in [Worker -> {"sleep", "check", "page", "down"}]
    /\ timer \in [Worker -> 0 .. Interval + SweepTime]
    /\ stuck \in [Worker -> SUBSET Job]
    /\ seen \subseteq Worker
    /\ phase \in 0 .. Interval - 1
    /\ posts \in Nat
    /\ alerted \subseteq Job
    /\ timed \subseteq Job
    /\ crashed \in [Worker -> 0 .. MaxCrashes]

\* Jobs wait, and the workers have just been started.
Init ==
    /\ limits \in Settings
    /\ place = [j \in Job |-> "pending"]
    /\ stamped = {}
    /\ age = [j \in Job |-> 0]
    /\ deliveries = [j \in Job |-> 0]
    /\ hand = [w \in Worker |-> Free]
    /\ fresh = {}
    /\ reaper = [w \in Worker |-> "sleep"]
    /\ timer = [w \in Worker |-> Interval]
    /\ stuck = [w \in Worker |-> {}]
    /\ seen = {}
    /\ phase \in 0 .. Interval - 1
    /\ posts = 0
    /\ alerted = {}
    /\ timed = {}
    /\ crashed = [w \in Worker |-> 0]

-----------------------------------------------------------------------------
(* The worker loop.                                                        *)

InFlight == {j \in Job : place[j] = "processing"}

\* BLMOVE: the job is in flight and carries no claim time yet.
ClaimMove(w) ==
    /\ reaper[w] # "down"
    /\ hand[w] = Free
    /\ \E j \in Job :
        /\ place[j] = "pending"
        /\ place' = [place EXCEPT ![j] = "processing"]
        /\ hand' = [hand EXCEPT ![w] = j]
        /\ timed' = timed \ {j}
    /\ fresh' = fresh \cup {w}
    /\ UNCHANGED <<limits, stamped, age, deliveries, tasks, phase, posts,
                   alerted, crashed>>

\* HSET of the claim time, whoever has the job by now: a claim that was reaped
\* without a time leaves one behind that the next claim of the job starts with.
ClaimStamp(w) ==
    /\ w \in fresh
    /\ fresh' = fresh \ {w}
    /\ stamped' = stamped \cup {hand[w]}
    /\ age' = [age EXCEPT ![hand[w]] = 0]
    /\ timed' = timed \cup ({hand[w]} \cap InFlight)
    /\ UNCHANGED <<limits, place, deliveries, hand, tasks, phase, posts, alerted,
                   crashed>>

\* process_request returns, however long it took, and the job is acked: that
\* removes the entry of the id even if another process has claimed it since.
Finish(w) ==
    /\ hand[w] # Free
    /\ w \notin fresh
    /\ LET j == hand[w] IN
        /\ place' = IF place[j] = "processing" THEN [place EXCEPT ![j] = "none"]
                    ELSE place
        /\ stamped' = stamped \ {j}
        /\ age' = [age EXCEPT ![j] = 0]
        /\ deliveries' = [deliveries EXCEPT ![j] = 0]
        /\ timed' = timed \ {j}
        /\ alerted' = alerted \ {j}
    /\ hand' = [hand EXCEPT ![w] = Free]
    /\ UNCHANGED <<limits, fresh, tasks, phase, posts, crashed>>

-----------------------------------------------------------------------------
(* The sweep of a reaper.                                                  *)

\* reap: a claim without a time counts as expired.
Expired(j) == j \in stamped => age[j] >= limits.visibility

\* Mutant: the alert is given the limit of the redelivery.
StuckByVisibility(j) == j \in stamped => age[j] >= limits.visibility

\* stuck_jobs: a claim without a time counts as older than the threshold.
Stuck(j) == j \in stamped => age[j] >= limits.threshold

Awake(w) == reaper[w] = "sleep" /\ timer[w] = 0

\* The reaper loop waits for the next interval.
BackToSleep(w) ==
    /\ reaper' = [reaper EXCEPT ![w] = "sleep"]
    /\ timer' = [timer EXCEPT ![w] = Interval]
    /\ stuck' = [stuck EXCEPT ![w] = {}]

\* Mutant: a job is parked one redelivery too late.
MoveOneMore(expired) ==
    LET Buried(j) == deliveries[j] > MaxRedeliveries IN
    /\ place' = [j \in Job |-> IF j \notin expired THEN place[j]
                               ELSE IF Buried(j) THEN "dead" ELSE "pending"]
    /\ deliveries' = [j \in Job |-> IF j \notin expired THEN deliveries[j]
                                    ELSE IF Buried(j) THEN 0
                                    ELSE deliveries[j] + 1]
    /\ stamped' = stamped \ expired
    /\ age' = [j \in Job |-> IF j \in expired THEN 0 ELSE age[j]]
    /\ timed' = timed \ expired
    /\ alerted' = alerted \ expired

\* Redelivers the expired jobs, or parks those redelivered often enough.
Move(expired) ==
    LET Buried(j) == deliveries[j] = MaxRedeliveries IN
    /\ place' = [j \in Job |-> IF j \notin expired THEN place[j]
                               ELSE IF Buried(j) THEN "dead" ELSE "pending"]
    /\ deliveries' = [j \in Job |-> IF j \notin expired THEN deliveries[j]
                                    ELSE IF Buried(j) THEN 0
                                    ELSE deliveries[j] + 1]
    /\ stamped' = stamped \ expired
    /\ age' = [j \in Job |-> IF j \in expired THEN 0 ELSE age[j]]
    /\ timed' = timed \ expired
    /\ alerted' = alerted \ expired

\* Mutant: the alert comes first in the sweep.
ReapLast(w) ==
    /\ Awake(w)
    /\ Move({j \in InFlight : Expired(j)})
    /\ stuck' = [stuck EXCEPT ![w] = {j \in InFlight : Stuck(j)}]
    /\ reaper' = [reaper EXCEPT ![w] = "page"]
    /\ timer' = [timer EXCEPT ![w] = SweepTime]
    /\ UNCHANGED <<limits, loops, seen, phase, posts, crashed>>

\* The first half of a sweep: every expired claim leaves the processing list.
Reap(w) ==
    /\ Awake(w)
    /\ Move({j \in InFlight : Expired(j)})
    /\ reaper' = [reaper EXCEPT ![w] = "check"]
    /\ timer' = [timer EXCEPT ![w] = SweepTime]
    /\ UNCHANGED <<limits, loops, stuck, seen, phase, posts, crashed>>

\* The second half reads the list and the clock again, after the metrics: a
\* claim has grown older since, and without stuck jobs the sweep is over.
Check(w) ==
    /\ reaper[w] = "check"
    /\ LET found == {j \in InFlight : Stuck(j)} IN
        IF found = {} THEN BackToSleep(w)
        ELSE /\ reaper' = [reaper EXCEPT ![w] = "page"]
             /\ stuck' = [stuck EXCEPT ![w] = found]
             /\ UNCHANGED timer
    /\ UNCHANGED <<limits, queue, loops, seen, phase, history>>

\* notify under the key of the current interval, which is read only now: taken
\* by Slack with or without the answer arriving, refused, or skipped when this
\* process has posted under it.  _check_stuck_jobs suppresses the errors.  The
\* text counts all stuck jobs and names the first ten.
Page(w) ==
    /\ reaper[w] = "page"
    /\ \/ /\ w \notin seen
          /\ posts' = posts + 1
          /\ seen' \in {seen, seen \cup {w}}
          /\ alerted' = alerted \cup (stuck[w] \cap InFlight)
          /\ UNCHANGED crashed
       \/ /\ w \notin seen
          /\ crashed[w] < MaxCrashes
          /\ crashed' = [crashed EXCEPT ![w] = @ + 1]
          /\ UNCHANGED <<posts, seen, alerted>>
       \/ w \in seen /\ UNCHANGED <<posts, seen, alerted, crashed>>
    /\ BackToSleep(w)
    /\ UNCHANGED <<limits, queue, loops, phase, timed>>

\* A Redis error in a sweep: logged, and the reaper sleeps on.
SweepFails(w) ==
    /\ Awake(w) \/ reaper[w] = "check"
    /\ crashed[w] < MaxCrashes
    /\ crashed' = [crashed EXCEPT ![w] = @ + 1]
    /\ BackToSleep(w)
    /\ UNCHANGED <<limits, queue, loops, seen, phase, posts, alerted, timed>>

-----------------------------------------------------------------------------
(* Processes and time.                                                     *)

\* The process dies: its memory of posted keys dies with it.
Crash(w) ==
    /\ reaper[w] # "down"
    /\ crashed[w] < MaxCrashes
    /\ crashed' = [crashed EXCEPT ![w] = @ + 1]
    /\ hand' = [hand EXCEPT ![w] = Free]
    /\ fresh' = fresh \ {w}
    /\ reaper' = [reaper EXCEPT ![w] = "down"]
    /\ timer' = [timer EXCEPT ![w] = 0]
    /\ stuck' = [stuck EXCEPT ![w] = {}]
    /\ seen' = seen \ {w}
    /\ UNCHANGED <<limits, queue, phase, posts, alerted, timed>>

\* Mutant: the reaper sweeps before it first sleeps.
RestartSweeping(w) ==
    /\ reaper[w] = "down"
    /\ reaper' = [reaper EXCEPT ![w] = "sleep"]
    /\ UNCHANGED <<limits, queue, loops, timer, stuck, seen, phase, history>>

\* run_worker starts a reaper, which sleeps first.
Restart(w) ==
    /\ reaper[w] = "down"
    /\ BackToSleep(w)
    /\ UNCHANGED <<limits, queue, loops, seen, phase, history>>

\* Time passes while no reaper is due to wake or to end its sweep; with the
\* interval the key of the pages changes.
Tick ==
    /\ \A w \in Worker : reaper[w] = "down" \/ timer[w] > 0
    /\ timer' = [w \in Worker |-> IF reaper[w] = "down" THEN 0 ELSE timer[w] - 1]
    /\ age' = [j \in Job |-> IF j \in stamped /\ age[j] < Horizon THEN age[j] + 1
                             ELSE age[j]]
    /\ phase' = (phase + 1) % Interval
    /\ IF phase' = 0 THEN seen' = {} /\ posts' = 0 ELSE UNCHANGED <<seen, posts>>
    /\ UNCHANGED <<limits, place, stamped, deliveries, loops, reaper, stuck,
                   alerted, timed, crashed>>

Next ==
    \/ Tick
    \/ \E w \in Worker :
        \/ ClaimMove(w) \/ ClaimStamp(w) \/ Finish(w)
        \/ Reap(w) \/ Check(w) \/ Page(w) \/ SweepFails(w)
        \/ Crash(w) \/ Restart(w)

Spec == Init /\ [][Next]_vars

-----------------------------------------------------------------------------
(* Properties.                                                             *)

(***************************************************************************)
(* Under one key Slack takes no more pages than there are worker           *)
(* processes, however they crash and restart and whichever answers are     *)
(* lost.  (worker.py:404-410: the key is the number of the interval, the   *)
(* memory of it is the process's, and reapers sleep before they sweep)     *)
(***************************************************************************)
PagesBounded == posts <= Cardinality(Worker)

(***************************************************************************)
(* A deployment whose visibility timeout leaves room, after the stuck      *)
(* threshold, for an interval and two sweeps: a slow job is counted in a   *)
(* page Slack took before the job is taken from its driver, as long as one *)
(* worker process has been up, its sweeps undisturbed and its pages not    *)
(* refused.  (worker.py:378 and queue.py:109-126; of more than ten stuck   *)
(* jobs the page names ten, worker.py:396)                                 *)
(***************************************************************************)
LeavesRoom == limits.threshold + Interval + 2 * SweepTime <= limits.visibility
Steady == \E w \in Worker : crashed[w] = 0
Redelivered(j) == place[j] = "processing" /\ place'[j] \in {"pending", "dead"}
AlertedBeforeReaped ==
    [][\A j \in timed : LeavesRoom /\ Steady /\ Redelivered(j) => j \in alerted]_vars

(***************************************************************************)
(* When the visibility timeout is shorter than the stuck threshold by the  *)
(* time of a sweep, as with the defaults (config.py:67, 73: 300 and 1800), *)
(* a page names no job whose claim has written its time: the sweep has     *)
(* redelivered the old claims, and the others do not reach the threshold   *)
(* before it looks for stuck ones, although it reads the clock again       *)
(* (queue.py:72, 118).  The alert config.py:71-72 and OPERATIONS.md:70     *)
(* describe can then only be a false one.                                  *)
(***************************************************************************)
ReapedFirst == limits.visibility + SweepTime <= limits.threshold
SilentWhenReapedFirst ==
    [][ReapedFirst => \A w \in Worker : \A j \in stuck'[w] \ stuck[w] :
        j \notin timed]_vars
=============================================================================
