# TLA+ models of the Enterprise AI Operations Agent

The agent accepts a support request over HTTP, queues it on Redis, and lets
worker processes drive it through a LangGraph pipeline (classify, extract,
retrieve, open a Jira ticket, draft and send a reply, notify Slack, report)
with checkpoints, artifacts and cost in PostgreSQL. What is hard about it is
not any one function. It is that several worker processes, each with two
coroutines, API calls and operators share a queue and a row, that any of them
may die between two commands, and that every external call may time out after
it took effect. These modules model that part.

## Inventory

| Component (source) | State | Operations | Talks to |
|---|---|---|---|
| Job queue (`app/jobs/queue.py`) | lists `pending`, `processing`, `dead`; hashes `heartbeats`, `deliveries` | enqueue, claim, ack, reap, requeue_from_dead, depths | API, worker loop, reaper |
| Worker loop and reaper (`app/jobs/worker.py` `run_worker`, `_reaper_loop`) | the job in hand, the sweep in progress | claim / process / ack, sweep, shutdown, alert on stuck jobs | queue, driver, Slack |
| Request driver (`worker.py` `process_request`) | local state of a run | `_begin`, load, checkpoint loop, `finalize_run`, `_persist_cost`, `fire_callback`, `_handle_failure` | database, pipeline, queue |
| Persistence (`app/db`) | request row, run_step, artifact, llm_call_log | one transaction per repository use, READ COMMITTED, no row locks | driver, API, breaker |
| Request API (`app/api/routes_requests.py`, `routes_system.py`) | none | submit (queued, inline, streamed), batch, retry, replay of dead letters | database, queue, driver |
| Pipeline (`app/graph`) | the agent state of a run | the nodes, the confidence gate, the reply gate, `retry_async` | adapters |
| Real adapters (`app/adapters/jira`, `email`, `slack`) | Slack: keys seen by the process | search and post, send, notify | outside world |
| Cost and breaker (`app/cost.py`, `_select_pipeline`, `add_llm_calls`, failover) | contextvar ledger, log | record, persist, select | LLM adapters, database |
| Rate limiter (`app/security/rate_limit.py`) | one Redis counter per identity | check | API |
| Failover chain and guardrails (`app/adapters/llm/failover.py`, `app/guardrails.py`) | none | complete, embed, check_reply | pipeline, breaker |
| Stuck-job alerts (`worker.py` `_check_stuck_jobs`, `queue.py` `stuck_jobs`) | the keys a notifier has posted under | the second half of a sweep | queue, Slack |
| Knowledge store (`app/adapters/knowledge`, `scripts/seed_knowledge.py`) | the Qdrant collection and its points | ensure_ready, upsert, search | pipeline, start-up, failover chain |
| Evaluation harness (`evals`) | the results so far | run_cases, summarize, guardrail_catch_rate, the exit code | nodes, guardrails |
| Egress guard, authentication, sandbox adapters, configuration, UI, metrics | | | see *Not modelled* |

Hard behaviours: a queue operation is several Redis commands and every gap is
an interleaving point; a sweep decides on a snapshot, a clock reading and a
claim time that may all be stale; a job delivered twice has two drivers writing
one row; commit and enqueue are two systems; a crash or a redelivery restarts
a run from its first node; lost responses make retries repeat effects; the
cost of a run is visible to the breaker only after the run; INCR and EXPIRE
are two commands; every process provisions one collection, and a single
embedding may come from another model than the stored ones; an alert competes
with the redelivery of the very jobs it is about.

What makes each part correct: the queue neither loses nor multiplies a job, and
parks a poison job; a request ends, with a status backed by its checkpoints,
artifacts stored once and a cost that matches its log; an
external effect is repeated only on the occasions the code leaves open and the
record claims only what happened; the log accounts for every charge that has not
leaked in a known way; one window admits no more than its limit, and closes; vectors
of two models are never compared and a reported seeding is complete; a slow job
is alerted before it is taken away, where the settings allow it, and pages do
not pile up; an evaluation passes only if every case was scored and the
guardrail works.

## Modules

| Module | Models |
|---|---|
| `JobQueue` | the Redis queue, command by command, with the worker loops, reapers and operators that issue the commands |
| `AtLeastOnceQueue` | what the queue promises: copies of an id wait, are held or are dead |
| `JobQueueProofs` | proofs about `JobQueue`: types, at-least-once, copies and counters, the refinement |
| `RequestRun` | the life of one request in the database, its drivers and the API calls, fed by `AtLeastOnceQueue` |
| `RequestRunProofs` | proofs about `RequestRun` |
| `PipelineEffects`, `PipelineEffectsProofs` | the nodes, retries and external effects of the runs of one request |
| `BudgetBreaker`, `BudgetBreakerProofs` | ledgers, log, breaker and midnight |
| `RateLimiter`, `RateLimiterProofs` | the counter of one identity under concurrent calls |
| `StuckAlerts`, `StuckAlertsProofs` | the alert about stuck jobs beside the redelivery it shares a sweep with, over time |
| `KnowledgeStore`, `KnowledgeStoreProofs` | the Qdrant collection, the processes that provision and fill it, the runs that search it |
| `EvalGate`, `EvalGateProofs` | the evaluation that gates a change, with its scores and its exit code |
| `MC*` | instances for TLC, with symmetry where no liveness is checked |

`JobQueue` refines `AtLeastOnceQueue` (an entry in a reaper's hand is still
held, one in an operator's hand still dead), and `RequestRun` instantiates the
same abstract queue, so what is checked of requests rests on a queue the real
commands were shown to implement. `PipelineEffects` opens up the nodes that
`RequestRun` treats as one step, `BudgetBreaker` the model calls inside them and
`KnowledgeStore` the search of `retrieve`. `StuckAlerts` looks at the sweep of
`JobQueue` over time instead of command by command.

### JobQueue and the code

Each action is one Redis command. `claim` is `ClaimMove`, `ClaimStamp`; `ack`
is `AckList`, `AckBeat`, `AckCount`; `reap` is `SweepStart` (clock and LRANGE),
`SweepCheck` (HGET per entry), `ReapRemove`, `ReapBeat`, `ReapCount`, then
`ReapReturn`, or `ReapBury` and `ReapForget`; `requeue_from_dead` is
`ReplayRemove`, `ReplayClear`, `ReplayPush`. `pending` is a sequence because
its order is used; `processing` and `dead` are only pushed to, counted, scanned
and removed from by id, so they are copy counts. A claim time is "none",
"fresh" or "old" (older than the visibility timeout), and a sweep remembers
which ids were old at its own clock reading, which a later stamp refutes.
`process_request` is its end only: `Finish`, `Requeue` (after
`_handle_failure` enqueued the job again) or `Raise`. `returned` has the jobs a
driver has returned from, one way or the other: the attempt that `Requeue`
enqueues is a new entry of the queue, which the refinement (`Enqueue`) and
`RequestRun` follow further.

Faults are the constant `Faults`: `crash` (between moves), `midMove` (also in
the middle of one), `stop` (SIGTERM: the idle loop ends and cancels the reaper
at its await), `raise`, `redis` (an error inside a sweep) and `overrun` (a live
worker keeps a job longer than the visibility timeout).

### RequestRun and the code

One action per transaction or call of `process_request`: `BeginRead` and
`BeginMark` are the read and the commit of `_begin`, split because no lock
holds the row in between; `CheckStep` and `SaveStep` are `save_step`, the
unique key `uq_run_step_node` included; `Finalize`, `PersistCost`, `Callback`,
`HandleFailure`, `Requeue` and `Ack` follow the code in order. SQLAlchemy
writes only the columns that differ from what was read, so `BeginMark` leaves
the status alone when it read `running`. `stream` runs skip the terminal
checks of `_begin` and never re-queue, `inline` runs have no ack. The nodes
between classify and the report are one node `act`, since they always run in
that order. A node's failure is transient or permanent. `overlaps` counts the
runs that read the row while another driver was between its own read and its
last write, `late` the runs that failed after their terminal checkpoint: they are
history for the properties and guard nothing. Amounts of money are counts of model
calls, four for a run that reaches its report and one for a run held for review. `GET /requests/{id}` reads the row and then,
with a second statement, the artifacts, so `StatusAnswer` is the status now and
the artifacts of any later moment.

### The other modules

`PipelineEffects` follows `build_graph`. Of a model's answer it keeps what later
steps depend on: whether the classification is sure enough (`sure`, read by
`RouteAfterClassify`), whether an address was extracted (`address`), and whether
`check_reply` finds a violation in the draft (`Verdict`; `EvalGate` opens that
check up).
`retrieve` is an embedding and a query, `create_ticket` a search and a post,
`draft_reply` a draft and a send, `notify` a post guarded by the process's own
set. `retry_async` restarts the operation up to `max_attempts`; `ResponseLost`
is a call that took effect and timed out. Models may answer differently on
every run, as the failover chain and the breaker swap them, and raise only
permanent errors, as the chain ends in the sandbox model (`AsksModel`).

`BudgetBreaker` has one call per step: `Complete` gives what the first provider
of the chain, or after a transient failure of it the second, charges and
records. Prices come from a small set, and `LeakKinds` names the five ways a
charge leaves no record: a run that raises, an embedding call, a streamed run,
a charge for a call whose client had timed out, a model without a price. A
`Slot` is one run in progress: the breaker is consulted by worker processes, one
run at a time, and by every request an API process drives inline, so the number
of slots is a parameter and not the number of processes. `carried` and `leaked`
are history: what the ledgers held at midnight, and whether a charge of the day
has left no record.

`RateLimiter` is INCR, EXPIRE, the decision and TTL; time passes in ticks and Redis
deletes the key at zero. A command that fails, executed or not, lets its call
through (`IncrFails`, `FailOpen`, `rate_limit.py:39-41`): `admitted` counts these
calls too and `opened` counts them alone. At `MaxCount`, which is past the limit,
the counter stays, as all values beyond the limit are treated alike.

### StuckAlerts, KnowledgeStore, EvalGate and the code

`StuckAlerts`: `Reap` and `Check` are the two halves of a sweep (`worker.py:375-382`),
`Page` is `notify` with the key of the current interval. Each of the three reads
the clock for itself (`queue.py:72`, `queue.py:118`, `worker.py:406`), and up to
`SweepTime` ticks may pass between the first reading and the page. A page counts
as an alert about every job its text counts that is still in flight when Slack
takes it; the text names the first ten of them (`worker.py:396`). Time is
relative: a claim has an age that grows no further than the longer of the two limits, a
sleeping reaper the ticks it has left, and the clock is kept modulo the
interval. A claim is two steps, because a
claimer that stamps late leaves a claim time behind for the next claim; the
other interleavings inside `reap` are the subject of `JobQueue`. The entry of a
job is single here (copies are the subject of `JobQueue`, where re-enqueues
are). The settings are chosen in `Init`: the two limits are configured
independently.

`KnowledgeStore`: `CheckExists` and `Create` are `ensure_ready`, run by servers
that suppress its error and by seed scripts that end with it; `SeedEmbed` and
`SeedUpsert` the rest of the script; `RunEmbed`, `RunSearch` and
`RunSearchFails` the retrieve node with `retry_async` and the attempts of the
request. A vector is the space it comes from, and a space has a size: what
Qdrant refuses follows from the sizes. The limit of a search, `top_k` = 5, is left
out: the corpus has four documents (`SEED_DOCS`), which one answer holds. A worker that dies in a run is left to
`RequestRun`. The deployment (which links the chain has, which vector size is
configured) is chosen in `Init`.

`EvalGate`: `Classify` and `Extract` are a case of `run_cases`, `ModelFails` an
exception of either, `Summarize` the summary and the exit code `_run` returns. The
traceback of an exception ends the process with status 1 as well: who reads only
the status of the process cannot tell it from a missed threshold, so
`NothingSkipped` speaks of the exit codes `_run` returns. The scores are
translated with their special cases, on fractions instead of floats. What is
evaluated is a change, so the guardrail is any of a set of weakened ones: each
poisoned draft is the set of the checks it trips.

## Runs

| Run | Checks | Bounds and why they are enough |
|---|---|---|
| `queue_core` | `TypeOK`, `NoJobLost`, `PoisonBound`, `CounterKeptUntilParked`, refinement of the abstract queue, `FinishedOrParked`, `ProcessingDrains` | one job, two workers with reapers, one operator, one crash, overruns, one redelivery before the dead letters: two sweeps race each other, a claim, an ack and a replay; jobs share only the FIFO, every command names its id. One entry of the job at most is in flight here, several in `queue_faulty` |
| `queue_faulty` | `SingleCopy`, refinement with losses | every fault, one re-enqueue, so two copies of an id are in flight |
| `request_all` | `TypeOK`, `StatusHasCheckpoint`, `ArtifactsOnce`, `CostMatchesLog`, `RunsBounded`, `CallbackIsFinal`, `ReportFollowsStatus`, `OutcomeIsFinal` | every fault (one fault per behaviour, node failures unlimited), two workers and an API driver, two attempts, one retry call: two drivers of a request, a retry while copies are held, a redelivery at every step |
| `request_live` | `NoStrandedRequest`, `EveryRequestEnds` | failing nodes and a crash |
| `effects` | `TypeOK`, `RecordClaimsHappened`, `RepliesBounded`, `TicketsBounded` | two workers, three runs, two attempts, every fault |
| `budget` | `TypeOK`, `LogAccountsForCharges`, `RecordedOverrunBounded` | two runs at once, cap 4, prices 1 and 2, runs of four calls as in the code (classify, extract, draft, report), one midnight, so that a day starts with ledgers carried into it; `MaxSpend` 20 is the bound the property speaks of (4 + 2 * 4 * 2), so that it could be reached |
| `limiter` | `TypeOK`, `AdmittedBounded`, `WindowCloses` | three calls, limit 2, window 2, crashes and Redis errors, two calls let through on an error per counter |
| `alerts` | `TypeOK`, `PagesBounded`, `AlertedBeforeReaped`, `SilentWhenReapedFirst` | two jobs, two processes with one crash or failed sweep each, interval 2, a tick for a sweep, the limits 1/2 (visibility timeout and threshold; the boundary where the sweep redelivers first) and 5/1 (the least visibility timeout that leaves room for an interval and two sweeps after the threshold). It is the longest run |
| `knowledge` | `TypeOK`, `NoMixedSpaces`, `PointsStay`, `SeededIsFound` | two servers, two seed scripts, two requests, two documents, two attempts, every fault; the provider with its fallback, the sandbox model alone with its own size, and with the default one |
| `evals` | `MacroIsMeanDice`, `NothingSkipped`, `PassMeansGuarded` | every outcome of up to three cases over three labels, so a label may occur on either side only; thresholds 2/3 and 1; the guardrail as it is, with each check lost, and one that holds every draft |
| `queue_recover`, `knowledge_degrade` | expected violations | the smallest instance that shows each |

Deadlock checking is off for `RequestRun` and `PipelineEffects`, where a request
that is over has nothing left to do, for `EvalGate`, which exits, and for
`knowledge_degrade`, whose only request fails.

The two violation runs show where the code departs from its own words:

* `queue_recover`: the sweep treats an entry without a claim time as expired
  (`queue.py:78`), and a claim writes the time after the move. Swept in
  between, a job just claimed is delivered again, and the first ack removes the
  only entry the other driver's job had; a crash then loses it.
* `knowledge_degrade`: `embed` falls through to the sandbox model like
  `complete` (`failover.py:53`), whose vectors have 16 components where the
  collection takes 768. Qdrant refuses the search, which is a permanent error:
  a transient failure of the provider, which a retry would have survived, fails
  the run. `deps.py:88-89` promises the opposite.

### Limits stated in the properties

`ArtifactsOnce`, `CostMatchesLog`, `RunsBounded`, `OutcomeIsFinal`, `CallbackIsFinal`,
`RepliesBounded` and `TicketsBounded` speak of overlapping runs: with them the code
gives less. Overlaps need no overrun: a worker that re-queued its job and died
before the ack has left two copies, and two workers may drive them.

`OutcomeIsFinal` also exempts what follows a failure after the terminal
checkpoint (`late`): an error of `_persist_cost`, or of the row's read in
`fire_callback`, is handled as a failure of the run (`worker.py:98-109`) and marks a
finished request failed. `worker.py:238` says "a callback failure is logged but
never fails the job or the run": the code does not keep that, and the property
says when it matters. It and `ReportFollowsStatus` exclude retry calls that act on
the same failure (`doubled` counts the ones that read `failed` while another was
between its read and its commit): each enqueues a copy, and the driver of one may
find the terminal checkpoint of the other's run and settle the status
(`worker.py:133`) before that run has stored its artifacts. `CallbackIsFinal`
excludes retry calls altogether: what was posted is a failed status they reset.

`RepliesBounded` allows a second email on three occasions and no other: the answer
of a send was lost, a run was begun after an email had gone out, or a run was begun
during another. That is less than the repository says, see `smtp.py` below.

`LogAccountsForCharges` says that log and ledgers are exactly what was charged on
the day and carried into it while nothing has leaked, and never more; that much
does leak is under *Observed*.

`AdmittedBounded` allows one call more for every call an error of its own let
through. `SilentWhenReapedFirst` needs the threshold to exceed the visibility
timeout by the time of a sweep: the sweep reads the clock for the expired claims
and again for the stuck ones, so that with equal limits a claim just short of both
at the first reading is paged about after the second.

### Fairness

`FairSpec` of `JobQueue`: weak fairness for each worker loop and each reaper (a
process keeps scheduling its coroutines, and a run ends because every adapter
call has a timeout), for the rest of a replay call once begun, for time
(`Expire`) and for `Restart`. The last is an assumption on the deployment: the
repository's docker-compose file gives the worker no restart policy, and
without it a queue whose workers all died stands still. No fairness is assumed
of submissions, retries, replays, crashes or faults. `RequestRun` assumes the
same of its drivers, of deliveries, of the sweep (`Redeliver`) and of API calls
in progress. `RateLimiter` assumes that time passes and that a call in progress
is not suspended for ever.

## Proofs

Every theorem holds for all values of the constants under the assumptions the
module names, and every run whose module extends it evaluates those.

`JobQueueProofs`, for any sets of jobs, processes and operators, any bounds and
any faults:

* `TypeCorrect`: `Spec => []TypeOK`.
* `AtLeastOnce`: if no fault can end a move half-way or make `process_request`
  raise (`~Lossy`), `Spec => []NoJobLost`. `NoJobLost` alone is not inductive:
  an ack removes a copy of the id, whoever's it is, so one must know that the
  job of an acking worker has returned (`AckedFinished`), and that a process
  that is down holds nothing in its reaper's hand (`DownTogether`). The
  invariant is the conjunction of these with `TypeOK` and `NoJobLost`. The
  assumption is needed: see the observations below.
* `OneCopy`: `Spec => []SingleCopy`. The five places (three lists, the hands of
  reapers and of operators) are disjoint for an unfinished job, each holds it
  once (`AtMostOne`), and only submitted jobs are anywhere (`SubmittedOnly`).
  The heart is `CopiesReaper`: the LREM of one sweep takes what the LREM of the
  other must find. `AtMostOnePlace` turns this into the set of places the
  property speaks of.
* `PoisonParked`: `Spec => []PoisonBound`. On top of `OneCopy`: a job becomes
  runnable only where its counter is known to be within the limit
  (`RunnableStep`), and a count beyond the limit happens while the job is in
  one hand and nowhere else (`BuryStep`).
* `CounterKept`: if `process_request` does not raise,
  `Spec => CounterKeptUntilParked`. An ack clears counters of finished jobs
  only (`AckingFinished`).
* `Implements`: `Spec => RefinesAtLeastOnce`, for finite sets of processes and
  operators. The mapping counts positions on the list and hands, so the lemmas
  say what LPUSH and BLMOVE do to the number of positions (`CountPush` by a
  bijection, `CountPop`) and what taking and giving does to the number of hands. Then one lemma per command gives its
  abstract step; only `TypeInv` is needed beside it. Two replays of one id may
  race, so `Collapse` leaves any number of dead copies down to one.

`RequestRunProofs`, for any finite set of workers, bounds and faults:

* `TypeCorrect`: `Spec => []TypeOK`.
* `OutcomeIsCheckpointed`: `Spec => []StatusHasCheckpoint`. The strengthening is
  `FinalizesStored`: a driver about to finalize has its node among the
  checkpoints. It survives races because checkpoints are never removed and
  `SaveStep` either stores the node or finds it stored.
* `OneBatch` (`[]ArtifactsOnce`), `CostIsLogged` (`[]CostMatchesLog`),
  `AttemptsLimited` (`[]RunsBounded`), `CallbackTruthful` (`[]CallbackIsFinal`) and
  `OutcomeStays` (`OutcomeIsFinal`), all from one inductive invariant `HistoryInv`.
  `DriverSteps` first reduces every command of a driver to one of eleven
  outlines (`Begins`, `Settles`, `Marks`, ... `Ends`), and `OutsideSteps` says what
  the API and the queue do to the record and to the drivers. The parts of the
  invariant:
  `StreamFirst`: a stream that has not read its row is the first to touch the
  request, which is why it may begin without looking at the checkpoints.
  `ArtifactInv`: the stored batches and the runs that may still store one are
  together at most one more than the overlaps; a run begins alone only where
  there is no terminal checkpoint, thus no batch. It counts drivers, hence the
  finite set of workers.
  `OneRun`, without overlaps: one driver at most is between its start and its
  cost, nothing is decided until it stores the terminal checkpoint, the log is
  empty until its cost.
  `AttemptsCount`, without overlaps: the row, and every run in progress, counts
  the runs begun but for one per fault.
  `LastWord`, without overlaps and retries: one driver at most is between its
  start and its callback, and what was posted is the terminal status of the row,
  which no driver will move.
  `Settled`, without overlaps, two retry calls on one failure and late failures:
  one driver at most is in its run, it fails only before a terminal checkpoint is
  stored, a failed row is in nobody's run and at most one retry call acts on it.
* `NothingStranded`: `Survivable => (Spec => []NoStrandedRequest)`. The property
  accepts any driver that is not idle; that is too weak to be kept, since a
  driver waiting for its ack decides nothing any more. `StrandInv` says what an
  undecided row really has: a copy on the queue, an API call, a claim whose
  worker is gone, or a driver that will still settle it or hand it back
  (`Charged`); and, unless claims expire early, that a claim is held for every
  worker with a delivery. `DriverCopies` and `OutsideCopies` reduce the steps to
  what they do to copies. `Survivable` is what the claim needs, not what the
  proof needs: a dead API call, a failed transaction or enqueue, or an early
  expiry followed by a crash each strand a request (TLC finds the run as soon as
  the fault is in `Faults`), and the faults of `request_live` satisfy it.
* `AnswersAgree`: `Spec => ReportFollowsStatus`. Without faults and racing retry
  calls there is one copy of the job at most (`SingleCopy`), and then status,
  terminal checkpoint and artifacts move together (`ArtifactsMatch`).

`PipelineEffectsProofs`, for any workers, bounds and faults:

* `TypeCorrect`, and `RecordIsTrue`: `Spec => []RecordClaimsHappened`. The
  record is written from a run's own state, so the invariant `ClaimInv` says the
  same of every run in progress, and that a process remembers a key only after
  a post.
* `OneTicket`: `Spec => []TicketsBounded`. `OverlapInv` counts the workers that
  have searched, found nothing and not posted yet with the tickets there are,
  and bounds both by the overlaps: a search finds every ticket posted before it.
* `RepliesLimited`: `Spec => []RepliesBounded`. `ReplyInv` counts the runs that may
  still send (`Repliers`) as if they had sent; `ReplyMoves` lists the four ways a
  step of a worker can change that count.

`RateLimiterProofs`, for any calls, limit, window and faults: `TypeCorrect`, and
`LimitHolds`: `Spec => []AdmittedBounded`. `AdmissionInv` adds the calls that
received a value within the limit and have not been told yet: admitted and
entitled calls together, those let through on an error aside, are at most the
counter, and at most the limit.

`KnowledgeStoreProofs`, for any clients, documents, deployments and faults:
`TypeCorrect`; `SpacesKeptApart` (`[]NoMixedSpaces`); `StoreOnlyGrows`
(`PointsStay`); `CorpusIsFound` (`SeededIsFound`). `StoreInv` says that stored
vectors and answered queries have the size of the collection (`SizesMatch`),
that only seeders hold a vector to write, that a seeder which reported success
left every document stored (`SeedersTellTruth`) and that a run keeps the bounds
of its attempts (`RunsLeft`).

`StuckAlertsProofs`, for any jobs, finite set of processes, limits and faults:
`TypeCorrect`, and

* `PagesLimited`: `Spec => []PagesBounded`. Who has posted under the current key
  sleeps past its end, also when it is started again, as one sleep is as long as
  a key lives. `PageInv`: the posts and the processes that may still sweep under
  the key (`MayPage`) are together at most the processes.
* `SlowJobsAlerted`: `Spec => AlertedBeforeReaped`. `AlertInv` follows the
  undisturbed processes: one asleep wakes before an unannounced claim is an
  interval and a sweep older than the threshold (`Wakes`), and its page is out
  before the claim is older than `Ends`, thus before any sweep may find it expired.
* `AlertsNoTimedClaim`: `Spec => SilentWhenReapedFirst`. What the first half of a
  sweep leaves behind is younger than the visibility timeout, and grows older by
  the ticks the sweep has used, at most `SweepTime`, until the second half reads
  the clock (`ReapedInv`).

`BudgetBreakerProofs`, for any finite set of slots, prices, cap, number of midnights
and unlogged uses of the model: `TypeCorrect`, and

* `LogIsCharged`: `Spec => []LogAccountsForCharges`. It is inductive with the types,
  given that an answer records no more than it charges (`CallRecords`) and that
  every step which drops a charge says so in `leaked`; a midnight moves the ledgers
  to `carried`.
* `OverrunLimited`: `Spec => []RecordedOverrunBounded`. The property is not
  inductive: a run that has read the log has not spent yet. `CommitInv` counts a
  paid run with all it may cost and any other with its ledger, and bounds the log
  and these commitments; `RunInv` says that a ledger is within the price of its
  calls, and empty unless the run read the log below the cap.

Both are about sums over the slots, which the model writes as a fold. `Total`
is the same sum as a cardinality, of the pairs `<<s, i>>` with i up to the number
of s; `SumIsTotal` shows that the fold computes it, whatever element it picks
next, and `TotalUpdate`, `TotalMonotone` and `TotalBounded` follow from the facts
on finite sets. The library's induction theorems cannot be used (see below), so
`SubsetInduction` says what is needed of a collection of sets instead of an
operator, and is proved from the minimal elements of a well-founded order.

`EvalGateProofs`, for any labels, guardrails, thresholds and size of the dataset:
`TypeCorrect`, and

* `EveryCaseScored`: `Spec => []NothingSkipped`. `Progress` says that the results
  are as many as the cases begun, but for the one in hand.
* `SuccessMeansGuarded`: `Spec => []PassMeansGuarded`. At the default threshold
  the five poisoned drafts must all be caught (`FiveDrafts`, `RateOfOne`), and each
  of them is caught by one check.
* `MacroScore`: `Spec => []MacroIsMeanDice`. `F1IsDice` is the algebra, with the
  special cases for a count of zero; `FoldsSame` shows that fractions which
  differ in form only have sums that do, by size of the set, and `FoldExists`
  that the fold the model uses is defined at all.

Every safety invariant and every action property of the passing runs is stated
by one of these theorems. Only model-checked is liveness (`FinishedOrParked`,
`ProcessingDrains`, `EveryRequestEnds`, `WindowCloses`): liveness under fairness
and ENABLED are beyond the prover. So are the library's induction theorems, whose
hypothesis is an operator, and what a RECURSIVE definition computes; no module
uses one, and where a proof is by induction over a set or a size it goes by a
smallest counterexample.

## Observed in the code, without a run of their own

The models contain these behaviours, and the properties above are phrased
around them:

* `worker.py:345-348`: shutdown cancels the reaper wherever it waits, also
  between the LREM and the LPUSH of a move: the job is on no list. An error in
  `_begin` or `_handle_failure` makes `process_request` raise although
  `worker.py:340-342` says it never does, and the job is acked with its row
  left `queued` or `running`. `NoJobLost` is therefore checked and proved without
  these faults; `RefinesAtLeastOnce` and `SingleCopy` with them.
* `worker.py:133`: a process that dies between the last checkpoint and
  `finalize_run` leaves a request whose next delivery only settles the status;
  its artifacts are never stored.
* `rate_limit.py:33`: a process that dies between INCR and EXPIRE leaves a
  counter without end; `WindowCloses` speaks of counters that have one.
* `rate_limit.py:39-41`: an error of any of the three commands lets the call
  through, also one of TTL, when the call was already over the limit.
* `smtp.py:48-75`: a send has a deterministic Message-ID and no search before it, as
  tickets have. The answer of a send that is lost is retried (`nodes.py:219-223`),
  and a redelivery, a requeue after a later node's failure or a retry call drives
  the request from its first node and sends again; nothing on the server side of
  the code drops the copy. `docs/adr/0004-async-job-processing-redis.md:31-37`
  ("produces the ticket/email/notification **at most once**"),
  `docs/adr/0008-reliable-queue-and-observability.md:28-29`, `queue.py:16-17`,
  `routes_requests.py:174-175` and `docs/OPERATIONS.md:33-35` say that effects do not
  repeat. One failed run after the reply and an ordinary second attempt are
  enough for two emails, without any crash; `RepliesBounded` names the occasions,
  and leaves none but those. The same holds of Slack posts across processes.
* `queue.py:77-82`: a claim stamped between the check and the LREM is reaped
  all the same, though it is fresh.
* `queue.py:87-88`: a replay between the push to the dead letters and the HDEL
  of the counter has the reaper clear the counter of a live job.
* `worker.py:192`: `cost_usd` is overwritten with the total of the last run,
  while the log has the rows of every run that got there.
* `worker.py:247`: the callback's read is unguarded, a failure in it marks a
  completed request failed, against the words of `worker.py:238` (`late`); `:252`: it reports the status it reads then, which
  a retry call may have reset.
* `worker.py:306`: a failing enqueue after the commit of `queued` strands the row.
* `worker.py:98`: the ledger of a failed run is dropped, and
  `openai_compatible.py:101` records no usage for embeddings: the breaker sees
  neither, so a storm of failing runs never trips it.
* `routes_requests.py:183-191`: two retry calls that both read `failed` both
  reset and enqueue: two runs of one request.
* `routes_requests.py:98,125`: an API process that dies before the enqueue
  leaves a queued row nothing looks for.
* `jira/rest.py:53`: two overlapping drivers both find nothing and both post.
* `graph/nodes.py:306`: a re-driven run may end in needs_review after the
  first one acted.
* `slack/webhook.py:42`: another process, or the same one restarted, posts again.
* `docs/OPERATIONS.md:37-38,89` send exhausted attempts to the dead letters;
  the code marks the row failed, and dead letters come from redeliveries only.
* `docs/SECURITY.md:40` and `README.md:371` call the limiter per instance; the
  counter is in Redis and shared.
* `worker.py:404-410`: the key of the stuck-job alert changes with every sweep
  interval, so it is fresh in every sweep of a process and each of them pages.
* `worker.py:386,404` say "page once, not every sweep", and `worker.py:396` names ten
  jobs of however many: `PagesBounded` limits the pages of one key, and a job past
  the tenth is only in the count.
* With the default limits (300 < 1800 seconds) a claim that has written its time
  is redelivered long before it counts as stuck, so the alert `config.py:71-72`
  and `docs/OPERATIONS.md:67-70` describe never names one
  (`SilentWhenReapedFirst`); what it can name is a claim between its two commands.
* `queue.py:59`: a claimer that writes its time after the entry was reaped leaves
  a claim time that the next claim of the job starts with.
* `main.py:79`: a failed provisioning is never repeated, and every run of the
  process fails at retrieve; `/health`, which `main.py:76` says reports true
  readiness, looks at the database and Redis only.
* `LLM_MODE=sandbox` with `KNOWLEDGE_MODE=real` and the default vector size passes
  the start-up validation and fails every retrieve (the third deployment of
  `MCKnowledgeStore`).
* `GET /requests/{id}` may answer `running` with the artifacts of the finished
  run, as its two statements are not one snapshot; `ReportFollowsStatus` speaks
  of terminal statuses.
* `evals/guardrails.py:7` says a weakened guardrail shows up as a dropped catch:
  not for the phrases "ignore all previous" and "as an ai model", which no draft
  contains, nor for one of several phrases of the same draft.
* `evals/metrics.py` (`extraction_report`): an address made up for a case that has
  none counts nowhere.
* `slack/webhook.py:6` puts replay safety across processes on the checkpoints; a
  re-driven run executes `notify` again whatever is checkpointed.

## Not modelled

The egress guard and the delays of the retry back-off are pure functions: a
refused callback is one that may not be posted. Authentication and token checks
are stateless and rest on library cryptography; sandbox adapters other than the
model are stand-ins, and the word-overlap ranking of the in-memory knowledge
store is part of them; configuration, UI, health, metrics, logging, tracing and
migrations are input and output, and the other scripts one-shot measurements.
Of the API, service accounts, listing, the cost report and the other reads keep
no state. The labelled messages of the evaluation, its priorities, confidences,
latencies and formatting are reported only.

## Plan

Done: `JobQueue` with its abstraction, `RequestRun` on top of it, the effects, the
budget, the limiter, the alerts, the knowledge store and the evaluation gate;
the refinement, every safety invariant and every action property are proved.

Left, in this order:

1. The refinement's counterpart on the side of requests: what `RequestRun` assumes
   of claims (`Expired`) as a lemma about `JobQueue`.
2. The composition of `KnowledgeStore` with `RequestRun`: a run that fails for good
   because of the collection ends its request.
3. The cost report and the listing of requests against a moving log, if a
   promise about their consistency appears.
