----------------------------- MODULE RequestRun -----------------------------
(***************************************************************************)
(* The life of one request: the row, checkpoints, artifacts and cost that  *)
(* PostgreSQL keeps for it (app/db), the API calls that create, retry and  *)
(* stream it (app/api/routes_requests.py) and process_request, the driver  *)
(* every worker runs for each delivery (app/jobs/worker.py).  Deliveries   *)
(* come from AtLeastOnceQueue, which JobQueue implements.                  *)
(*                                                                         *)
(* A database transaction whose writes do not depend on what it read is    *)
(* one step; the ones that decide on what they read are a read and a       *)
(* commit, because nothing locks the row in between (READ COMMITTED).      *)
(***************************************************************************)
EXTENDS Naturals, FiniteSets

CONSTANTS
    Req,          \* the request
    Worker,       \* worker processes
    Modes,        \* how requests are submitted: queued, inline or streamed
    Api,          \* the submit call, when it drives the run itself
    MaxAttempts,  \* settings.max_attempts
    MaxRetries,   \* bound: calls of the retry endpoint
    MaxFaults,    \* bound: crashes and errors other than failing nodes
    Faults        \* what may go wrong, see FaultKinds

(***************************************************************************)
(* "transient", "permanent"  a node raises that kind of adapter error      *)
(* "crash"     a worker process dies                                       *)
(* "apiCrash"  the API process dies, or a streaming client disconnects     *)
(* "early"     a job is redelivered while its worker is still alive        *)
(* "db"        a database transaction of the driver fails                  *)
(* "redis"     the enqueue of a failed run fails                           *)
(***************************************************************************)
FaultKinds == {"transient", "permanent", "crash", "apiCrash", "early", "db", "redis"}

ASSUME ApiAssumption == Api \notin Worker
ASSUME WorkerAssumption == IsFiniteSet(Worker)
ASSUME AttemptsAssumption == MaxAttempts \in Nat \ {0}
ASSUME BoundsAssumption == MaxRetries \in Nat /\ MaxFaults \in Nat
ASSUME ModesAssumption == Modes \subseteq {"queue", "inline", "stream"}
ASSUME FaultsAssumption == Faults \subseteq FaultKinds

Driver == Worker \cup {Api}

VARIABLES
    row,        \* the request row: status, attempts, cost_usd
    steps,      \* nodes in run_step
    artifacts,  \* batches of artifacts committed by finalize_run, per outcome
    logged,     \* llm_call_log: calls recorded
    posted,     \* statuses POSTed to callback_url
    driver,     \* the process_request, or stream, call of every driver
    calls,      \* API calls between their commit and their enqueue
    retrying,   \* retry calls that have read a failed row and not committed
    waiting, held, dead,  \* the queue
    runs,       \* runs begun since the request was queued from outside (history)
    overlaps,   \* runs begun while another driver was in its run (history)
    late,       \* runs that failed after their terminal checkpoint (history)
    retries,    \* calls of the retry endpoint so far
    doubled,    \* those that read a row another one had read as failed (history)
    faults      \* faults so far

Q == INSTANCE AtLeastOnceQueue WITH Job <- {Req}, Lossy <- FALSE

record == <<row, steps, artifacts, logged, posted>>
queue == <<waiting, held, dead>>
api == <<calls, retrying, retries, doubled>>
history == <<runs, overlaps, late>>
vars == <<record, driver, api, queue, history, faults>>

\* "act" stands for extract, retrieve, create_ticket, draft_reply, notify and
\* persist, which always run in this order.
Node == {"classify", "act", "generate_report", "needs_review"}
TerminalSteps == {"generate_report", "needs_review"}
Outcome == {"completed", "needs_review"}
Terminal == Outcome \cup {"failed"}
Status == Terminal \cup {"queued", "running"}

OutcomeOf(node) == IF node = "needs_review" THEN "needs_review" ELSE "completed"
\* The terminal node whose output sets the status.
NodeOf(outcome) == IF outcome = "needs_review" THEN "needs_review" ELSE "generate_report"

\* LLM calls the ledger of a run holds when the run reaches each outcome: classify
\* alone, or classify, extract, draft_reply and generate_report.
LedgerOf(outcome) == IF outcome = "needs_review" THEN 1 ELSE 4

DriverPC == {"idle", "read", "mark", "load", "node", "check", "save", "finalize",
             "cost", "callback", "fail", "callbackFailed", "requeue", "ack"}
DriverState == [pc : DriverPC, mode : {"queue", "inline", "stream"},
                node : Node,                   \* node running or just run
                status : Status \cup {"none"}, seen : Nat, \* the row as _begin read it
                attempts : Nat,                \* the run's own attempt number
                retryable : BOOLEAN]
Idle == [pc |-> "idle", mode |-> "queue", node |-> "classify", status |-> "queued",
         seen |-> 0, attempts |-> 0, retryable |-> FALSE]

Row == [status : Status \cup {"none"}, attempts : Nat, cost : Nat]

StoreType ==
    /\ row \in Row /\ steps \subseteq Node /\ artifacts \in [Outcome -> Nat]
    /\ logged \in Nat /\ posted \subseteq Status \cup {"none"}
    /\ calls \in Nat /\ retrying \in Nat /\ retries \in Nat /\ doubled \in Nat
    /\ runs \in Nat /\ overlaps \in Nat /\ late \in Nat /\ faults \in Nat
QueueType ==
    /\ waiting \in [{Req} -> Nat] /\ held \in [{Req} -> Nat] /\ dead \in [{Req} -> Nat]
DriverType == driver \in [Driver -> DriverState]

TypeOK == StoreType /\ QueueType /\ DriverType

Init ==
    /\ row = [status |-> "none", attempts |-> 0, cost |-> 0]
    /\ steps = {} /\ posted = {}
    /\ artifacts = [o \in Outcome |-> 0]
    /\ logged = 0
    /\ driver = [d \in Driver |-> Idle]
    /\ calls = 0 /\ retrying = 0 /\ retries = 0 /\ doubled = 0
    /\ Q!Init
    /\ runs = 0 /\ overlaps = 0 /\ late = 0 /\ faults = 0

-----------------------------------------------------------------------------
(* The API calls.                                                          *)

\* create_request commits; the call then enqueues, runs or streams the request.
Submit(mode) ==
    /\ row.status = "none"
    /\ row' = [row EXCEPT !.status = "queued"]
    /\ IF mode = "queue" THEN calls' = calls + 1 /\ UNCHANGED driver
       ELSE /\ driver' = [driver EXCEPT ![Api] = [Idle EXCEPT !.pc = "read", !.mode = mode]]
            /\ UNCHANGED calls
    /\ UNCHANGED <<steps, artifacts, logged, posted, retrying, retries, doubled, queue,
                   history, faults>>

EnqueueCall ==
    /\ calls > 0
    /\ calls' = calls - 1
    /\ Q!Enqueue(Req)
    /\ UNCHANGED <<record, driver, retrying, retries, doubled, history, faults>>

RetryRead ==
    /\ row.status = "failed"
    /\ retries < MaxRetries
    /\ retries' = retries + 1
    /\ retrying' = retrying + 1
    /\ doubled' = IF retrying > 0 THEN doubled + 1 ELSE doubled
    /\ UNCHANGED <<record, driver, calls, queue, history, faults>>

RetryCommit ==
    /\ retrying > 0
    /\ retrying' = retrying - 1
    /\ row' = [row EXCEPT !.status = "queued", !.attempts = 0]
    /\ calls' = calls + 1
    /\ runs' = 0
    /\ UNCHANGED <<steps, artifacts, logged, posted, driver, retries, doubled, queue, overlaps,
                   late, faults>>

\* An API call ends between its commit and its enqueue.
CallCrash ==
    /\ "apiCrash" \in Faults /\ faults < MaxFaults
    /\ calls > 0
    /\ calls' = calls - 1
    /\ faults' = faults + 1
    /\ UNCHANGED <<record, driver, retrying, retries, doubled, queue, history>>

-----------------------------------------------------------------------------
(* The queue.                                                              *)

Holding == {d \in Worker : driver[d].pc # "idle"}

Deliver(d) ==
    /\ driver[d].pc = "idle"
    /\ Q!Deliver(Req)
    /\ driver' = [driver EXCEPT ![d] = [Idle EXCEPT !.pc = "read"]]
    /\ UNCHANGED <<record, api, history, faults>>

\* The claim of a dead worker, or of a live one when faults allow it, expires.
Expired ==
    \/ held[Req] > Cardinality(Holding) /\ UNCHANGED faults
    \/ "early" \in Faults /\ faults < MaxFaults /\ faults' = faults + 1

Redeliver ==
    /\ Expired
    /\ Q!Redeliver(Req) \/ Q!Bury(Req)
    /\ UNCHANGED <<record, driver, api, history>>

ReplayDead ==
    /\ Q!Replay(Req)
    /\ UNCHANGED <<record, driver, api, history, faults>>

\* ack removes a copy of the id, when there is one.
Ack(d) ==
    /\ driver[d].pc = "ack"
    /\ driver' = [driver EXCEPT ![d] = Idle]
    /\ IF driver[d].mode = "queue"
       THEN Q!Ack(Req) /\ (held[Req] = 0 \/ held' # held)
       ELSE UNCHANGED queue
    /\ UNCHANGED <<record, api, history, faults>>

-----------------------------------------------------------------------------
(* process_request.                                                        *)

Goto(d, pc) == driver' = [driver EXCEPT ![d].pc = pc]

\* What a driver still knows when its run has failed, and when it is over.
Fail(d, retryable) ==
    driver' = [driver EXCEPT ![d] = [Idle EXCEPT !.pc = "fail", !.mode = driver[d].mode,
                                      !.attempts = driver[d].attempts,
                                      !.retryable = retryable]]
Leave(d, pc) == driver' = [driver EXCEPT ![d] = [Idle EXCEPT !.pc = pc, !.mode = driver[d].mode]]

See(d) == driver' = [driver EXCEPT ![d].pc = "mark", ![d].status = row.status,
                                    ![d].seen = row.attempts]

\* Drivers between their read of the row and their last write to its status.
InRun == {d \in Driver : driver[d].pc \in
            {"mark", "load", "node", "check", "save", "finalize", "fail"}}

CountOverlap(d) ==
    overlaps' = IF driver'[d].pc = "mark" /\ InRun # {} THEN overlaps + 1 ELSE overlaps

\* Mutant: the terminal checkpoints are not looked at.
BeginReadForgetful(d) ==
    /\ driver[d].pc = "read"
    /\ IF row.status \in Terminal THEN Leave(d, "ack") ELSE See(d)
    /\ CountOverlap(d)
    /\ UNCHANGED <<record, api, queue, runs, late, faults>>

\* Mutant: a terminal row does not end the call either.
BeginReadAlways(d) ==
    /\ driver[d].pc = "read"
    /\ See(d)
    /\ CountOverlap(d)
    /\ UNCHANGED <<record, api, queue, runs, late, faults>>

\* Mutant: the status is settled to the name of the node.
BeginReadNode(d) ==
    /\ driver[d].pc = "read"
    /\ LET settled == row.status \notin Terminal /\ steps \cap TerminalSteps # {}
       IN /\ IF settled \/ row.status \in Terminal THEN Leave(d, "ack") ELSE See(d)
          /\ row' = IF settled
                    THEN [row EXCEPT !.status = CHOOSE n \in TerminalSteps : n \in steps]
                    ELSE row
    /\ CountOverlap(d)
    /\ UNCHANGED <<steps, artifacts, logged, posted, api, queue, runs, late, faults>>

\* Mutant: whatever the run reached, the row is settled as completed.
BeginReadCompletes(d) ==
    /\ driver[d].pc = "read"
    /\ LET settled == row.status \notin Terminal /\ steps \cap TerminalSteps # {}
       IN /\ IF settled \/ row.status \in Terminal THEN Leave(d, "ack") ELSE See(d)
          /\ row' = IF settled THEN [row EXCEPT !.status = "completed"] ELSE row
    /\ CountOverlap(d)
    /\ UNCHANGED <<steps, artifacts, logged, posted, api, queue, runs, late, faults>>

\* _begin reads the row and the checkpoints.  A terminal row ends the call; a
\* terminal checkpoint settles the status and ends it; the stream looks at neither.
BeginRead(d) ==
    /\ driver[d].pc = "read"
    /\ LET ended == row.status \in Terminal
           settled == ~ended /\ steps \cap TerminalSteps # {}
           goOn == driver[d].mode = "stream" \/ ~(ended \/ settled)
       IN /\ IF goOn THEN See(d) ELSE Leave(d, "ack")
          /\ row' = IF goOn \/ ended THEN row
                    ELSE [row EXCEPT !.status = IF "needs_review" \in steps
                                                THEN "needs_review" ELSE "completed"]
    /\ CountOverlap(d)
    /\ UNCHANGED <<steps, artifacts, logged, posted, api, queue, runs, late, faults>>

\* _begin commits.  The ORM writes only the columns that differ from what it read.
BeginMark(d) ==
    /\ driver[d].pc = "mark"
    /\ LET n == driver[d].seen + 1
       IN /\ row' = [row EXCEPT !.status = IF driver[d].status = "running" THEN @ ELSE "running",
                                !.attempts = n]
          /\ driver' = [driver EXCEPT ![d] = [Idle EXCEPT !.pc = "load", !.attempts = n,
                                                            !.mode = driver[d].mode]]
    /\ runs' = runs + 1
    /\ UNCHANGED <<steps, artifacts, logged, posted, api, queue, overlaps, late, faults>>

\* _load_state and _select_pipeline only read: the run starts at its first node.
Load(d) ==
    /\ driver[d].pc = "load"
    /\ driver' = [driver EXCEPT ![d].pc = "node", ![d].node = "classify"]
    /\ UNCHANGED <<record, api, queue, history, faults>>

RunNode(d) ==
    /\ driver[d].pc = "node"
    /\ Goto(d, "check")
    /\ UNCHANGED <<record, api, queue, history, faults>>

\* The node raises an adapter error; needs_review calls no adapter.
NodeFails(d) ==
    /\ driver[d].pc = "node" /\ driver[d].node # "needs_review"
    /\ \E kind \in Faults \cap {"transient", "permanent"} : Fail(d, kind = "transient")
    /\ UNCHANGED <<record, api, queue, history, faults>>

\* Where the graph goes after a node; its last node leaves the loop.
Follow(d) ==
    LET next == CASE driver[d].node = "classify" -> {"act", "needs_review"}
                  [] driver[d].node = "act" -> {"generate_report"}
                  [] OTHER -> {}
    IN IF next = {} THEN Goto(d, "finalize")
       ELSE \E n \in next : driver' = [driver EXCEPT ![d].pc = "node", ![d].node = n]

\* save_step looks for an earlier checkpoint of the node and keeps it.
CheckStep(d) ==
    /\ driver[d].pc = "check"
    /\ IF driver[d].node \in steps THEN Follow(d) ELSE Goto(d, "save")
    /\ UNCHANGED <<record, api, queue, history, faults>>

\* save_step commits; another driver's checkpoint violates uq_run_step_node.
SaveStep(d) ==
    /\ driver[d].pc = "save"
    /\ IF driver[d].node \in steps
       THEN /\ Fail(d, FALSE)
            /\ UNCHANGED steps
       ELSE /\ Follow(d)
            /\ steps' = steps \cup {driver[d].node}
    /\ UNCHANGED <<row, artifacts, logged, posted, api, queue, history, faults>>

\* Mutant: a run that stops for review stores no artifact.
FinalizeReviewBare(d) ==
    /\ driver[d].pc = "finalize"
    /\ LET outcome == OutcomeOf(driver[d].node)
       IN /\ artifacts' = [artifacts EXCEPT !["completed"] =
                            IF outcome = "completed" THEN @ + 1 ELSE @]
          /\ row' = [row EXCEPT !.status = outcome]
    /\ Goto(d, IF driver[d].mode = "stream" THEN "callback" ELSE "cost")
    /\ UNCHANGED <<steps, logged, posted, api, queue, history, faults>>

\* finalize_run: artifacts and status in one transaction.
Finalize(d) ==
    /\ driver[d].pc = "finalize"
    /\ LET outcome == OutcomeOf(driver[d].node)
       IN /\ artifacts' = [artifacts EXCEPT ![outcome] = @ + 1]
          /\ row' = [row EXCEPT !.status = outcome]
    /\ Goto(d, IF driver[d].mode = "stream" THEN "callback" ELSE "cost")
    /\ UNCHANGED <<steps, logged, posted, api, queue, history, faults>>

\* Mutant: the ledger's rows are added and the request's total is not written.
PersistCostRowsOnly(d) ==
    /\ driver[d].pc = "cost"
    /\ logged' = logged + LedgerOf(OutcomeOf(driver[d].node))
    /\ Leave(d, "callback")
    /\ UNCHANGED <<row, steps, artifacts, posted, api, queue, history, faults>>

\* _persist_cost: the run's ledger, and its total on the request.
PersistCost(d) ==
    /\ driver[d].pc = "cost"
    /\ LET total == LedgerOf(OutcomeOf(driver[d].node))
       IN /\ logged' = logged + total
          /\ row' = [row EXCEPT !.cost = total]
    /\ Leave(d, "callback")
    /\ UNCHANGED <<steps, artifacts, posted, api, queue, history, faults>>

\* fire_callback, after a finished run or a failed one, POSTs the status it reads
\* now.  That nothing is sent when there is no URL, it is refused (again, after
\* the check at intake: its host may resolve elsewhere now) or does not answer,
\* is only logged.
Callback(d) ==
    /\ driver[d].pc \in {"callback", "callbackFailed"}
    /\ posted' \in {posted, posted \cup {row.status}}
    /\ Leave(d, "ack")
    /\ UNCHANGED <<row, steps, artifacts, logged, api, queue, history, faults>>

\* Mutant: the limit is compared one attempt too late.
HandleFailureLate(d) ==
    /\ driver[d].pc = "fail"
    /\ LET again == /\ driver[d].mode # "stream"
                    /\ driver[d].retryable
                    /\ driver[d].attempts <= MaxAttempts
       IN /\ row' = [row EXCEPT !.status = IF again THEN "queued" ELSE "failed"]
          /\ Leave(d, IF again THEN "requeue" ELSE "callbackFailed")
    /\ UNCHANGED <<steps, artifacts, logged, posted, api, queue, history, faults>>

\* Mutant: the run is marked for another attempt and never enqueued.
HandleFailureDrops(d) ==
    /\ driver[d].pc = "fail"
    /\ LET again == /\ driver[d].mode # "stream"
                    /\ driver[d].retryable
                    /\ driver[d].attempts < MaxAttempts
       IN /\ row' = [row EXCEPT !.status = IF again THEN "queued" ELSE "failed"]
          /\ Leave(d, IF again THEN "ack" ELSE "callbackFailed")
    /\ UNCHANGED <<steps, artifacts, logged, posted, api, queue, history, faults>>

\* _handle_failure commits; the stream's own handler always marks it failed.
HandleFailure(d) ==
    /\ driver[d].pc = "fail"
    /\ LET again == /\ driver[d].mode # "stream"
                    /\ driver[d].retryable
                    /\ driver[d].attempts < MaxAttempts
       IN /\ row' = [row EXCEPT !.status = IF again THEN "queued" ELSE "failed"]
          /\ Leave(d, IF again THEN "requeue" ELSE "callbackFailed")
    /\ UNCHANGED <<steps, artifacts, logged, posted, api, queue, history, faults>>

\* Mutant: the callback is fired for a failure that will be tried again.
RequeueCallsBack(d) ==
    /\ driver[d].pc = "requeue"
    /\ Q!Enqueue(Req)
    /\ Leave(d, "callbackFailed")
    /\ UNCHANGED <<record, api, history, faults>>

Requeue(d) ==
    /\ driver[d].pc = "requeue"
    /\ Q!Enqueue(Req)
    /\ Leave(d, "ack")
    /\ UNCHANGED <<record, api, history, faults>>

-----------------------------------------------------------------------------
(* Faults.                                                                 *)

Fault(kind) == kind \in Faults /\ faults < MaxFaults /\ faults' = faults + 1

\* A transaction inside the try of the run fails, the callback's read of the
\* row included: the run has failed for good, late when it had stored its last
\* checkpoint.
RunDbFails(d) ==
    /\ driver[d].pc \in {"check", "save", "finalize", "cost", "callback"}
    /\ Fault("db")
    /\ Fail(d, FALSE)
    /\ late' = IF driver[d].pc \in {"finalize", "cost", "callback"} THEN late + 1 ELSE late
    /\ UNCHANGED <<record, api, queue, runs, overlaps>>

\* A transaction outside it fails: process_request raises, and is acked.
DriverRaises(d) ==
    /\ \/ driver[d].pc \in {"read", "mark", "load", "fail", "callbackFailed"} /\ Fault("db")
       \/ driver[d].pc = "requeue" /\ Fault("redis")
    /\ Leave(d, "ack")
    /\ UNCHANGED <<record, api, queue, history>>

Crash(d) ==
    /\ driver[d].pc # "idle"
    /\ Fault(IF d = Api THEN "apiCrash" ELSE "crash")
    /\ driver' = [driver EXCEPT ![d] = Idle]
    /\ UNCHANGED <<record, api, queue, history>>

-----------------------------------------------------------------------------
Drive(d) == \/ BeginRead(d) \/ BeginMark(d) \/ Load(d) \/ RunNode(d) \/ NodeFails(d)
            \/ CheckStep(d) \/ SaveStep(d) \/ Finalize(d) \/ PersistCost(d)
            \/ Callback(d) \/ HandleFailure(d) \/ Requeue(d) \/ Ack(d)

Next == \/ \E mode \in Modes : Submit(mode)
        \/ EnqueueCall \/ RetryRead \/ RetryCommit \/ CallCrash
        \/ \E d \in Worker : Deliver(d)
        \/ Redeliver \/ ReplayDead
        \/ \E d \in Driver : Drive(d) \/ RunDbFails(d) \/ DriverRaises(d) \/ Crash(d)

Spec == Init /\ [][Next]_vars

-----------------------------------------------------------------------------
(* Properties.                                                             *)

Active == {d \in Driver : driver[d].pc # "idle"}

(***************************************************************************)
(* ADR-0004:49-51: "we never silently drop work": a request that is not    *)
(* finished is on the queue, or some driver or API call still has it.      *)
(***************************************************************************)
NoStrandedRequest ==
    row.status \in {"queued", "running"} =>
        \/ waiting[Req] + held[Req] + dead[Req] > 0
        \/ Active # {}
        \/ calls > 0

(***************************************************************************)
(* A status is backed by the checkpoint of the node that decided it,       *)
(* whichever drivers raced and whichever settled the row after a crash.    *)
(* (worker.py: save_step precedes finalize_run; _begin settles from steps) *)
(***************************************************************************)
StatusHasCheckpoint == row.status \in Outcome => NodeOf(row.status) \in steps

\* GET /requests/{id}: the row, then its artifacts (selectinload, READ COMMITTED),
\* to which a transaction in between may have added.
StatusAnswer == [status |-> row.status,
                 artifacts |-> {o \in Outcome : artifacts'[o] > 0}]

\* GET /requests/{id}/report: the artifact decides, not the status.
ReportAnswer == IF row.status = "none" THEN "no request"
                ELSE IF artifacts["completed"] > 0 THEN "report" ELSE "no report yet"

(***************************************************************************)
(* As long as no process dies, no claim expires early, no transaction      *)
(* fails and no two retry calls act on the same failure, a caller who sees *)
(* completed gets the report, and one who is told of an outcome finds its  *)
(* artifact with it and no other, whatever commits between the two reads:  *)
(* through failing nodes, attempts and any number of retries status and    *)
(* record move together.  (finalize_run commits both; get_request_report   *)
(* looks for the artifact)                                                 *)
(***************************************************************************)
ReportFollowsStatus ==
    [][faults = 0 /\ doubled = 0 =>
        /\ StatusAnswer.status \in Outcome => StatusAnswer.artifacts = {StatusAnswer.status}
        /\ StatusAnswer.status = "completed" => ReportAnswer = "report"]_vars

(***************************************************************************)
(* Artifacts have no key of their own: only the terminal checkpoint keeps  *)
(* a re-drive, a redelivery or a retry from adding another batch of them,  *)
(* so there is one more at most for every run begun during another run.    *)
(* (_begin, finalize_run)                                                  *)
(***************************************************************************)
ArtifactsOnce == artifacts["completed"] + artifacts["needs_review"] <= 1 + overlaps

(***************************************************************************)
(* An outcome is final: no later delivery, attempt, failure, retry call or *)
(* settlement moves a row away from completed or needs_review, unless runs *)
(* overlapped, two retry calls read the same failure, or the run failed    *)
(* after its terminal checkpoint.  (_begin returns on a terminal row, the  *)
(* retry endpoint refuses one that is not failed.)  The last exception is  *)
(* the code's and not its comment's: worker.py:238 says "a callback        *)
(* failure is logged but never fails the job or the run", and the read of  *)
(* the row in fire_callback, or _persist_cost, fails a run that had its    *)
(* outcome.                                                                *)
(***************************************************************************)
OutcomeIsFinal ==
    [][row.status \in Outcome /\ overlaps = 0 /\ doubled = 0 /\ late = 0
          => row'.status = row.status]_vars

(***************************************************************************)
(* models.py:55: cost_usd is the "Total LLM spend for this request, summed *)
(* from llm_call_log at finalize": true unless runs overlapped, since      *)
(* every driver writes the total of its own run.  (_persist_cost)          *)
(***************************************************************************)
CostMatchesLog == overlaps = 0 => row.cost = logged

(***************************************************************************)
(* worker.py:5: transient failures are re-queued up to MAX_ATTEMPTS: since *)
(* it was last queued from outside, a request was begun no more often,     *)
(* except once more per fault (a redelivery does not look at the limit),   *)
(* unless runs overlapped: they overwrite each other's attempt number.     *)
(***************************************************************************)
RunsBounded == overlaps = 0 => runs <= MaxAttempts + faults

(***************************************************************************)
(* worker.py:236: the callback carries "the final status": what was posted *)
(* is a terminal status and the one the request keeps from then on, unless *)
(* a retry call or another run of the request has reset the row.           *)
(***************************************************************************)
CallbackIsFinal ==
    retries = 0 /\ overlaps = 0 => posted \subseteq Terminal \cap {row.status}

(***************************************************************************)
(* Drivers and API calls keep running, expired claims are noticed.         *)
(***************************************************************************)
FairSpec ==
    /\ Spec
    /\ WF_vars(EnqueueCall) /\ WF_vars(Redeliver) /\ WF_vars(RetryCommit)
    /\ \A d \in Worker : WF_vars(Deliver(d))
    /\ \A d \in Driver : WF_vars(Drive(d))

(***************************************************************************)
(* Every request that was accepted ends in a terminal status, or waits on  *)
(* the dead-letter list, although workers crash while they drive it.       *)
(***************************************************************************)
EveryRequestEnds ==
    row.status = "queued" ~> (row.status \in Terminal \/ dead[Req] > 0)
=============================================================================
