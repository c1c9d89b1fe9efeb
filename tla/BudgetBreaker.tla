--------------------------- MODULE BudgetBreaker ---------------------------
(***************************************************************************)
(* Cost accounting and the daily budget circuit breaker (app/cost.py,      *)
(* _select_pipeline and _persist_cost in app/jobs/worker.py, spend_since   *)
(* and add_llm_calls in app/db/repository.py, FailoverLlm).  The breaker   *)
(* reads the calls logged since midnight before a run and the run's own    *)
(* calls are logged after it: in between they are in its ledger only.      *)
(***************************************************************************)
EXTENDS Naturals, Sequences, FiniteSets, FiniteSetsExt

CONSTANTS
    Slot,     \* runs that can be in progress at once: one of every worker process,
              \* and those of the requests an API process drives inline
    Cap,      \* settings.daily_budget_cap_usd
    Price,    \* what one call of the paid model may cost
    RunCalls, \* calls of a run that reaches its report: classify, extract, draft, report
    MaxDays,  \* bound: midnights
    MaxSpend, \* bound: spend of one day after which no call is made
    Unlogged  \* how the paid model may be used without a trace, see LeakKinds

(***************************************************************************)
(* "failed"  a run raises, or its process dies, before its cost is logged  *)
(* "embed"   the knowledge search embeds its query with the paid provider  *)
(* "stream"  runs of the streaming endpoint, which open no ledger          *)
(* "late"    a call is charged after its client gave up on the answer      *)
(* "unpriced"  the model is not in PRICING, or its server reports no usage *)
(***************************************************************************)
LeakKinds == {"failed", "embed", "stream", "late", "unpriced"}

ASSUME SlotAssumption == IsFiniteSet(Slot)
ASSUME CapAssumption == Cap \in Nat \ {0}
ASSUME PriceAssumption == Price \subseteq Nat \ {0} /\ IsFiniteSet(Price) /\ Price # {}
ASSUME RunAssumption == RunCalls \in Nat
ASSUME BoundAssumption == MaxDays \in Nat /\ MaxSpend \in Nat
ASSUME LeakAssumption == Unlogged \subseteq LeakKinds

VARIABLES
    logged,  \* SUM(cost_usd) of llm_call_log since the start of the day
    spent,   \* what the paid model has charged since then (history)
    run,     \* the run of every slot
    days,    \* midnights so far
    carried, \* what the ledgers held when the day started (history)
    leaked   \* a charge of the day has left no record, or lost it (history)

history == <<carried, leaked>>
vars == <<logged, spent, run, days, history>>

\* ledger is the sum of the contextvar's entries; calls counts model calls.
RunState == [phase : {"idle", "paid", "degraded", "persist"}, calls : Nat, ledger : Nat]
NoRun == [phase |-> "idle", calls |-> 0, ledger |-> 0]

TypeOK == /\ logged \in Nat /\ spent \in Nat /\ days \in Nat
          /\ run \in [Slot -> RunState]
          /\ carried \in Nat /\ leaked \in BOOLEAN

Init == /\ logged = 0 /\ spent = 0 /\ days = 0
        /\ run = [s \in Slot |-> NoRun]
        /\ carried = 0 /\ leaked = FALSE

\* What is charged to the ledgers of runs in progress.
Ledgers == MapThenSumSet(LAMBDA s : run[s].ledger, Slot)

-----------------------------------------------------------------------------
\* Mutant: the breaker trips when the cap is exceeded.
SelectLate(s) ==
    /\ run[s].phase = "idle"
    /\ run' = [run EXCEPT ![s].phase = IF logged > Cap THEN "degraded" ELSE "paid"]
    /\ UNCHANGED <<logged, spent, days, history>>

\* Mutant: the return of the paid pipeline has moved into the branch that warns of
\* the spend, and a day without any gets None.
SelectOnWarning(s) ==
    /\ run[s].phase = "idle"
    /\ run' = [run EXCEPT ![s].phase = IF logged >= Cap THEN "degraded"
                                       ELSE IF logged > 0 THEN "paid" ELSE "none"]
    /\ UNCHANGED <<logged, spent, days, history>>

\* _select_pipeline, once per run: at the cap, the sandbox-only pipeline.
Select(s) ==
    /\ run[s].phase = "idle"
    /\ run' = [run EXCEPT ![s].phase = IF logged >= Cap THEN "degraded" ELSE "paid"]
    /\ UNCHANGED <<logged, spent, days, history>>

\* What the ledger may get for a charge: _record_usage takes a missing usage block
\* and estimate_cost an unknown model for no cost.
EstimateCost(charge) == {charge} \cup (IF "unpriced" \in Unlogged THEN {0} ELSE {})

\* The providers a run's nodes call, in order.
Chain(phase) == IF phase = "paid" THEN <<"paid", "sandbox">> ELSE <<"sandbox">>

\* The sandbox model never fails, and records an entry of no cost.
SandboxAnswer == [charged |-> 0, recorded |-> 0]

\* What an answer of a provider charges and records.
Answer(provider) ==
    IF provider = "paid"
    THEN UNION {{[charged |-> c, recorded |-> e] : e \in EstimateCost(c)} : c \in Price}
    ELSE {SandboxAnswer}

\* What a provider charges for a call that fails for a transient reason.
Wasted(provider) == {0} \cup (IF provider = "paid" /\ "late" \in Unlogged THEN Price ELSE {})

\* FailoverLlm: the first provider answers, or fails and the next one answers.
Complete(chain) ==
    Answer(Head(chain)) \cup
    IF Tail(chain) = <<>> THEN {}
    ELSE {[a EXCEPT !.charged = @ + lost] : a \in Answer(chain[2]), lost \in Wasted(Head(chain))}

\* A node of the run calls its model.
CallModel(s) ==
    /\ run[s].phase \in {"paid", "degraded"}
    /\ run[s].calls < RunCalls
    /\ spent < MaxSpend
    /\ \E a \in Complete(Chain(run[s].phase)) :
          /\ run' = [run EXCEPT ![s].calls = @ + 1, ![s].ledger = @ + a.recorded]
          /\ spent' = spent + a.charged
          /\ leaked' = (leaked \/ a.recorded # a.charged)
    /\ UNCHANGED <<logged, days, carried>>

\* embed() of a paid provider records no usage; neither does any call of a
\* streamed run, whose adapters find no ledger open.
CallUnrecorded(s) ==
    /\ \/ "embed" \in Unlogged /\ run[s].phase \in {"paid", "degraded"}
       \/ "stream" \in Unlogged
    /\ spent < MaxSpend
    /\ \E cost \in Price : spent' = spent + cost
    /\ leaked' = TRUE
    /\ UNCHANGED <<logged, run, days, carried>>

\* The run reaches its report, or stops at needs_review after its first call.
RunEnds(s) ==
    /\ run[s].phase \in {"paid", "degraded"}
    /\ run[s].calls \in {1, RunCalls}
    /\ run' = [run EXCEPT ![s].phase = "persist"]
    /\ UNCHANGED <<logged, spent, days, history>>

\* The run raises or its process dies: its ledger goes with it.
RunFails(s) ==
    /\ "failed" \in Unlogged
    /\ run[s].phase # "idle"
    /\ run' = [run EXCEPT ![s] = NoRun]
    /\ leaked' = (leaked \/ run[s].ledger > 0)
    /\ UNCHANGED <<logged, spent, days, carried>>

\* Mutant: the rows are added to a session nobody commits.
PersistUncommitted(s) ==
    /\ run[s].phase = "persist"
    /\ run' = [run EXCEPT ![s] = NoRun]
    /\ UNCHANGED <<logged, spent, days, history>>

\* _persist_cost: the ledger's entries become rows of the log, dated now.
PersistCost(s) ==
    /\ run[s].phase = "persist"
    /\ logged' = logged + run[s].ledger
    /\ run' = [run EXCEPT ![s] = NoRun]
    /\ UNCHANGED <<spent, days, history>>

\* Midnight: the breaker's window starts again, runs in progress carry on and will
\* log on the new day what they were charged on the old one.
Midnight ==
    /\ days < MaxDays
    /\ days' = days + 1
    /\ logged' = 0 /\ spent' = 0
    /\ carried' = Ledgers /\ leaked' = FALSE
    /\ UNCHANGED run

Next == \/ Midnight
        \/ \E s \in Slot : \/ Select(s) \/ CallModel(s) \/ CallUnrecorded(s) \/ RunEnds(s)
                           \/ RunFails(s) \/ PersistCost(s)

Spec == Init /\ [][Next]_vars

-----------------------------------------------------------------------------
(* Properties.                                                             *)

RunCost == RunCalls * Max(Price)

(***************************************************************************)
(* On every day, log and ledgers together account for what the paid model  *)
(* has charged on it and the ledgers had brought into it: never for more,  *)
(* and for exactly that while no charge of the day has leaked in one of    *)
(* the ways of LeakKinds.  A run's entries are logged once and all of      *)
(* them, on the day it ends.  (open_ledger, _persist_cost, add_llm_calls)  *)
(***************************************************************************)
LogAccountsForCharges ==
    /\ logged + Ledgers <= spent + carried
    /\ ~leaked => logged + Ledgers = spent + carried

(***************************************************************************)
(* What the breaker can see stays under the cap, but for one run of every  *)
(* slot that had read the log before the cap was reached, on the day of    *)
(* the read: whatever else is charged, lost or carried over midnight.      *)
(* (_select_pipeline)                                                      *)
(***************************************************************************)
RecordedOverrunBounded == logged + Ledgers < Cap + Cardinality(Slot) * RunCost
=============================================================================
