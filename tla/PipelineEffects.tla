-------------------------- MODULE PipelineEffects --------------------------
(***************************************************************************)
(* The pipeline of one request (app/graph) and what it does to the outside *)
(* world through the real adapters: Jira tickets, customer emails, Slack   *)
(* posts.  Every external call is wrapped in retry_async; a failed run, or *)
(* one whose process died, is driven again from its first node, possibly   *)
(* by another process (app/jobs/worker.py).                                *)
(*                                                                         *)
(* The models behind LlmPort are free to answer differently on every run:  *)
(* the failover chain and the budget breaker both swap them.  What later   *)
(* steps depend on of an answer is kept, its wording is not.               *)
(***************************************************************************)
EXTENDS Naturals, FiniteSets

CONSTANTS
    Worker,       \* worker processes
    MaxAttempts,  \* settings.max_attempts, the attempts of every external call
    MaxRuns,      \* bound: deliveries of the request
    Faults        \* what may go wrong, see FaultKinds

(***************************************************************************)
(* "transient", "permanent"  a call raises that adapter error, undone      *)
(* "lost"     a call takes effect and its response is lost                 *)
(* "crash"    a worker process dies                                        *)
(* "overlap"  the request is redelivered while a worker still drives it    *)
(***************************************************************************)
FaultKinds == {"transient", "permanent", "lost", "crash", "overlap"}

ASSUME AttemptsAssumption == MaxAttempts \in Nat \ {0}
ASSUME RunsAssumption == MaxRuns \in Nat
ASSUME FaultsAssumption == Faults \subseteq FaultKinds

VARIABLES
    tickets,   \* Jira: issues carrying the request's label
    mails,     \* SMTP: messages accepted for the request's reply
    notices,   \* Slack: posts for the request
    seen,      \* processes whose notifier remembers the request's key
    steps,     \* run_step: nodes checkpointed
    run,       \* the pipeline run of every worker
    record,    \* what finalize_run committed
    begun,     \* runs begun so far
    overlaps,  \* those begun while another worker was driving (history)
    repeats    \* occasions to send the reply again, see RepliesBounded (history)

world == <<tickets, mails, notices>>
count == <<begun, overlaps, repeats>>
vars == <<world, seen, steps, run, record, count>>

Node == {"classify", "extract", "retrieve", "create_ticket", "draft_reply", "notify",
         "persist", "generate_report", "needs_review"}
TerminalSteps == {"generate_report", "needs_review"}

\* Mutant: the edge from persist to generate_report is forgotten.
EdgeForgotten == [n \in Node |->
    CASE n = "classify" -> {"extract", "needs_review"}
      [] n = "extract" -> {"retrieve"}
      [] n = "retrieve" -> {"create_ticket"}
      [] n = "create_ticket" -> {"draft_reply"}
      [] n = "draft_reply" -> {"notify"}
      [] n = "notify" -> {"persist"}
      [] OTHER -> {}]

\* The edges of build_graph; route_after_classify picks between the first two.
Edge == [n \in Node |->
    CASE n = "classify" -> {"extract", "needs_review"}
      [] n = "extract" -> {"retrieve"}
      [] n = "retrieve" -> {"create_ticket"}
      [] n = "create_ticket" -> {"draft_reply"}
      [] n = "draft_reply" -> {"notify"}
      [] n = "notify" -> {"persist"}
      [] n = "persist" -> {"generate_report"}
      [] OTHER -> {}]

\* retrieve embeds and queries, create_ticket searches and posts, draft_reply drafts
\* and sends; every other node is one "call".  A node that is done is saved, a run
\* that is done settles.
Phase == {"idle", "embed", "call", "search", "post", "send", "save", "finalize"}
FirstPhase(node) == CASE node = "retrieve" -> "embed"
                      [] node = "create_ticket" -> "search"
                      [] OTHER -> "call"

\* What became of the reply: no draft yet, emailed, held by the gate, or not
\* emailed because no address was extracted.
Reply == {"none", "sent", "held", "unsent"}
\* What later nodes read of the state: sure, the classification reached the
\* confidence threshold; address, a customer address was extracted.
RunState == [node : Node, phase : Phase, tries : Nat, sure : BOOLEAN,
             address : BOOLEAN, reply : Reply, notified : BOOLEAN]
Fresh == [node |-> "classify", phase |-> "idle", tries |-> 0, sure |-> FALSE,
          address |-> FALSE, reply |-> "none", notified |-> FALSE]

NoRecord == [outcome |-> "none", reply |-> "none", notified |-> FALSE]
Record == [outcome : TerminalSteps \cup {"none"}, reply : Reply, notified : BOOLEAN]

TypeOK ==
    /\ tickets \in Nat /\ mails \in Nat /\ notices \in Nat
    /\ seen \subseteq Worker
    /\ steps \subseteq Node
    /\ run \in [Worker -> RunState]
    /\ record \in Record
    /\ begun \in Nat /\ overlaps \in Nat /\ repeats \in Nat

Init ==
    /\ tickets = 0 /\ mails = 0 /\ notices = 0
    /\ seen = {} /\ steps = {}
    /\ run = [w \in Worker |-> Fresh]
    /\ record = NoRecord
    /\ begun = 0 /\ overlaps = 0 /\ repeats = 0

-----------------------------------------------------------------------------
At(w, node, phase) == run[w].node = node /\ run[w].phase = phase
Running == {w \in Worker : run[w].phase # "idle"}
Stop(w) == run' = [run EXCEPT ![w] = Fresh]

\* A call returned: the next phase of the node starts with fresh attempts.
Turn(w, phase) == run' = [run EXCEPT ![w].phase = phase, ![w].tries = 0]

\* _begin: a settled request, or one with a terminal checkpoint, is not driven.
Begin(w) ==
    /\ w \notin Running
    /\ record = NoRecord /\ steps \cap TerminalSteps = {}
    /\ Running = {} \/ "overlap" \in Faults
    /\ begun < MaxRuns
    /\ begun' = begun + 1
    /\ overlaps' = IF Running = {} THEN overlaps ELSE overlaps + 1
    /\ repeats' = IF Running = {} /\ mails = 0 THEN repeats ELSE repeats + 1
    /\ run' = [run EXCEPT ![w] = [Fresh EXCEPT !.phase = "call"]]
    /\ UNCHANGED <<world, seen, steps, record>>

\* classify_node: an answer that does not parse counts as confidence zero.
Classify(w) ==
    /\ At(w, "classify", "call")
    /\ \E sure \in BOOLEAN :
          run' = [run EXCEPT ![w].sure = sure, ![w].phase = "save", ![w].tries = 0]
    /\ UNCHANGED <<world, seen, steps, record, count>>

\* extract_node: an answer that does not parse leaves the address empty.
Extract(w) ==
    /\ At(w, "extract", "call")
    /\ \E address \in BOOLEAN :
          run' = [run EXCEPT ![w].address = address, ![w].phase = "save", ![w].tries = 0]
    /\ UNCHANGED <<world, seen, steps, record, count>>

\* Knowledge search: a model embeds the query, the store is asked for its
\* neighbours.  What it finds only shapes texts.
Embed(w) ==
    /\ At(w, "retrieve", "embed")
    /\ run' = [run EXCEPT ![w].phase = "call"]
    /\ UNCHANGED <<world, seen, steps, record, count>>

Retrieve(w) ==
    /\ At(w, "retrieve", "call")
    /\ Turn(w, "save")
    /\ UNCHANGED <<world, seen, steps, record, count>>

\* generate_report asks a model for a text; persist and needs_review call nothing.
Conclude(w) ==
    /\ run[w].phase = "call"
    /\ run[w].node \in {"persist", "generate_report", "needs_review"}
    /\ Turn(w, "save")
    /\ UNCHANGED <<world, seen, steps, record, count>>

\* Mutant: the search is skipped.
TicketSearchBlind(w) ==
    /\ At(w, "create_ticket", "search")
    /\ run' = [run EXCEPT ![w].phase = "post"]
    /\ UNCHANGED <<world, seen, steps, record, count>>

\* create_ticket looks for the request's label and reuses what it finds.
TicketSearch(w) ==
    /\ At(w, "create_ticket", "search")
    /\ IF tickets > 0 THEN Turn(w, "save")
       ELSE run' = [run EXCEPT ![w].phase = "post"]
    /\ UNCHANGED <<world, seen, steps, record, count>>

TicketPost(w) ==
    /\ At(w, "create_ticket", "post")
    /\ tickets' = tickets + 1
    /\ Turn(w, "save")
    /\ UNCHANGED <<mails, notices, seen, steps, record, count>>

\* reply_node: a draft in which check_reply finds a violation is held, another is
\* emailed when there is an address to send it to.  A draft may have one or not
\* whatever was extracted.
Verdict(violated, known) == IF violated THEN "held" ELSE IF known THEN "sent" ELSE "unsent"
Draft(w) ==
    /\ At(w, "draft_reply", "call")
    /\ \E violated \in BOOLEAN :
          LET reply == Verdict(violated, run[w].address)
          IN  run' = [run EXCEPT ![w].tries = 0, ![w].reply = reply,
                                 ![w].phase = IF reply = "sent" THEN "send" ELSE "save"]
    /\ UNCHANGED <<world, seen, steps, record, count>>

Send(w) ==
    /\ At(w, "draft_reply", "send")
    /\ mails' = mails + 1
    /\ Turn(w, "save")
    /\ UNCHANGED <<tickets, notices, seen, steps, record, count>>

\* Mutant: a key the process has seen skips the node's output too.
NotifyForgets(w) ==
    /\ At(w, "notify", "call")
    /\ Turn(w, "save")
    /\ notices' = IF w \in seen THEN notices ELSE notices + 1
    /\ seen' = seen \cup {w}
    /\ UNCHANGED <<tickets, mails, steps, record, count>>

\* notify posts unless this process remembers having done so.
Notify(w) ==
    /\ At(w, "notify", "call")
    /\ run' = [run EXCEPT ![w].phase = "save", ![w].tries = 0, ![w].notified = TRUE]
    /\ notices' = IF w \in seen THEN notices ELSE notices + 1
    /\ seen' = seen \cup {w}
    /\ UNCHANGED <<tickets, mails, steps, record, count>>

\* Mutant: one retry around the reply and the notification, not one around each.
TryAgainBoth(w) ==
    IF run[w].tries + 1 < MaxAttempts
    THEN LET mailed == run[w].node = "notify" /\ run[w].reply = "sent"
             node == IF mailed THEN "draft_reply" ELSE run[w].node
         IN run' = [run EXCEPT ![w].tries = @ + 1, ![w].node = node,
                               ![w].phase = IF mailed \/ @ = "send" THEN "send"
                                            ELSE FirstPhase(node)]
    ELSE Stop(w)

\* retry_async around the call: the operation starts over, or the run fails.
TryAgain(w) ==
    IF run[w].tries + 1 < MaxAttempts
    THEN run' = [run EXCEPT ![w].tries = @ + 1,
                            ![w].phase = IF @ = "send" THEN "send"
                                         ELSE FirstPhase(run[w].node)]
    ELSE Stop(w)

Calling(w) == /\ run[w].phase \in {"embed", "call", "search", "post", "send"}
              /\ run[w].node \notin {"persist", "needs_review"}
              /\ ~(At(w, "notify", "call") /\ w \in seen)

\* Models are reached through FailoverLlm, whose last provider, the sandbox
\* model, never fails: only a permanent error of an earlier one comes through.
AsksModel(w) ==
    \/ run[w].phase = "embed"
    \/ /\ run[w].phase = "call"
       /\ run[w].node \in {"classify", "extract", "draft_reply", "generate_report"}

\* The call fails without effect.
CallFails(w) ==
    /\ Calling(w)
    /\ \/ "transient" \in Faults /\ ~AsksModel(w) /\ TryAgain(w)
       \/ "permanent" \in Faults /\ Stop(w)
    /\ UNCHANGED <<world, seen, steps, record, count>>

\* The call takes effect and times out: it is retried like any transient error.
ResponseLost(w) ==
    /\ "lost" \in Faults
    /\ Calling(w)
    /\ \/ At(w, "create_ticket", "post") /\ tickets' = tickets + 1 /\ UNCHANGED <<mails, notices>>
       \/ At(w, "draft_reply", "send") /\ mails' = mails + 1 /\ UNCHANGED <<tickets, notices>>
       \/ At(w, "notify", "call") /\ notices' = notices + 1 /\ UNCHANGED <<tickets, mails>>
    /\ repeats' = IF run[w].phase = "send" THEN repeats + 1 ELSE repeats
    /\ TryAgain(w)
    /\ UNCHANGED <<seen, steps, record, begun, overlaps>>

RouteAfterClassify(w) == IF run[w].sure THEN "extract" ELSE "needs_review"

\* The worker checkpoints the node's output, keeping an earlier checkpoint, and
\* the graph follows the node's edge.
Save(w) ==
    /\ run[w].phase = "save"
    /\ steps' = steps \cup {run[w].node}
    /\ IF Edge[run[w].node] = {} THEN Turn(w, "finalize")
       ELSE \E n \in Edge[run[w].node] :
               /\ run[w].node = "classify" => n = RouteAfterClassify(w)
               /\ run' = [run EXCEPT ![w].node = n, ![w].phase = FirstPhase(n)]
    /\ UNCHANGED <<world, seen, record, count>>

\* finalize_run commits the state the graph returned.
Finalize(w) ==
    /\ run[w].phase = "finalize"
    /\ record' = [outcome |-> run[w].node, reply |-> run[w].reply,
                  notified |-> run[w].notified]
    /\ Stop(w)
    /\ UNCHANGED <<world, seen, steps, count>>

Crash(w) ==
    /\ "crash" \in Faults
    /\ w \in Running
    /\ Stop(w)
    /\ seen' = seen \ {w}
    /\ UNCHANGED <<world, steps, record, count>>

Next == \E w \in Worker :
    \/ Begin(w) \/ Classify(w) \/ Extract(w) \/ Embed(w) \/ Retrieve(w) \/ TicketSearch(w) \/ TicketPost(w)
    \/ Draft(w) \/ Send(w) \/ Notify(w) \/ Conclude(w) \/ CallFails(w) \/ ResponseLost(w) \/ Save(w) \/ Finalize(w) \/ Crash(w)

Spec == Init /\ [][Next]_vars

-----------------------------------------------------------------------------
(* Properties.                                                             *)

(***************************************************************************)
(* ADR-0004:31-37: the search by label makes a node that runs twice,       *)
(* "whether from an in-run retry or a full re-drive after a crash",        *)
(* produce one ticket: through lost responses, failed runs and crashes     *)
(* only a run begun during another run can add one more.                   *)
(***************************************************************************)
TicketsBounded == tickets <= 1 + overlaps

(***************************************************************************)
(* The record claims nothing that did not happen: a completed run has its  *)
(* ticket and its Slack post, and its email when it says so, even when     *)
(* other runs of the request failed or died at any point before.           *)
(***************************************************************************)
RecordClaimsHappened ==
    record.outcome = "generate_report" =>
        /\ tickets > 0
        /\ record.notified /\ notices > 0
        /\ record.reply # "none"
        /\ record.reply = "sent" => mails > 0

(***************************************************************************)
(* What a second email to the customer takes: the lost answer of a send, a *)
(* run begun after an email had gone out, or one begun during another run. *)
(* No failure of a later call, and no retry within a run, sends one.       *)
(* (reply_node, retry_async around single calls; ADR-0004:31-37 says "at   *)
(* most once", but SmtpEmail.send looks for no earlier message.)           *)
(***************************************************************************)
RepliesBounded == mails <= 1 + repeats
=============================================================================
