----------------------- MODULE PipelineEffectsProofs -----------------------
(***************************************************************************)
(* Proofs about PipelineEffects, for every set of workers, every number of *)
(* runs and attempts and every combination of faults.                      *)
(***************************************************************************)
EXTENDS PipelineEffects, FiniteSetTheorems, TLAPS

-----------------------------------------------------------------------------
(* What a run may say of the outside world.                                *)

PastTicket(r) ==
    \/ r.node \in {"draft_reply", "notify", "persist", "generate_report"}
    \/ r.node = "create_ticket" /\ r.phase = "save"
PastReply(r) ==
    \/ r.node \in {"notify", "persist", "generate_report"}
    \/ r.node = "draft_reply" /\ r.phase = "save"
PastNotify(r) ==
    \/ r.node \in {"persist", "generate_report"}
    \/ r.node = "notify" /\ r.phase = "save"

(***************************************************************************)
(* A run that is past a node has what the node was for: t tickets, m mails *)
(* and n notices exist.                                                    *)
(***************************************************************************)
Truthful(r, t, m, n) ==
    /\ PastTicket(r) => t > 0
    /\ PastReply(r) => r.reply # "none" /\ (r.reply = "sent" => m > 0)
    /\ PastNotify(r) => r.notified /\ n > 0
    /\ r.node = "draft_reply" /\ r.phase = "send" => r.reply = "sent"
    /\ r.phase = "finalize" => r.node \in TerminalSteps

(***************************************************************************)
(* What makes RecordClaimsHappened inductive: every run tells the truth,   *)
(* and a process remembers a key only if a notice was posted.              *)
(***************************************************************************)
ClaimInv ==
    /\ TypeOK
    /\ \A w \in Worker : Truthful(run[w], tickets, mails, notices)
    /\ seen # {} => notices > 0
    /\ RecordClaimsHappened

\* Nothing in the outside world is undone.
WorldGrows ==
    /\ tickets' \in Nat /\ mails' \in Nat /\ notices' \in Nat
    /\ tickets' >= tickets /\ mails' >= mails /\ notices' >= notices

(***************************************************************************)
(* A run that does not say more than is so may replace any other.          *)
(***************************************************************************)
LEMMA RunMoves ==
  ASSUME ClaimInv, NEW w \in Worker, NEW s \in RunState,
         run' = [run EXCEPT ![w] = s], Truthful(s, tickets', mails', notices'),
         WorldGrows, UNCHANGED record,
         seen' \subseteq Worker, seen' # {} => notices' > 0,
         steps' \subseteq Node, begun' \in Nat, overlaps' \in Nat, repeats' \in Nat
  PROVE  ClaimInv'
<1>1. TypeOK'
  BY DEF ClaimInv, TypeOK, WorldGrows
<1>2. ASSUME NEW v \in Worker  PROVE Truthful(run'[v], tickets', mails', notices')
  <2>1. CASE v = w
    BY <2>1 DEF ClaimInv, TypeOK
  <2>2. CASE v # w
    <3>1. run'[v] = run[v] /\ Truthful(run[v], tickets, mails, notices)
      BY <2>2 DEF ClaimInv, TypeOK
    <3> QED BY <3>1 DEF Truthful, WorldGrows, ClaimInv, TypeOK
  <2> QED BY <2>1, <2>2
<1>3. RecordClaimsHappened'
  BY DEF ClaimInv, RecordClaimsHappened, WorldGrows, TypeOK
<1> QED BY <1>1, <1>2, <1>3 DEF ClaimInv

(***************************************************************************)
(* A worker without a run says nothing.                                    *)
(***************************************************************************)
LEMMA FreshTruthful ==
  /\ Fresh \in RunState
  /\ \A t, m, n : Truthful(Fresh, t, m, n)
  /\ \A t, m, n : Truthful([Fresh EXCEPT !.phase = "call"], t, m, n)
  /\ [Fresh EXCEPT !.phase = "call"] \in RunState
  BY DEF Fresh, RunState, Node, Phase, Reply, Truthful, PastTicket, PastReply, PastNotify

LEMMA PhaseOfNode == \A n \in Node : FirstPhase(n) \in {"embed", "search", "call"}
  BY DEF FirstPhase, Node

(***************************************************************************)
(* Another attempt, or the end of the run, after which it says no more     *)
(* than before.                                                            *)
(***************************************************************************)
LEMMA TryAgainKeeps ==
  ASSUME ClaimInv, NEW w \in Worker, Calling(w), TryAgain(w), WorldGrows,
         UNCHANGED <<seen, steps, record>>,
         begun' \in Nat, overlaps' \in Nat, repeats' \in Nat
  PROVE  ClaimInv'
<1>1. /\ run[w] \in RunState /\ run[w].tries \in Nat /\ run[w].node \in Node
      /\ Truthful(run[w], tickets, mails, notices)
  BY DEF ClaimInv, TypeOK, RunState
<1>2. /\ seen' \subseteq Worker /\ (seen' # {} => notices' > 0)
      /\ steps' \subseteq Node /\ begun' \in Nat /\ overlaps' \in Nat /\ repeats' \in Nat
  BY DEF ClaimInv, TypeOK, WorldGrows
<1>3. CASE run[w].tries + 1 < MaxAttempts
  <2> DEFINE p == IF run[w].phase = "send" THEN "send" ELSE FirstPhase(run[w].node)
             s == [run[w] EXCEPT !.tries = @ + 1, !.phase = p]
  <2>1. run' = [run EXCEPT ![w] = s]
    BY <1>3 DEF TryAgain, ClaimInv, TypeOK
  <2>2. p \in {"send", "embed", "search", "call"} /\ (p = "send" => run[w].phase = "send")
    BY <1>1, PhaseOfNode
  <2> HIDE DEF p
  <2>3. /\ s \in RunState /\ s.phase = p /\ s.node = run[w].node /\ s.reply = run[w].reply
        /\ s.notified = run[w].notified
    <3>1. p \in Phase
      BY <2>2 DEF Phase
    <3> DEFINE t == run[w].tries + 1
    <3>2. t \in Nat
      BY <1>1
    <3>3. s = [run[w] EXCEPT !.tries = t, !.phase = p]
      OBVIOUS
    <3> HIDE DEF t, s
    <3> QED BY <1>1, <3>1, <3>2, <3>3 DEF RunState
  <2> HIDE DEF s
  <2>4. run[w].phase # "save"
    BY DEF Calling
  <2>5. Truthful(s, tickets', mails', notices')
    BY <1>1, <2>2, <2>3, <2>4
       DEF Truthful, PastTicket, PastReply, PastNotify, WorldGrows, ClaimInv, TypeOK
  <2> QED BY <1>2, <2>1, <2>3, <2>5, RunMoves
<1>4. CASE ~(run[w].tries + 1 < MaxAttempts)
  BY <1>2, <1>4, FreshTruthful, RunMoves DEF TryAgain, Stop
<1> QED BY <1>3, <1>4

(***************************************************************************)
(* The nodes' calls.                                                       *)
(***************************************************************************)
LEMMA CallKeeps ==
  ASSUME ClaimInv, NEW w \in Worker,
         \/ Classify(w) \/ Extract(w) \/ Embed(w) \/ Retrieve(w) \/ TicketSearch(w)
         \/ TicketPost(w) \/ Draft(w) \/ Send(w) \/ Notify(w) \/ Conclude(w)
  PROVE  ClaimInv'
<1>1. run[w] \in RunState /\ Truthful(run[w], tickets, mails, notices)
  BY DEF ClaimInv, TypeOK
<1>2. run \in [Worker -> RunState]
  BY DEF ClaimInv, TypeOK
<1>3. UNCHANGED <<record, steps, count>>
  BY DEF Classify, Extract, Embed, Retrieve, TicketSearch, TicketPost, Draft, Send, Notify,
         Conclude
<1>4. steps' \subseteq Node /\ begun' \in Nat /\ overlaps' \in Nat /\ repeats' \in Nat
  BY <1>3 DEF ClaimInv, TypeOK, count
<1>5. ASSUME UNCHANGED <<world, seen>>
      PROVE  /\ WorldGrows /\ seen' \subseteq Worker /\ (seen' # {} => notices' > 0)
             /\ tickets' = tickets /\ mails' = mails /\ notices' = notices
  BY <1>5 DEF world, WorldGrows, ClaimInv, TypeOK
<1> USE DEF Truthful, PastTicket, PastReply, PastNotify
<1>6. CASE Classify(w)
  <2>1. PICK sure \in BOOLEAN :
             run' = [run EXCEPT ![w] = [run[w] EXCEPT !.sure = sure, !.phase = "save", !.tries = 0]]
    BY <1>2, <1>6 DEF Classify
  <2> DEFINE s == [run[w] EXCEPT !.sure = sure, !.phase = "save", !.tries = 0]
  <2>2. s \in RunState /\ s.node = "classify" /\ s.phase = "save"
    BY <1>1, <1>6 DEF RunState, Phase, Classify, At
  <2>3. UNCHANGED <<world, seen>>
    BY <1>6 DEF Classify
  <2> HIDE DEF s
  <2>4. run' = [run EXCEPT ![w] = s]
    BY <2>1 DEF s
  <2>5. Truthful(s, tickets', mails', notices')
    BY <2>2
  <2> QED BY <1>3, <1>4, <1>5, <2>2, <2>3, <2>4, <2>5, RunMoves
<1>7. CASE Extract(w)
  <2>1. PICK address \in BOOLEAN :
             run' = [run EXCEPT ![w] = [run[w] EXCEPT !.address = address, !.phase = "save", !.tries = 0]]
    BY <1>2, <1>7 DEF Extract
  <2> DEFINE s == [run[w] EXCEPT !.address = address, !.phase = "save", !.tries = 0]
  <2>2. s \in RunState /\ s.node = "extract" /\ s.phase = "save"
    BY <1>1, <1>7 DEF RunState, Phase, Extract, At
  <2>3. UNCHANGED <<world, seen>>
    BY <1>7 DEF Extract
  <2> HIDE DEF s
  <2>4. run' = [run EXCEPT ![w] = s]
    BY <2>1 DEF s
  <2>5. Truthful(s, tickets', mails', notices')
    BY <2>2
  <2> QED BY <1>3, <1>4, <1>5, <2>2, <2>3, <2>4, <2>5, RunMoves
<1>8. CASE Embed(w)
  <2> DEFINE s == [run[w] EXCEPT !.phase = "call"]
  <2>1. run' = [run EXCEPT ![w] = s]
    BY <1>2, <1>8 DEF Embed
  <2>2. s \in RunState /\ s.node = "retrieve" /\ s.phase = "call"
    BY <1>1, <1>8 DEF RunState, Phase, Embed, At
  <2>3. UNCHANGED <<world, seen>>
    BY <1>8 DEF Embed
  <2> HIDE DEF s
  <2>4. Truthful(s, tickets', mails', notices')
    BY <2>2
  <2> QED BY <1>3, <1>4, <1>5, <2>1, <2>2, <2>3, <2>4, RunMoves
<1> DEFINE saved == [run[w] EXCEPT !.phase = "save", !.tries = 0]
<1>9. /\ saved \in RunState /\ saved.phase = "save" /\ saved.node = run[w].node
      /\ saved.reply = run[w].reply /\ saved.notified = run[w].notified
  BY <1>1 DEF RunState, Phase
<1>10. Turn(w, "save") => run' = [run EXCEPT ![w] = saved]
  BY <1>2 DEF Turn
<1> HIDE DEF saved
<1>11. CASE Retrieve(w) \/ Conclude(w)
  <2>1. UNCHANGED <<world, seen>> /\ Turn(w, "save")
    BY <1>11 DEF Retrieve, Conclude
  <2>2. run[w].node \in {"retrieve", "persist", "generate_report", "needs_review"}
    BY <1>11 DEF Retrieve, Conclude, At
  <2>3. Truthful(saved, tickets', mails', notices')
    BY <1>1, <1>5, <1>9, <2>1, <2>2
  <2> QED BY <1>3, <1>4, <1>5, <1>9, <1>10, <2>1, <2>3, RunMoves
<1>12. CASE TicketSearch(w)
  <2>1. UNCHANGED <<world, seen>> /\ run[w].node = "create_ticket"
    BY <1>12 DEF TicketSearch, At
  <2>2. CASE tickets > 0
    <3>1. Turn(w, "save")
      BY <1>12, <2>2 DEF TicketSearch
    <3>2. Truthful(saved, tickets', mails', notices')
      BY <1>5, <1>9, <2>1, <2>2
    <3> QED BY <1>3, <1>4, <1>5, <1>9, <1>10, <2>1, <3>1, <3>2, RunMoves
  <2>3. CASE ~(tickets > 0)
    <3> DEFINE s == [run[w] EXCEPT !.phase = "post"]
    <3>1. run' = [run EXCEPT ![w] = s]
      BY <1>2, <1>12, <2>3 DEF TicketSearch
    <3>2. s \in RunState /\ s.node = "create_ticket" /\ s.phase = "post"
      BY <1>1, <2>1 DEF RunState, Phase
    <3> HIDE DEF s
    <3>3. Truthful(s, tickets', mails', notices')
      BY <3>2
    <3> QED BY <1>3, <1>4, <1>5, <2>1, <3>1, <3>2, <3>3, RunMoves
  <2> QED BY <2>2, <2>3
<1>13. CASE TicketPost(w)
  <2>1. /\ tickets' = tickets + 1 /\ UNCHANGED <<mails, notices, seen>>
        /\ Turn(w, "save") /\ run[w].node = "create_ticket"
    BY <1>13 DEF TicketPost, At
  <2>2. WorldGrows /\ tickets' > 0 /\ seen' \subseteq Worker /\ (seen' # {} => notices' > 0)
    BY <2>1 DEF WorldGrows, ClaimInv, TypeOK
  <2>3. Truthful(saved, tickets', mails', notices')
    BY <1>9, <2>1, <2>2
  <2> QED BY <1>3, <1>4, <1>9, <1>10, <2>1, <2>2, <2>3, RunMoves
<1>14. CASE Draft(w)
  <2>1. PICK violated \in BOOLEAN :
             run' = [run EXCEPT ![w] = [run[w] EXCEPT
                        !.tries = 0, !.reply = Verdict(violated, run[w].address),
                        !.phase = IF Verdict(violated, run[w].address) = "sent" THEN "send" ELSE "save"]]
    BY <1>2, <1>14 DEF Draft
  <2> DEFINE reply == Verdict(violated, run[w].address)
             s == [run[w] EXCEPT !.tries = 0, !.reply = reply,
                                 !.phase = IF reply = "sent" THEN "send" ELSE "save"]
  <2>2. reply \in {"held", "sent", "unsent"}
    BY DEF Verdict
  <2>3. run' = [run EXCEPT ![w] = s]
    BY <2>1
  <2> HIDE DEF reply
  <2>4. /\ s \in RunState /\ s.node = "draft_reply" /\ s.reply = reply
        /\ s.phase = IF reply = "sent" THEN "send" ELSE "save"
    BY <1>1, <1>14, <2>2 DEF RunState, Phase, Reply, Draft, At
  <2>5. UNCHANGED <<world, seen>> /\ tickets > 0
    BY <1>1, <1>14 DEF Draft, At
  <2> HIDE DEF s
  <2>6. Truthful(s, tickets', mails', notices')
    BY <1>5, <2>2, <2>4, <2>5
  <2> QED BY <1>3, <1>4, <1>5, <2>3, <2>4, <2>5, <2>6, RunMoves
<1>15. CASE Send(w)
  <2>1. /\ mails' = mails + 1 /\ UNCHANGED <<tickets, notices, seen>>
        /\ Turn(w, "save") /\ run[w].node = "draft_reply" /\ run[w].phase = "send"
    BY <1>15 DEF Send, At
  <2>2. WorldGrows /\ mails' > 0 /\ seen' \subseteq Worker /\ (seen' # {} => notices' > 0)
    BY <2>1 DEF WorldGrows, ClaimInv, TypeOK
  <2>3. Truthful(saved, tickets', mails', notices')
    BY <1>1, <1>9, <2>1, <2>2
  <2> QED BY <1>3, <1>4, <1>9, <1>10, <2>1, <2>2, <2>3, RunMoves
<1>16. CASE Notify(w)
  <2> DEFINE s == [run[w] EXCEPT !.phase = "save", !.tries = 0, !.notified = TRUE]
  <2>1. run' = [run EXCEPT ![w] = s]
    BY <1>2, <1>16 DEF Notify
  <2>2. /\ s \in RunState /\ s.node = "notify" /\ s.phase = "save" /\ s.notified
        /\ s.reply = run[w].reply
    BY <1>1, <1>16 DEF RunState, Phase, Notify, At
  <2>3. /\ UNCHANGED <<tickets, mails>> /\ seen' = seen \cup {w}
        /\ notices' = IF w \in seen THEN notices ELSE notices + 1
    BY <1>16 DEF Notify
  <2>4. WorldGrows /\ notices' > 0 /\ seen' \subseteq Worker
    BY <2>3 DEF WorldGrows, ClaimInv, TypeOK
  <2>5. run[w].node = "notify"
    BY <1>16 DEF Notify, At
  <2> HIDE DEF s
  <2>6. Truthful(s, tickets', mails', notices')
    BY <1>1, <2>2, <2>3, <2>4, <2>5
  <2> QED BY <1>3, <1>4, <2>1, <2>2, <2>3, <2>4, <2>6, RunMoves
<1> QED BY <1>6, <1>7, <1>8, <1>11, <1>12, <1>13, <1>14, <1>15, <1>16

(***************************************************************************)
(* The graph's edges: a run gets past a node by saving its output.         *)
(***************************************************************************)
LEMMA SaveKeeps ==
  ASSUME ClaimInv, NEW w \in Worker, Save(w)
  PROVE  ClaimInv'
<1>1. /\ run[w] \in RunState /\ run[w].phase = "save" /\ run[w].node \in Node
      /\ Truthful(run[w], tickets, mails, notices) /\ run \in [Worker -> RunState]
  BY DEF ClaimInv, TypeOK, RunState, Save
<1>2. /\ WorldGrows /\ seen' \subseteq Worker /\ (seen' # {} => notices' > 0)
      /\ UNCHANGED <<tickets, mails, notices, record>>
      /\ steps' \subseteq Node /\ begun' \in Nat /\ overlaps' \in Nat /\ repeats' \in Nat
  BY <1>1 DEF Save, world, count, WorldGrows, ClaimInv, TypeOK
<1>3. CASE Edge[run[w].node] = {}
  <2> DEFINE s == [run[w] EXCEPT !.phase = "finalize", !.tries = 0]
  <2>1. run' = [run EXCEPT ![w] = s]
    BY <1>1, <1>3 DEF Save, Turn
  <2>2. /\ s \in RunState /\ s.node = run[w].node /\ s.phase = "finalize"
        /\ s.reply = run[w].reply /\ s.notified = run[w].notified
    BY <1>1 DEF RunState, Phase
  <2>3. run[w].node \in TerminalSteps
    BY <1>1, <1>3 DEF Edge, Node, TerminalSteps
  <2> HIDE DEF s
  <2>4. Truthful(s, tickets', mails', notices')
    BY <1>1, <1>2, <2>2, <2>3
       DEF Truthful, PastTicket, PastReply, PastNotify, TerminalSteps
  <2> QED BY <1>2, <2>1, <2>2, <2>4, RunMoves
<1>4. ASSUME NEW n \in Edge[run[w].node],
             run' = [run EXCEPT ![w].node = n, ![w].phase = FirstPhase(n)]
      PROVE  ClaimInv'
  <2> DEFINE s == [run[w] EXCEPT !.node = n, !.phase = FirstPhase(n)]
  <2>1. n \in Node
    BY <1>1 DEF Edge, Node
  <2>2. FirstPhase(n) \in {"embed", "search", "call"}
    BY <2>1, PhaseOfNode
  <2>3. run' = [run EXCEPT ![w] = s]
    BY <1>1, <1>4
  <2>4. /\ s \in RunState /\ s.node = n /\ s.phase \in {"embed", "search", "call"}
        /\ s.reply = run[w].reply /\ s.notified = run[w].notified
    BY <1>1, <2>1, <2>2 DEF RunState, Phase
  <2> HIDE DEF s
  <2>5. /\ n = "draft_reply" => run[w].node = "create_ticket"
        /\ n = "notify" => run[w].node = "draft_reply"
        /\ n = "persist" => run[w].node = "notify"
        /\ n = "generate_report" => run[w].node = "persist"
    BY <1>1 DEF Edge, Node
  <2>6. Truthful(s, tickets', mails', notices')
    BY <1>1, <1>2, <2>4, <2>5 DEF Truthful, PastTicket, PastReply, PastNotify
  <2> QED BY <1>2, <2>3, <2>4, <2>6, RunMoves
<1> QED BY <1>3, <1>4 DEF Save

(***************************************************************************)
(* Init establishes the invariant and every step keeps it.                 *)
(***************************************************************************)
LEMMA ClaimInit == Init => ClaimInv
<1> SUFFICES ASSUME Init  PROVE ClaimInv
  OBVIOUS
<1>1. TypeOK
  BY FreshTruthful DEF Init, TypeOK, NoRecord, Record, Reply
<1>2. \A w \in Worker : Truthful(run[w], tickets, mails, notices)
  BY FreshTruthful DEF Init
<1> QED BY <1>1, <1>2 DEF Init, ClaimInv, RecordClaimsHappened, NoRecord

LEMMA ClaimStep == ClaimInv /\ [Next]_vars => ClaimInv'
<1> SUFFICES ASSUME ClaimInv, [Next]_vars  PROVE ClaimInv'
  OBVIOUS
<1>1. CASE UNCHANGED vars
  BY <1>1 DEF vars, world, count, ClaimInv, TypeOK, RecordClaimsHappened
<1>2. ASSUME NEW w \in Worker, Begin(w)  PROVE ClaimInv'
  <2>1. /\ UNCHANGED <<world, seen, steps, record>>
        /\ begun' \in Nat /\ overlaps' \in Nat /\ repeats' \in Nat
    BY <1>2 DEF Begin, ClaimInv, TypeOK
  <2>2. WorldGrows /\ seen' \subseteq Worker /\ (seen' # {} => notices' > 0) /\ steps' \subseteq Node
    BY <2>1 DEF world, WorldGrows, ClaimInv, TypeOK
  <2> QED BY <1>2, <2>1, <2>2, FreshTruthful, RunMoves DEF Begin
<1>3. ASSUME NEW w \in Worker, CallFails(w)  PROVE ClaimInv'
  <2>1. /\ UNCHANGED <<seen, steps, record, count>> /\ WorldGrows
        /\ steps' \subseteq Node /\ begun' \in Nat /\ overlaps' \in Nat /\ repeats' \in Nat
        /\ seen' \subseteq Worker /\ (seen' # {} => notices' > 0)
    BY <1>3 DEF CallFails, world, count, WorldGrows, ClaimInv, TypeOK
  <2>2. CASE TryAgain(w)
    BY <1>3, <2>1, <2>2, TryAgainKeeps DEF CallFails
  <2>3. CASE Stop(w)
    BY <2>1, <2>3, FreshTruthful, RunMoves DEF Stop
  <2> QED BY <1>3, <2>2, <2>3 DEF CallFails
<1>4. ASSUME NEW w \in Worker, ResponseLost(w)  PROVE ClaimInv'
  <2>1. WorldGrows
    BY <1>4 DEF ResponseLost, WorldGrows, ClaimInv, TypeOK
  <2>2. begun' \in Nat /\ overlaps' \in Nat /\ repeats' \in Nat
    BY <1>4 DEF ResponseLost, ClaimInv, TypeOK
  <2> QED BY <1>4, <2>1, <2>2, TryAgainKeeps DEF ResponseLost
<1>5. ASSUME NEW w \in Worker, Finalize(w)  PROVE ClaimInv'
  <2>1. /\ run[w] \in RunState /\ run[w].node \in TerminalSteps
        /\ Truthful(run[w], tickets, mails, notices)
    BY <1>5 DEF Finalize, ClaimInv, TypeOK, Truthful
  <2>2. record' \in Record
    BY <1>5, <2>1 DEF Finalize, Record, RunState, TerminalSteps
  <2>3. UNCHANGED <<world, seen, steps, count>> /\ run' = [run EXCEPT ![w] = Fresh]
    BY <1>5 DEF Finalize, Stop
  <2>4. TypeOK'
    BY <2>2, <2>3, FreshTruthful DEF ClaimInv, TypeOK, world, count
  <2>5. \A v \in Worker : Truthful(run'[v], tickets', mails', notices')
    BY <2>3, FreshTruthful DEF ClaimInv, TypeOK, world
  <2>6. RecordClaimsHappened'
    BY <1>5, <2>1, <2>3
       DEF Finalize, RecordClaimsHappened, Truthful, PastTicket, PastReply, PastNotify, world
  <2> QED BY <2>3, <2>4, <2>5, <2>6 DEF ClaimInv, world
<1>6. ASSUME NEW w \in Worker, Crash(w)  PROVE ClaimInv'
  <2>1. /\ UNCHANGED <<world, steps, record, count>> /\ seen' = seen \ {w}
        /\ run' = [run EXCEPT ![w] = Fresh]
    BY <1>6 DEF Crash, Stop
  <2>2. /\ WorldGrows /\ seen' \subseteq Worker /\ (seen' # {} => notices' > 0)
        /\ steps' \subseteq Node /\ begun' \in Nat /\ overlaps' \in Nat /\ repeats' \in Nat
    BY <2>1 DEF world, count, WorldGrows, ClaimInv, TypeOK
  <2> QED BY <2>1, <2>2, FreshTruthful, RunMoves
<1> QED BY <1>1, <1>2, <1>3, <1>4, <1>5, <1>6, CallKeeps, SaveKeeps DEF Next

(***************************************************************************)
(* World, checkpoints, runs and record keep their types.                   *)
(***************************************************************************)
THEOREM TypeCorrect == Spec => []TypeOK
<1>1. ClaimInv => TypeOK
  BY DEF ClaimInv
<1> QED BY <1>1, ClaimInit, ClaimStep, PTL DEF Spec

(***************************************************************************)
(* A record that says completed is backed by a ticket, a post and, if it   *)
(* says so, an email: whichever runs failed, died or overlapped before.    *)
(***************************************************************************)
THEOREM RecordIsTrue == Spec => []RecordClaimsHappened
<1>1. ClaimInv => RecordClaimsHappened
  BY DEF ClaimInv
<1> QED BY <1>1, ClaimInit, ClaimStep, PTL DEF Spec

-----------------------------------------------------------------------------
(* One ticket, and one more for every overlap.                             *)

Posting(r) == r.node = "create_ticket" /\ r.phase = "post"
Posters == {w \in Worker : Posting(run[w])}

(***************************************************************************)
(* What makes TicketsBounded inductive: the workers that have found no     *)
(* ticket and are about to create one are counted with the tickets, and no *)
(* more workers run than overlaps allow.                                   *)
(***************************************************************************)
OverlapInv ==
    /\ IsFiniteSet(Running)
    /\ Cardinality(Running) <= 1 + overlaps
    /\ tickets + Cardinality(Posters) <= 1 + overlaps

LEMMA PostersFinite ==
  ASSUME IsFiniteSet(Running)
  PROVE  /\ IsFiniteSet(Posters)
         /\ Cardinality(Running) \in Nat /\ Cardinality(Posters) \in Nat
         /\ Cardinality(Posters) <= Cardinality(Running)
<1>1. Posters \in SUBSET Running
  BY DEF Posters, Posting, Running
<1>2. IsFiniteSet(Posters) /\ Cardinality(Posters) <= Cardinality(Running)
  BY <1>1, FS_Subset
<1> QED BY <1>2, FS_CardinalityType

(***************************************************************************)
(* A step of a running worker that is not about to create a ticket after   *)
(* it: it may have created one if it was about to before.                  *)
(***************************************************************************)
LEMMA OneWorkerMoves ==
  ASSUME TypeOK, TypeOK', OverlapInv, NEW w \in Running,
         \A v \in Worker \ {w} : run'[v] = run[v],
         ~Posting(run'[w]), overlaps' = overlaps,
         tickets' = tickets \/ (w \in Posters /\ tickets' = tickets + 1)
  PROVE  OverlapInv'
<1>1. Running' \in SUBSET Running
  BY DEF Running
<1>2. Posters' = Posters \ {w}
  BY DEF Posters, Running
<1>3. /\ IsFiniteSet(Running') /\ Cardinality(Running') <= Cardinality(Running)
      /\ Cardinality(Running') \in Nat
  BY <1>1, FS_Subset, FS_CardinalityType DEF OverlapInv
<1>4. /\ Cardinality(Posters) \in Nat /\ Cardinality(Running) \in Nat
      /\ Cardinality(Posters') = IF w \in Posters THEN Cardinality(Posters) - 1
                                 ELSE Cardinality(Posters)
  BY <1>2, PostersFinite, FS_RemoveElement DEF OverlapInv
<1> QED BY <1>3, <1>4 DEF OverlapInv, TypeOK

(***************************************************************************)
(* Changes of one worker's run leave the others alone.                     *)
(***************************************************************************)
LEMMA OthersStay ==
  ASSUME TypeOK, NEW w \in Worker
  PROVE  /\ Stop(w) => /\ \A v \in Worker \ {w} : run'[v] = run[v]
                       /\ ~Posting(run'[w])
         /\ Turn(w, "save") \/ Turn(w, "finalize") => /\ \A v \in Worker \ {w} : run'[v] = run[v]
                                                      /\ ~Posting(run'[w])
         /\ TryAgain(w) => /\ \A v \in Worker \ {w} : run'[v] = run[v]
                           /\ ~Posting(run'[w])
<1>1. Stop(w) => (\A v \in Worker \ {w} : run'[v] = run[v]) /\ ~Posting(run'[w])
  BY DEF Stop, TypeOK, Posting, Fresh
<1>2. Turn(w, "save") \/ Turn(w, "finalize") =>
          (\A v \in Worker \ {w} : run'[v] = run[v]) /\ ~Posting(run'[w])
  BY DEF Turn, TypeOK, RunState, Posting
<1>3. FirstPhase(run[w].node) # "post"
  BY PhaseOfNode DEF TypeOK, RunState
<1>4. TryAgain(w) => (\A v \in Worker \ {w} : run'[v] = run[v]) /\ ~Posting(run'[w])
  BY <1>1, <1>3 DEF TryAgain, TypeOK, RunState, Posting
<1> QED BY <1>1, <1>2, <1>4

LEMMA OverlapStep ==
  TypeOK /\ TypeOK' /\ OverlapInv /\ [Next]_vars => OverlapInv'
<1> SUFFICES ASSUME TypeOK, TypeOK', OverlapInv, [Next]_vars  PROVE OverlapInv'
  OBVIOUS
<1>1. CASE UNCHANGED vars
  <2>1. Running' = Running /\ Posters' = Posters
    BY <1>1 DEF vars, Running, Posters
  <2> QED BY <1>1, <2>1 DEF vars, world, count, OverlapInv
<1>2. ASSUME NEW w \in Worker, Begin(w)  PROVE OverlapInv'
  <2>1. /\ w \notin Running /\ tickets' = tickets
        /\ overlaps' = IF Running = {} THEN overlaps ELSE overlaps + 1
        /\ run' = [run EXCEPT ![w] = [Fresh EXCEPT !.phase = "call"]]
    BY <1>2 DEF Begin, world
  <2>2. Running' = Running \cup {w} /\ Posters' = Posters
    BY <2>1 DEF Running, Posters, Posting, TypeOK, Fresh
  <2>3. IsFiniteSet(Running') /\ Cardinality(Running') = Cardinality(Running) + 1
    BY <2>1, <2>2, FS_AddElement DEF OverlapInv
  <2>4. Running = {} => Cardinality(Running) = 0
    BY FS_EmptySet
  <2> QED BY <2>1, <2>2, <2>3, <2>4, PostersFinite DEF OverlapInv, TypeOK
<1>3. ASSUME NEW w \in Worker, TicketSearch(w)  PROVE OverlapInv'
  <2>1. w \in Running /\ tickets' = tickets /\ overlaps' = overlaps
    BY <1>3 DEF TicketSearch, At, Running, world, count
  <2>2. CASE tickets > 0
    BY <1>3, <2>1, <2>2, OthersStay, OneWorkerMoves DEF TicketSearch
  <2>3. CASE ~(tickets > 0)
    <3>1. Running' = Running
      BY <1>3, <2>1, <2>3 DEF TicketSearch, Running, TypeOK, RunState
    <3>2. IsFiniteSet(Running')
      BY <3>1 DEF OverlapInv
    <3>3. Cardinality(Posters') \in Nat /\ Cardinality(Posters') <= Cardinality(Running')
      <4>1. Posters' \in SUBSET Running'
        BY DEF Posters, Posting, Running
      <4> QED BY <3>2, <4>1, FS_Subset, FS_CardinalityType
    <3>4. Cardinality(Running) \in Nat
      BY PostersFinite DEF OverlapInv
    <3> QED BY <2>1, <2>3, <3>1, <3>2, <3>3, <3>4 DEF OverlapInv, TypeOK
  <2> QED BY <2>2, <2>3
<1>4. ASSUME NEW w \in Worker, TicketPost(w)  PROVE OverlapInv'
  <2>1. w \in Running /\ w \in Posters /\ tickets' = tickets + 1 /\ overlaps' = overlaps
    BY <1>4 DEF TicketPost, At, Running, Posters, Posting, count
  <2> QED BY <1>4, <2>1, OthersStay, OneWorkerMoves DEF TicketPost
<1>5. ASSUME NEW w \in Worker, ResponseLost(w)  PROVE OverlapInv'
  <2>1. w \in Running /\ overlaps' = overlaps /\ TryAgain(w)
    BY <1>5 DEF ResponseLost, Calling, Running, count
  <2>2. tickets' = tickets \/ (w \in Posters /\ tickets' = tickets + 1)
    BY <1>5 DEF ResponseLost, At, Posters, Posting
  <2> QED BY <2>1, <2>2, OthersStay, OneWorkerMoves
<1>6. ASSUME NEW w \in Worker,
             \/ Classify(w) \/ Extract(w) \/ Embed(w) \/ Retrieve(w) \/ Draft(w)
             \/ Send(w) \/ Notify(w) \/ Conclude(w) \/ CallFails(w) \/ Save(w)
             \/ Finalize(w) \/ Crash(w)
      PROVE  OverlapInv'
  <2>1. tickets' = tickets /\ overlaps' = overlaps
    BY <1>6 DEF Classify, Extract, Embed, Retrieve, Draft, Send, Notify, Conclude,
                CallFails, Save, Finalize, Crash, world, count
  <2>2. w \in Running
    BY <1>6 DEF Classify, Extract, Embed, Retrieve, Draft, Send, Notify, Conclude,
                CallFails, Calling, Save, Finalize, Crash, At, Running
  <2>3. (\A v \in Worker \ {w} : run'[v] = run[v]) /\ ~Posting(run'[w])
    <3>0. run \in [Worker -> RunState]
      BY DEF TypeOK
    <3>1. CASE Classify(w) \/ Extract(w) \/ Embed(w) \/ Draft(w) \/ Notify(w)
      <4>0. CASE Classify(w)
        BY <3>0, <4>0 DEF Classify, At, RunState, Posting
      <4>1. CASE Extract(w)
        BY <3>0, <4>1 DEF Extract, At, RunState, Posting
      <4>2. CASE Embed(w) \/ Notify(w)
        BY <3>0, <4>2 DEF Embed, Notify, At, RunState, Posting
      <4>3. CASE Draft(w)
        BY <3>0, <4>3 DEF Draft, At, RunState, Posting
      <4> QED BY <3>1, <4>0, <4>1, <4>2, <4>3
    <3>2. CASE Retrieve(w) \/ Send(w) \/ Conclude(w)
      BY <3>2, OthersStay DEF Retrieve, Send, Conclude
    <3>3. CASE CallFails(w) \/ Finalize(w) \/ Crash(w)
      BY <3>3, OthersStay DEF CallFails, Finalize, Crash
    <3>4. CASE Save(w)
      <4>1. CASE Turn(w, "finalize")
        BY <4>1, OthersStay
      <4>2. ASSUME NEW n \in Edge[run[w].node],
                   run' = [run EXCEPT ![w].node = n, ![w].phase = FirstPhase(n)]
            PROVE  (\A v \in Worker \ {w} : run'[v] = run[v]) /\ ~Posting(run'[w])
        <5>1. n \in Node
          BY DEF Edge, Node, TypeOK, RunState
        <5>2. FirstPhase(n) # "post"
          BY <5>1, PhaseOfNode
        <5> QED BY <4>2, <5>2 DEF TypeOK, RunState, Posting
      <4> QED BY <3>4, <4>1, <4>2 DEF Save
    <3> QED BY <1>6, <3>1, <3>2, <3>3, <3>4
  <2> QED BY <2>1, <2>2, <2>3, OneWorkerMoves
<1> QED BY <1>1, <1>2, <1>3, <1>4, <1>5, <1>6 DEF Next

(***************************************************************************)
(* Through lost responses, failed runs and crashes only a run begun during *)
(* another run can add a ticket to the first one.                          *)
(***************************************************************************)
THEOREM OneTicket == Spec => []TicketsBounded
<1>1. Init => OverlapInv
  <2> SUFFICES ASSUME Init  PROVE OverlapInv
    OBVIOUS
  <2>1. Running = {} /\ Posters = {}
    BY DEF Init, Running, Posters, Posting, Fresh
  <2> QED BY <2>1, FS_EmptySet DEF Init, OverlapInv
<1>2. TypeOK /\ OverlapInv => TicketsBounded
  <2> SUFFICES ASSUME TypeOK, OverlapInv  PROVE TicketsBounded
    OBVIOUS
  <2> QED BY PostersFinite DEF OverlapInv, TypeOK, TicketsBounded
<1> QED BY <1>1, <1>2, OverlapStep, TypeCorrect, PTL DEF Spec

-----------------------------------------------------------------------------
(* Copies of the reply.                                                    *)

\* A run that may still send its reply.
Replying(r) ==
    /\ r.phase # "idle"
    /\ \/ r.node \in {"classify", "extract", "retrieve", "create_ticket"}
       \/ r.node = "draft_reply" /\ r.phase \notin {"save", "finalize"}
Repliers == {w \in Worker : Replying(run[w])}

(***************************************************************************)
(* What makes RepliesBounded inductive: the runs that may still send count *)
(* as if they had sent.                                                    *)
(***************************************************************************)
ReplyInv ==
    /\ IsFiniteSet(Repliers)
    /\ mails + Cardinality(Repliers) <= 1 + repeats

(***************************************************************************)
(* The ways a worker's step counts: it leaves the mails alone and is no    *)
(* new run that may send, it sends and will not again, or an occasion to   *)
(* send again comes with it.                                               *)
(***************************************************************************)
LEMMA ReplyMoves ==
  ASSUME TypeOK, TypeOK', ReplyInv, NEW w \in Worker,
         \A v \in Worker \ {w} : run'[v] = run[v],
         \/ /\ mails' = mails /\ repeats' = repeats
            /\ Replying(run'[w]) => Replying(run[w])
         \/ /\ mails' = mails + 1 /\ repeats' = repeats
            /\ Replying(run[w]) /\ ~Replying(run'[w])
         \/ /\ mails' = mails + 1 /\ repeats' = repeats + 1
            /\ Replying(run'[w]) => Replying(run[w])
         \/ mails' = mails /\ repeats' = repeats + 1
  PROVE  ReplyInv'
<1> DEFINE M == Repliers
           N == Repliers'
<1>1. /\ \A v \in Worker \ {w} : v \in N <=> v \in M
      /\ w \in M <=> Replying(run[w])
      /\ w \in N <=> Replying(run'[w])
      /\ M \in SUBSET Worker /\ N \in SUBSET Worker
  BY DEF Repliers
<1>2. IsFiniteSet(M) /\ Cardinality(M) \in Nat /\ mails + Cardinality(M) <= 1 + repeats
  BY FS_CardinalityType DEF ReplyInv
<1>3. mails \in Nat /\ mails' \in Nat /\ repeats \in Nat /\ repeats' \in Nat
  BY DEF TypeOK
<1> HIDE DEF M, N
<1>4. /\ IsFiniteSet(M \ {w}) /\ IsFiniteSet(M \cup {w})
      /\ Cardinality(M \ {w}) = IF w \in M THEN Cardinality(M) - 1 ELSE Cardinality(M)
      /\ Cardinality(M \cup {w}) = IF w \in M THEN Cardinality(M) ELSE Cardinality(M) + 1
  <2>1. IsFiniteSet(M)
    BY <1>2
  <2>2. /\ IsFiniteSet(M \ {w})
        /\ Cardinality(M \ {w}) = IF w \in M THEN Cardinality(M) - 1 ELSE Cardinality(M)
    BY <2>1, FS_RemoveElement
  <2>3. /\ IsFiniteSet(M \cup {w})
        /\ Cardinality(M \cup {w}) = IF w \in M THEN Cardinality(M) ELSE Cardinality(M) + 1
    BY <2>1, FS_AddElement
  <2> QED BY <2>2, <2>3
<1>5. /\ w \in N => N = M \cup {w}
      /\ w \notin N => N = M \ {w}
  BY <1>1
<1>6. IsFiniteSet(N)
  BY <1>4, <1>5
<1>7. Cardinality(N) \in Nat
  BY <1>6, FS_CardinalityType
<1>8. /\ Cardinality(N) <= Cardinality(M) + 1
      /\ (w \in N => w \in M) => Cardinality(N) <= Cardinality(M)
      /\ w \in M /\ w \notin N => Cardinality(N) + 1 <= Cardinality(M)
  <2>1. CASE w \in N
    <3>1. Cardinality(N) = IF w \in M THEN Cardinality(M) ELSE Cardinality(M) + 1
      BY <1>4, <1>5, <2>1
    <3> QED BY <1>2, <2>1, <3>1
  <2>2. CASE w \notin N
    <3>1. Cardinality(N) = IF w \in M THEN Cardinality(M) - 1 ELSE Cardinality(M)
      BY <1>4, <1>5, <2>2
    <3> QED BY <1>2, <2>2, <3>1
  <2> QED BY <2>1, <2>2
<1>9. mails' + Cardinality(N) <= 1 + repeats'
  <2>1. CASE mails' = mails /\ repeats' = repeats /\ (w \in N => w \in M)
    BY <1>2, <1>3, <1>7, <1>8, <2>1
  <2>2. CASE mails' = mails + 1 /\ repeats' = repeats /\ w \in M /\ w \notin N
    BY <1>2, <1>3, <1>7, <1>8, <2>2
  <2>3. CASE mails' = mails + 1 /\ repeats' = repeats + 1 /\ (w \in N => w \in M)
    BY <1>2, <1>3, <1>7, <1>8, <2>3
  <2>4. CASE mails' = mails /\ repeats' = repeats + 1
    BY <1>2, <1>3, <1>7, <1>8, <2>4
  <2> QED BY <1>1, <2>1, <2>2, <2>3, <2>4
<1> QED BY <1>6, <1>9 DEF ReplyInv, N

(***************************************************************************)
(* Ends, phases and further attempts of a run make none that may send of   *)
(* one that may not.                                                       *)
(***************************************************************************)
LEMMA RepliesAfter ==
  ASSUME TypeOK, NEW w \in Worker
  PROVE  /\ Stop(w) => ~Replying(run'[w]) /\ \A v \in Worker \ {w} : run'[v] = run[v]
         /\ \A phase \in {"save", "finalize"} : Turn(w, phase) =>
               /\ \A v \in Worker \ {w} : run'[v] = run[v]
               /\ run'[w].node = run[w].node /\ run'[w].phase = phase
         /\ TryAgain(w) /\ Calling(w) =>
               /\ \A v \in Worker \ {w} : run'[v] = run[v]
               /\ Replying(run'[w]) => Replying(run[w])
<1>1. run \in [Worker -> RunState] /\ run[w] \in RunState
  BY DEF TypeOK
<1>2. Stop(w) => ~Replying(run'[w]) /\ \A v \in Worker \ {w} : run'[v] = run[v]
  BY <1>1 DEF Stop, Fresh, Replying
<1>3. ASSUME NEW phase \in {"save", "finalize"}, Turn(w, phase)
      PROVE  /\ \A v \in Worker \ {w} : run'[v] = run[v]
             /\ run'[w].node = run[w].node /\ run'[w].phase = phase
  BY <1>1, <1>3 DEF Turn, RunState
<1>4. ASSUME TryAgain(w), Calling(w)
      PROVE  /\ \A v \in Worker \ {w} : run'[v] = run[v]
             /\ Replying(run'[w]) => Replying(run[w])
  <2>1. CASE Stop(w)
    BY <1>2, <2>1
  <2>2. CASE run[w].tries + 1 < MaxAttempts
    <3>1. run'[w].node = run[w].node /\ \A v \in Worker \ {w} : run'[v] = run[v]
      BY <1>1, <1>4, <2>2 DEF TryAgain, RunState
    <3>2. run[w].phase \notin {"idle", "save", "finalize"}
      BY <1>4 DEF Calling
    <3> QED BY <3>1, <3>2 DEF Replying
  <2> QED BY <1>4, <2>1, <2>2 DEF TryAgain
<1> QED BY <1>2, <1>3, <1>4

LEMMA ReplyStep ==
  TypeOK /\ TypeOK' /\ ReplyInv /\ [Next]_vars => ReplyInv'
<1> SUFFICES ASSUME TypeOK, TypeOK', ReplyInv, [Next]_vars  PROVE ReplyInv'
  OBVIOUS
<1>0. run \in [Worker -> RunState]
  BY DEF TypeOK
<1>1. CASE UNCHANGED vars
  <2>1. Repliers' = Repliers
    BY <1>1 DEF vars, Repliers
  <2> QED BY <1>1, <2>1 DEF vars, world, count, ReplyInv
<1>2. ASSUME NEW w \in Worker, Begin(w)  PROVE ReplyInv'
  <2>1. /\ mails' = mails /\ (Running = {} /\ mails = 0 => repeats' = repeats)
        /\ ~(Running = {} /\ mails = 0) => repeats' = repeats + 1
        /\ \A v \in Worker \ {w} : run'[v] = run[v]
    BY <1>0, <1>2 DEF Begin, world
  <2>2. CASE Running = {} /\ mails = 0
    <3>1. \A v \in Worker : run[v].phase = "idle"
      BY <2>2 DEF Running
    <3>2. Repliers' \in SUBSET {w}
      BY <2>1, <3>1 DEF Repliers, Replying
    <3>3. IsFiniteSet({w}) /\ Cardinality({w}) = 1
      BY FS_Singleton
    <3>4. IsFiniteSet(Repliers') /\ Cardinality(Repliers') <= 1
      BY <3>2, <3>3, FS_Subset
    <3>5. Cardinality(Repliers') \in Nat /\ repeats' \in Nat /\ mails' = 0
      BY <2>1, <2>2, <3>4, FS_CardinalityType DEF TypeOK
    <3> QED BY <3>4, <3>5 DEF ReplyInv
  <2>3. CASE ~(Running = {} /\ mails = 0)
    BY <2>1, <2>3, ReplyMoves
  <2> QED BY <2>2, <2>3
<1>3. ASSUME NEW w \in Worker, Send(w)  PROVE ReplyInv'
  <2>1. /\ Turn(w, "save") /\ mails' = mails + 1 /\ repeats' = repeats
        /\ run[w].node = "draft_reply" /\ run[w].phase = "send"
    BY <1>3 DEF Send, At, count
  <2>2. /\ \A v \in Worker \ {w} : run'[v] = run[v]
        /\ Replying(run[w]) /\ ~Replying(run'[w])
    BY <2>1, RepliesAfter DEF Replying
  <2> QED BY <2>1, <2>2, ReplyMoves
<1>4. ASSUME NEW w \in Worker, ResponseLost(w)  PROVE ReplyInv'
  <2>1. /\ Calling(w) /\ TryAgain(w)
        /\ \/ mails' = mails /\ repeats' = repeats
           \/ mails' = mails + 1 /\ repeats' = repeats + 1
    BY <1>4 DEF ResponseLost, At
  <2> QED BY <2>1, RepliesAfter, ReplyMoves
<1>5. ASSUME NEW w \in Worker, mails' = mails, repeats' = repeats,
             \A v \in Worker \ {w} : run'[v] = run[v],
             Replying(run'[w]) => Replying(run[w])
      PROVE  ReplyInv'
  BY <1>5, ReplyMoves
<1>6. ASSUME NEW w \in Worker,
             \/ Classify(w) \/ Extract(w) \/ Embed(w) \/ Retrieve(w) \/ TicketSearch(w)
             \/ TicketPost(w) \/ Draft(w) \/ Notify(w) \/ Conclude(w)
      PROVE  ReplyInv'
  <2>1. mails' = mails /\ repeats' = repeats /\ run[w].phase \notin {"idle", "save", "finalize"}
    BY <1>6 DEF Classify, Extract, Embed, Retrieve, TicketSearch, TicketPost, Draft, Notify,
                Conclude, At, world, count
  <2>2. run'[w].node = run[w].node /\ \A v \in Worker \ {w} : run'[v] = run[v]
    <3>0. CASE Classify(w)
      BY <1>0, <3>0 DEF Classify, RunState
    <3>1. CASE Extract(w)
      BY <1>0, <3>1 DEF Extract, RunState
    <3>2. CASE Embed(w) \/ Notify(w)
      BY <1>0, <3>2 DEF Embed, Notify, RunState
    <3>3. CASE Retrieve(w) \/ TicketPost(w) \/ Conclude(w)
      BY <3>3, RepliesAfter DEF Retrieve, TicketPost, Conclude
    <3>4. CASE TicketSearch(w)
      <4>1. CASE Turn(w, "save")
        BY <4>1, RepliesAfter
      <4>2. CASE run' = [run EXCEPT ![w].phase = "post"]
        BY <1>0, <4>2 DEF RunState
      <4> QED BY <3>4, <4>1, <4>2 DEF TicketSearch
    <3>5. CASE Draft(w)
      BY <1>0, <3>5 DEF Draft, RunState
    <3> QED BY <1>6, <3>0, <3>1, <3>2, <3>3, <3>4, <3>5
  <2>3. Replying(run'[w]) => Replying(run[w])
    BY <2>1, <2>2 DEF Replying
  <2> QED BY <1>5, <2>1, <2>2, <2>3
<1>7. ASSUME NEW w \in Worker, CallFails(w) \/ Finalize(w) \/ Crash(w)
      PROVE  ReplyInv'
  <2>1. /\ mails' = mails /\ repeats' = repeats
        /\ Stop(w) \/ (TryAgain(w) /\ Calling(w))
    BY <1>7 DEF CallFails, Finalize, Crash, world, count
  <2> QED BY <1>5, <2>1, RepliesAfter
<1>8. ASSUME NEW w \in Worker, Save(w)  PROVE ReplyInv'
  <2>1. mails' = mails /\ repeats' = repeats /\ run[w].phase = "save"
    BY <1>8 DEF Save, world, count
  <2>2. CASE Turn(w, "finalize")
    BY <1>5, <2>1, <2>2, RepliesAfter DEF Replying
  <2>3. ASSUME NEW n \in Edge[run[w].node],
               run' = [run EXCEPT ![w].node = n, ![w].phase = FirstPhase(n)]
        PROVE  ReplyInv'
    <3>1. run'[w].node = n /\ \A v \in Worker \ {w} : run'[v] = run[v]
      BY <1>0, <2>3 DEF RunState
    <3>2. n \in {"classify", "extract", "retrieve", "create_ticket", "draft_reply"} =>
            run[w].node \in {"classify", "extract", "retrieve", "create_ticket"}
      BY <1>0 DEF RunState, Edge, Node
    <3>3. Replying(run'[w]) => Replying(run[w])
      BY <2>1, <3>1, <3>2 DEF Replying
    <3> QED BY <1>5, <2>1, <3>1, <3>3
  <2> QED BY <1>8, <2>2, <2>3 DEF Save
<1> QED BY <1>1, <1>2, <1>3, <1>4, <1>6, <1>7, <1>8 DEF Next

(***************************************************************************)
(* A second email needs the lost answer of a send, a run begun after the   *)
(* first went out, or one begun during another run.                        *)
(***************************************************************************)
THEOREM RepliesLimited == Spec => []RepliesBounded
<1>1. Init => ReplyInv
  <2> SUFFICES ASSUME Init  PROVE ReplyInv
    OBVIOUS
  <2>1. Repliers = {}
    BY DEF Init, Repliers, Replying, Fresh
  <2> QED BY <2>1, FS_EmptySet DEF Init, ReplyInv
<1>2. TypeOK /\ ReplyInv => RepliesBounded
  <2> SUFFICES ASSUME TypeOK, ReplyInv  PROVE RepliesBounded
    OBVIOUS
  <2>1. Cardinality(Repliers) \in Nat /\ mails \in Nat /\ repeats \in Nat
    BY FS_CardinalityType DEF ReplyInv, TypeOK
  <2> QED BY <2>1 DEF ReplyInv, RepliesBounded
<1> QED BY <1>1, <1>2, ReplyStep, TypeCorrect, PTL DEF Spec

=============================================================================
