-------------------------- MODULE RequestRunProofs --------------------------
(***************************************************************************)
(* Proofs about RequestRun, for every set of workers, every bound and      *)
(* every set of faults.                                                    *)
(***************************************************************************)
EXTENDS RequestRun, FiniteSetTheorems, TLAPS

(***************************************************************************)
(* Replacing what one driver does by a well-formed state keeps the type.   *)
(***************************************************************************)
LEMMA DriverSetType ==
  ASSUME DriverType, NEW d \in Driver, NEW s \in DriverState,
         driver' = [driver EXCEPT ![d] = s]
  PROVE  DriverType'
  BY DEF DriverType

(***************************************************************************)
(* The idle state, and the states Leave, Fail and Goto lead to, are        *)
(* driver states.                                                          *)
(***************************************************************************)
LEMMA DriverMoves ==
  ASSUME DriverType, NEW d \in Driver
  PROVE  /\ Idle \in DriverState
         /\ \A pc \in DriverPC : Leave(d, pc) => DriverType'
         /\ \A pc \in DriverPC : Goto(d, pc) => DriverType'
         /\ \A retryable \in BOOLEAN : Fail(d, retryable) => DriverType'
         /\ UNCHANGED driver => DriverType'
<1>1. driver[d] \in DriverState
  BY DEF DriverType
<1>2. Idle \in DriverState
  BY DEF Idle, DriverState, DriverPC, Node, Status, Terminal, Outcome
<1>3. ASSUME NEW pc \in DriverPC, Leave(d, pc)  PROVE DriverType'
  <2>1. [Idle EXCEPT !.pc = pc, !.mode = driver[d].mode] \in DriverState
    BY <1>1, <1>2 DEF DriverState
  <2> QED BY <2>1, <1>3, DriverSetType DEF Leave
<1>4. ASSUME NEW pc \in DriverPC, Goto(d, pc)  PROVE DriverType'
  <2>1. [driver[d] EXCEPT !.pc = pc] \in DriverState
    BY <1>1 DEF DriverState
  <2>2. driver' = [driver EXCEPT ![d] = [driver[d] EXCEPT !.pc = pc]]
    BY <1>4 DEF Goto
  <2> QED BY <2>1, <2>2, DriverSetType
<1>5. ASSUME NEW r \in BOOLEAN, Fail(d, r)  PROVE DriverType'
  <2>1. [Idle EXCEPT !.pc = "fail", !.mode = driver[d].mode,
                     !.attempts = driver[d].attempts, !.retryable = r] \in DriverState
    BY <1>1, <1>2 DEF DriverState, DriverPC
  <2> QED BY <2>1, <1>5, DriverSetType DEF Fail
<1>6. UNCHANGED driver => DriverType'
  BY DEF DriverType
<1> QED BY <1>2, <1>3, <1>4, <1>5, <1>6

(***************************************************************************)
(* Every operation of the queue keeps its type.                            *)
(***************************************************************************)
LEMMA QueueMoves ==
  ASSUME QueueType,
         \/ Q!Enqueue(Req) \/ Q!Deliver(Req) \/ Q!Ack(Req) \/ Q!Redeliver(Req)
         \/ Q!Bury(Req) \/ Q!Replay(Req) \/ UNCHANGED queue
  PROVE  QueueType'
<1>1. CASE Q!Enqueue(Req)
  BY <1>1 DEF QueueType, Q!Enqueue, Q!Add
<1>2. CASE Q!Deliver(Req)
  BY <1>2 DEF QueueType, Q!Deliver, Q!Add, Q!Take
<1>3. CASE Q!Ack(Req)
  BY <1>3 DEF QueueType, Q!Ack, Q!Take
<1>4. CASE Q!Redeliver(Req)
  BY <1>4 DEF QueueType, Q!Redeliver, Q!Add, Q!Take
<1>5. CASE Q!Bury(Req)
  BY <1>5 DEF QueueType, Q!Bury, Q!Add, Q!Take
<1>6. CASE Q!Replay(Req)
  BY <1>6 DEF QueueType, Q!Replay, Q!Add, Q!Take
<1>7. CASE UNCHANGED queue
  BY <1>7 DEF QueueType, queue
<1> QED BY <1>1, <1>2, <1>3, <1>4, <1>5, <1>6, <1>7

(***************************************************************************)
(* The initial states have the type.                                       *)
(***************************************************************************)
LEMMA TypeInit == Init => TypeOK
<1> SUFFICES ASSUME Init  PROVE TypeOK
  OBVIOUS
<1>1. StoreType
  BY DEF Init, StoreType, Row, Outcome
<1>2. QueueType
  BY DEF Init, QueueType, Q!Init
<1>3. DriverType
  BY DEF Init, DriverType, Idle, DriverState, DriverPC, Node, Status, Terminal, Outcome
<1> QED BY <1>1, <1>2, <1>3 DEF TypeOK

(***************************************************************************)
(* The API calls and the queue's own moves keep the type.                  *)
(***************************************************************************)
LEMMA TypeApi ==
  ASSUME TypeOK,
         \/ \E mode \in Modes : Submit(mode)
         \/ EnqueueCall \/ RetryRead \/ RetryCommit \/ CallCrash
         \/ \E d \in Worker : Deliver(d)
         \/ Redeliver \/ ReplayDead
  PROVE  TypeOK'
<1> USE DEF TypeOK
<1>0. StoreType /\ QueueType /\ DriverType
  OBVIOUS
<1>1. ASSUME NEW mode \in Modes, Submit(mode)  PROVE TypeOK'
  <2>1. StoreType'
    <3>1. row' \in Row
      BY <1>0, <1>1 DEF StoreType, Submit, Row, Status
    <3>2. calls' \in Nat
      <4>1. calls \in Nat
        BY <1>0 DEF StoreType
      <4>2. calls' = calls + 1 \/ UNCHANGED calls
        BY <1>1 DEF Submit
      <4> QED BY <4>1, <4>2
    <3> QED BY <1>0, <1>1, <3>1, <3>2 DEF StoreType, Submit, history
  <2>2. QueueType'
    BY <1>0, <1>1, QueueMoves DEF Submit
  <2>3. DriverType'
    <3>1. Api \in Driver
      BY DEF Driver
    <3>2. [Idle EXCEPT !.pc = "read", !.mode = mode] \in DriverState
      BY <1>0, <3>1, ModesAssumption, DriverMoves DEF DriverState, DriverPC
    <3>3. CASE mode = "queue"
      BY <1>0, <1>1, <3>1, <3>3, DriverMoves DEF Submit
    <3>4. CASE mode # "queue"
      <4>1. driver' = [driver EXCEPT ![Api] = [Idle EXCEPT !.pc = "read", !.mode = mode]]
        BY <1>1, <3>4 DEF Submit
      <4> QED BY <1>0, <3>1, <3>2, <4>1, DriverSetType
    <3> QED BY <3>3, <3>4
  <2> QED BY <2>1, <2>2, <2>3
<1>2. ASSUME EnqueueCall \/ RetryRead \/ RetryCommit \/ CallCrash  PROVE TypeOK'
  <2>1. StoreType'
    <3>1. row' \in Row
      <4>1. row \in Row
        BY <1>0 DEF StoreType
      <4>2. CASE RetryCommit
        BY <4>1, <4>2 DEF RetryCommit, Row, Status
      <4>3. CASE EnqueueCall \/ RetryRead \/ CallCrash
        BY <4>1, <4>3 DEF EnqueueCall, RetryRead, CallCrash, record
      <4> QED BY <1>2, <4>2, <4>3
    <3>2. calls' \in Nat /\ retrying' \in Nat /\ retries' \in Nat /\ doubled' \in Nat
      BY <1>0, <1>2 DEF StoreType, EnqueueCall, RetryRead, RetryCommit, CallCrash
    <3>3. runs' \in Nat /\ overlaps' \in Nat /\ late' \in Nat /\ faults' \in Nat
      BY <1>0, <1>2 DEF StoreType, EnqueueCall, RetryRead, RetryCommit, CallCrash, history
    <3>4. UNCHANGED <<steps, artifacts, logged, posted>>
      BY <1>2 DEF EnqueueCall, RetryRead, RetryCommit, CallCrash, record
    <3> QED BY <1>0, <3>1, <3>2, <3>3, <3>4 DEF StoreType
  <2>2. QueueType'
    BY <1>0, <1>2, QueueMoves DEF EnqueueCall, RetryRead, RetryCommit, CallCrash
  <2>3. DriverType'
    BY <1>0, <1>2 DEF DriverType, EnqueueCall, RetryRead, RetryCommit, CallCrash
  <2> QED BY <2>1, <2>2, <2>3
<1>3. ASSUME NEW d \in Worker, Deliver(d)  PROVE TypeOK'
  <2>1. StoreType'
    BY <1>0, <1>3 DEF StoreType, Deliver, record, api, history
  <2>2. QueueType'
    BY <1>0, <1>3, QueueMoves DEF Deliver
  <2>3. DriverType'
    <3>1. d \in Driver
      BY DEF Driver
    <3>2. [Idle EXCEPT !.pc = "read"] \in DriverState
      BY <1>0, <3>1, DriverMoves DEF DriverState, DriverPC
    <3> QED BY <1>0, <1>3, <3>1, <3>2, DriverSetType DEF Deliver
  <2> QED BY <2>1, <2>2, <2>3
<1>4. ASSUME Redeliver \/ ReplayDead  PROVE TypeOK'
  <2>1. StoreType'
    BY <1>0, <1>4 DEF StoreType, Redeliver, ReplayDead, Expired, record, api, history
  <2>2. QueueType'
    BY <1>0, <1>4, QueueMoves DEF Redeliver, ReplayDead
  <2>3. DriverType'
    BY <1>0, <1>4 DEF DriverType, Redeliver, ReplayDead
  <2> QED BY <2>1, <2>2, <2>3
<1> QED BY <1>1, <1>2, <1>3, <1>4

(***************************************************************************)
(* The steps of process_request, and its faults, keep the type.            *)
(***************************************************************************)
LEMMA TypeDriver ==
  ASSUME TypeOK, NEW d \in Driver,
         Drive(d) \/ RunDbFails(d) \/ DriverRaises(d) \/ Crash(d)
  PROVE  TypeOK'
<1> USE DEF TypeOK
<1>0. StoreType /\ QueueType /\ DriverType
  OBVIOUS
<1>a. driver[d] \in DriverState
  BY <1>0 DEF DriverType
<1>1. CASE BeginRead(d)
  <2>1. StoreType'
    <3>1. row' \in Row
      BY <1>0, <1>1 DEF StoreType, BeginRead, Row, Status, Terminal, Outcome
    <3>2. overlaps' \in Nat
      BY <1>0, <1>1 DEF StoreType, BeginRead, CountOverlap
    <3> QED BY <1>0, <1>1, <3>1, <3>2 DEF StoreType, BeginRead, api, history
  <2>2. QueueType'
    BY <1>0, <1>1, QueueMoves DEF BeginRead
  <2>3. DriverType'
    <3>1. CASE Leave(d, "ack")
      BY <1>0, <3>1, DriverMoves DEF DriverPC
    <3>2. CASE See(d)
      <4>1. row.status \in Status \cup {"none"} /\ row.attempts \in Nat
        BY <1>0 DEF StoreType, Row
      <4> DEFINE s == [driver[d] EXCEPT !.pc = "mark", !.status = row.status,
                                        !.seen = row.attempts]
      <4>2. s \in DriverState
        BY <1>a, <4>1 DEF DriverState, DriverPC
      <4>3. driver' = [driver EXCEPT ![d] = s]
        BY <3>2 DEF See
      <4> QED BY <1>0, <4>2, <4>3, DriverSetType
    <3> QED BY <1>1, <3>1, <3>2 DEF BeginRead
  <2> QED BY <2>1, <2>2, <2>3
<1>2. CASE BeginMark(d)
  <2>1. StoreType'
    <3>1. row' \in Row
      <4>1. row \in Row
        BY <1>0 DEF StoreType
      <4>2. driver[d].seen + 1 \in Nat
        BY <1>a DEF DriverState
      <4>3. PICK st \in Status \cup {"none"} :
              row' = [row EXCEPT !.status = st, !.attempts = driver[d].seen + 1]
        BY <1>2, <4>1 DEF BeginMark, Row, Status
      <4> QED BY <4>1, <4>2, <4>3 DEF Row
    <3> QED BY <1>0, <1>2, <3>1 DEF StoreType, BeginMark, api, history
  <2>2. QueueType'
    BY <1>0, <1>2, QueueMoves DEF BeginMark
  <2>3. DriverType'
    <3> DEFINE s == [Idle EXCEPT !.pc = "load", !.attempts = driver[d].seen + 1,
                                 !.mode = driver[d].mode]
    <3>1. s \in DriverState
      <4>1. Idle \in DriverState
        BY <1>0, DriverMoves
      <4>2. driver[d].seen + 1 \in Nat /\ driver[d].mode \in {"queue", "inline", "stream"}
        BY <1>a DEF DriverState
      <4> QED BY <4>1, <4>2 DEF DriverState, DriverPC
    <3>2. driver' = [driver EXCEPT ![d] = s]
      BY <1>2 DEF BeginMark
    <3> HIDE DEF s
    <3> QED BY <1>0, <3>1, <3>2, DriverSetType
  <2> QED BY <2>1, <2>2, <2>3
<1>3. CASE Load(d)
  <2>1. StoreType'
    BY <1>0, <1>3 DEF StoreType, Load, record, api, history
  <2>2. QueueType'
    BY <1>0, <1>3, QueueMoves DEF Load
  <2>3. DriverType'
    <3> DEFINE s == [driver[d] EXCEPT !.pc = "node", !.node = "classify"]
    <3>1. s \in DriverState
      BY <1>a DEF DriverState, DriverPC, Node
    <3>2. driver' = [driver EXCEPT ![d] = s]
      BY <1>3 DEF Load
    <3> HIDE DEF s
    <3> QED BY <1>0, <3>1, <3>2, DriverSetType
  <2> QED BY <2>1, <2>2, <2>3
<1>4. CASE RunNode(d)
  <2>1. StoreType'
    BY <1>0, <1>4 DEF StoreType, RunNode, record, api, history
  <2>2. QueueType'
    BY <1>0, <1>4, QueueMoves DEF RunNode
  <2>3. DriverType'
    BY <1>0, <1>4, DriverMoves DEF RunNode, DriverPC
  <2> QED BY <2>1, <2>2, <2>3
<1>5. CASE NodeFails(d)
  <2>1. StoreType'
    BY <1>0, <1>5 DEF StoreType, NodeFails, record, api, history
  <2>2. QueueType'
    BY <1>0, <1>5, QueueMoves DEF NodeFails
  <2>3. DriverType'
    BY <1>0, <1>5, DriverMoves DEF NodeFails
  <2> QED BY <2>1, <2>2, <2>3
<1>b. Follow(d) => DriverType'
  <2>1. ASSUME NEW n \in Node, driver' = [driver EXCEPT ![d].pc = "node", ![d].node = n]
        PROVE  DriverType'
    <3> DEFINE s == [driver[d] EXCEPT !.pc = "node", !.node = n]
    <3>1. s \in DriverState
      BY <1>a DEF DriverState, DriverPC
    <3>2. driver' = [driver EXCEPT ![d] = s]
      BY <2>1
    <3> HIDE DEF s
    <3> QED BY <1>0, <3>1, <3>2, DriverSetType
  <2>2. Goto(d, "finalize") => DriverType'
    BY <1>0, DriverMoves DEF DriverPC
  <2>3. Follow(d) => \/ Goto(d, "finalize")
                     \/ \E n \in Node : driver' = [driver EXCEPT ![d].pc = "node", ![d].node = n]
    BY DEF Follow, Node
  <2> QED BY <2>1, <2>2, <2>3
<1>6. CASE CheckStep(d)
  <2>1. StoreType'
    BY <1>0, <1>6 DEF StoreType, CheckStep, record, api, history
  <2>2. QueueType'
    BY <1>0, <1>6, QueueMoves DEF CheckStep
  <2>3. DriverType'
    BY <1>0, <1>6, <1>b, DriverMoves DEF CheckStep, DriverPC
  <2> QED BY <2>1, <2>2, <2>3
<1>7. CASE SaveStep(d)
  <2>1. StoreType'
    <3>1. steps' \subseteq Node
      BY <1>0, <1>a, <1>7 DEF StoreType, SaveStep, DriverState
    <3> QED BY <1>0, <1>7, <3>1 DEF StoreType, SaveStep, api, history
  <2>2. QueueType'
    BY <1>0, <1>7, QueueMoves DEF SaveStep
  <2>3. DriverType'
    BY <1>0, <1>7, <1>b, DriverMoves DEF SaveStep
  <2> QED BY <2>1, <2>2, <2>3
<1>8. CASE Finalize(d)
  <2>1. StoreType'
    <3>1. OutcomeOf(driver[d].node) \in Outcome
      BY DEF OutcomeOf, Outcome
    <3>2. artifacts' \in [Outcome -> Nat]
      BY <1>0, <1>8, <3>1 DEF StoreType, Finalize
    <3>3. row' \in Row
      BY <1>0, <1>8, <3>1 DEF StoreType, Finalize, Row, Status, Terminal
    <3> QED BY <1>0, <1>8, <3>2, <3>3 DEF StoreType, Finalize, api, history
  <2>2. QueueType'
    BY <1>0, <1>8, QueueMoves DEF Finalize
  <2>3. DriverType'
    <3>1. \E pc \in DriverPC : Goto(d, pc)
      BY <1>8 DEF Finalize, DriverPC
    <3> QED BY <1>0, <3>1, DriverMoves
  <2> QED BY <2>1, <2>2, <2>3
<1>9. CASE PersistCost(d)
  <2>1. StoreType'
    <3>1. LedgerOf(OutcomeOf(driver[d].node)) \in Nat
      BY DEF LedgerOf
    <3>2. logged' \in Nat
      BY <1>0, <1>9, <3>1 DEF StoreType, PersistCost
    <3>3. row' \in Row
      BY <1>0, <1>9, <3>1 DEF StoreType, PersistCost, Row
    <3> QED BY <1>0, <1>9, <3>2, <3>3 DEF StoreType, PersistCost, api, history
  <2>2. QueueType'
    BY <1>0, <1>9, QueueMoves DEF PersistCost
  <2>3. DriverType'
    BY <1>0, <1>9, DriverMoves DEF PersistCost, DriverPC
  <2> QED BY <2>1, <2>2, <2>3
<1>10. CASE Callback(d)
  <2>1. StoreType'
    <3>1. row.status \in Status \cup {"none"}
      BY <1>0 DEF StoreType, Row
    <3> QED BY <1>0, <1>10, <3>1 DEF StoreType, Callback, api, history
  <2>2. QueueType'
    BY <1>0, <1>10, QueueMoves DEF Callback
  <2>3. DriverType'
    BY <1>0, <1>10, DriverMoves DEF Callback, DriverPC
  <2> QED BY <2>1, <2>2, <2>3
<1>11. CASE HandleFailure(d)
  <2>1. StoreType'
    <3>1. row' \in Row
      BY <1>0, <1>11 DEF StoreType, HandleFailure, Row, Status, Terminal
    <3> QED BY <1>0, <1>11, <3>1 DEF StoreType, HandleFailure, api, history
  <2>2. QueueType'
    BY <1>0, <1>11, QueueMoves DEF HandleFailure
  <2>3. DriverType'
    <3>1. \E pc \in DriverPC : Leave(d, pc)
      BY <1>11 DEF HandleFailure, DriverPC
    <3> QED BY <1>0, <3>1, DriverMoves
  <2> QED BY <2>1, <2>2, <2>3
<1>12. CASE Requeue(d)
  <2>1. StoreType'
    BY <1>0, <1>12 DEF StoreType, Requeue, record, api, history
  <2>2. QueueType'
    BY <1>0, <1>12, QueueMoves DEF Requeue
  <2>3. DriverType'
    BY <1>0, <1>12, DriverMoves DEF Requeue, DriverPC
  <2> QED BY <2>1, <2>2, <2>3
<1>13. CASE Ack(d)
  <2>1. StoreType'
    BY <1>0, <1>13 DEF StoreType, Ack, record, api, history
  <2>2. QueueType'
    BY <1>0, <1>13, QueueMoves DEF Ack
  <2>3. DriverType'
    <3>1. Idle \in DriverState
      BY <1>0, DriverMoves
    <3> QED BY <1>0, <1>13, <3>1, DriverSetType DEF Ack
  <2> QED BY <2>1, <2>2, <2>3
<1>14. CASE RunDbFails(d) \/ DriverRaises(d) \/ Crash(d)
  <2>1. StoreType'
    <3>1. faults' \in Nat
      <4>1. faults \in Nat
        BY <1>0 DEF StoreType
      <4>2. faults' = faults + 1
        BY <1>14 DEF RunDbFails, DriverRaises, Crash, Fault
      <4> QED BY <4>1, <4>2
    <3>2. UNCHANGED <<record, api, runs, overlaps>>
      BY <1>14 DEF RunDbFails, DriverRaises, Crash, history
    <3>3. late' \in Nat
      <4>1. late \in Nat
        BY <1>0 DEF StoreType
      <4>2. late' = late \/ late' = late + 1
        BY <1>14 DEF RunDbFails, DriverRaises, Crash, history
      <4> QED BY <4>1, <4>2
    <3> QED BY <1>0, <3>1, <3>2, <3>3 DEF StoreType, record, api
  <2>2. QueueType'
    BY <1>0, <1>14, QueueMoves DEF RunDbFails, DriverRaises, Crash
  <2>3. DriverType'
    <3>1. CASE RunDbFails(d)
      BY <1>0, <3>1, DriverMoves DEF RunDbFails
    <3>2. CASE DriverRaises(d)
      BY <1>0, <3>2, DriverMoves DEF DriverRaises, DriverPC
    <3>3. CASE Crash(d)
      <4>1. Idle \in DriverState
        BY <1>0, DriverMoves
      <4> QED BY <1>0, <3>3, <4>1, DriverSetType DEF Crash
    <3> QED BY <1>14, <3>1, <3>2, <3>3
  <2> QED BY <2>1, <2>2, <2>3
<1> QED BY <1>1, <1>2, <1>3, <1>4, <1>5, <1>6, <1>7, <1>8, <1>9, <1>10, <1>11, <1>12,
           <1>13, <1>14 DEF Drive

(***************************************************************************)
(* A step that changes none of the variables keeps the type.               *)
(***************************************************************************)
LEMMA TypeStutter == TypeOK /\ UNCHANGED vars => TypeOK'
<1> SUFFICES ASSUME TypeOK, UNCHANGED vars  PROVE TypeOK'
  OBVIOUS
<1> USE DEF TypeOK
<1>1. StoreType'
  BY DEF StoreType, vars, record, api, history
<1>2. QueueType'
  BY DEF QueueType, vars, queue
<1>3. DriverType'
  BY DEF DriverType, vars
<1> QED BY <1>1, <1>2, <1>3

(***************************************************************************)
(* Every step keeps the type.                                              *)
(***************************************************************************)
LEMMA TypeStep == TypeOK /\ [Next]_vars => TypeOK'
BY TypeApi, TypeDriver, TypeStutter DEF Next

(***************************************************************************)
(* The request, its store, its copies on the queue and its drivers always  *)
(* have their types, whatever fails.                                       *)
(***************************************************************************)
THEOREM TypeCorrect == Spec => []TypeOK
<1>1. Init => TypeOK
  BY TypeInit
<1>2. TypeOK /\ [Next]_vars => TypeOK'
  BY TypeStep
<1> QED BY <1>1, <1>2, PTL DEF Spec

-----------------------------------------------------------------------------
(***************************************************************************)
(* A driver about to finalize has just run a terminal node whose           *)
(* checkpoint is stored.  StatusHasCheckpoint needs it: Finalize itself    *)
(* looks at no checkpoint.                                                 *)
(***************************************************************************)
FinalizesStored == \A d \in Driver :
    driver[d].pc = "finalize" => driver[d].node \in steps \cap TerminalSteps
CheckpointInv == TypeOK /\ FinalizesStored /\ StatusHasCheckpoint

(***************************************************************************)
(* The API's and the queue's steps, and faults, start no finalize, remove  *)
(* no checkpoint, and set no outcome.                                      *)
(***************************************************************************)
LEMMA CheckpointKept ==
  ASSUME TypeOK, FinalizesStored, StatusHasCheckpoint,
         steps \subseteq steps',
         row'.status \in Outcome => row'.status = row.status,
         NEW d \in Driver, NEW s, s.pc # "finalize",
         driver' = [driver EXCEPT ![d] = s] \/ UNCHANGED driver
  PROVE  FinalizesStored' /\ StatusHasCheckpoint'
<1>1. FinalizesStored'
  BY DEF FinalizesStored, TypeOK, DriverType
<1>2. StatusHasCheckpoint'
  BY DEF StatusHasCheckpoint
<1> QED BY <1>1, <1>2

(***************************************************************************)
(* Each step of the API and the queue is such a step.                      *)
(***************************************************************************)
LEMMA CheckpointApi ==
  ASSUME CheckpointInv,
         \/ \E mode \in Modes : Submit(mode)
         \/ EnqueueCall \/ RetryRead \/ RetryCommit \/ CallCrash
         \/ \E d \in Worker : Deliver(d)
         \/ Redeliver \/ ReplayDead
  PROVE  FinalizesStored' /\ StatusHasCheckpoint'
<1>0. TypeOK /\ FinalizesStored /\ StatusHasCheckpoint
  BY DEF CheckpointInv
<1>1. Api \in Driver /\ row \in Row
  BY <1>0 DEF TypeOK, StoreType, Driver
<1>2. ASSUME NEW mode \in Modes, Submit(mode)
      PROVE  FinalizesStored' /\ StatusHasCheckpoint'
  <2> DEFINE s == [Idle EXCEPT !.pc = "read", !.mode = mode]
  <2>1. s.pc # "finalize"
    BY DEF Idle
  <2>2. driver' = [driver EXCEPT ![Api] = s] \/ UNCHANGED driver
    BY <1>2 DEF Submit
  <2>3. steps' = steps /\ row'.status = "queued"
    BY <1>1, <1>2 DEF Submit, Row
  <2> HIDE DEF s
  <2> QED BY <1>0, <1>1, <2>1, <2>2, <2>3, CheckpointKept DEF Outcome
<1>3. ASSUME EnqueueCall \/ RetryRead \/ RetryCommit \/ CallCrash \/ Redeliver \/ ReplayDead
      PROVE  FinalizesStored' /\ StatusHasCheckpoint'
  <2>1. steps' = steps /\ driver' = driver
    BY <1>3 DEF EnqueueCall, RetryRead, RetryCommit, CallCrash, Redeliver, ReplayDead, record
  <2>2. row' = row \/ row'.status = "queued"
    <3>1. CASE RetryCommit
      BY <1>1, <3>1 DEF RetryCommit, Row
    <3>2. CASE EnqueueCall \/ RetryRead \/ CallCrash \/ Redeliver \/ ReplayDead
      BY <3>2 DEF EnqueueCall, RetryRead, CallCrash, Redeliver, ReplayDead, record
    <3> QED BY <1>3, <3>1, <3>2
  <2>3. Idle.pc # "finalize"
    BY DEF Idle
  <2> QED BY <1>0, <1>1, <2>1, <2>2, <2>3, CheckpointKept DEF Outcome
<1>4. ASSUME NEW d \in Worker, Deliver(d)  PROVE FinalizesStored' /\ StatusHasCheckpoint'
  <2> DEFINE s == [Idle EXCEPT !.pc = "read"]
  <2>1. d \in Driver /\ s.pc # "finalize"
    BY DEF Driver, Idle
  <2>2. driver' = [driver EXCEPT ![d] = s] /\ steps' = steps /\ row' = row
    BY <1>4 DEF Deliver, record
  <2> HIDE DEF s
  <2> QED BY <1>0, <2>1, <2>2, CheckpointKept
<1> QED BY <1>2, <1>3, <1>4

(***************************************************************************)
(* The steps of process_request that finalize or settle: the status they   *)
(* write is backed by a checkpoint.  The others are again such steps.      *)
(***************************************************************************)
LEMMA CheckpointDriver ==
  ASSUME CheckpointInv, NEW d \in Driver,
         Drive(d) \/ RunDbFails(d) \/ DriverRaises(d) \/ Crash(d)
  PROVE  FinalizesStored' /\ StatusHasCheckpoint'
<1>0. TypeOK /\ FinalizesStored /\ StatusHasCheckpoint
  BY DEF CheckpointInv
<1>1. /\ driver \in [Driver -> DriverState] /\ driver[d] \in DriverState
      /\ row \in Row /\ steps \subseteq Node
  BY <1>0 DEF TypeOK, DriverType, StoreType
<1>2. ASSUME NEW pc \in DriverPC \ {"finalize"}, Leave(d, pc) \/ Goto(d, pc),
             steps' = steps, row'.status \in Outcome => row'.status = row.status
      PROVE  FinalizesStored' /\ StatusHasCheckpoint'
  <2>1. PICK s : s.pc # "finalize" /\ driver' = [driver EXCEPT ![d] = s]
    <3>1. CASE Leave(d, pc)
      <4> DEFINE s == [Idle EXCEPT !.pc = pc, !.mode = driver[d].mode]
      <4>1. s.pc = pc
        BY DEF Idle
      <4> QED BY <3>1, <4>1 DEF Leave
    <3>2. CASE Goto(d, pc)
      <4> DEFINE s == [driver[d] EXCEPT !.pc = pc]
      <4>1. s.pc = pc
        BY <1>1 DEF DriverState
      <4>2. driver' = [driver EXCEPT ![d] = s]
        BY <3>2 DEF Goto
      <4> HIDE DEF s
      <4> QED BY <4>1, <4>2
    <3> QED BY <1>2, <3>1, <3>2
  <2> QED BY <1>0, <1>2, <2>1, CheckpointKept
<1>3. ASSUME NEW r \in BOOLEAN, Fail(d, r), steps' = steps, row' = row
      PROVE  FinalizesStored' /\ StatusHasCheckpoint'
  <2> DEFINE s == [Idle EXCEPT !.pc = "fail", !.mode = driver[d].mode,
                               !.attempts = driver[d].attempts, !.retryable = r]
  <2>1. s.pc # "finalize"
    BY DEF Idle
  <2>2. driver' = [driver EXCEPT ![d] = s]
    BY <1>3 DEF Fail
  <2> HIDE DEF s
  <2> QED BY <1>0, <1>3, <2>1, <2>2, CheckpointKept
<1>4. ASSUME Follow(d), steps' = steps \cup {driver[d].node}, row' = row
      PROVE  FinalizesStored' /\ StatusHasCheckpoint'
  <2>1. StatusHasCheckpoint'
    BY <1>0, <1>4 DEF StatusHasCheckpoint
  <2>2. CASE Goto(d, "finalize") /\ driver[d].node \in TerminalSteps
    <3>1. driver'[d].node = driver[d].node /\ \A e \in Driver \ {d} : driver'[e] = driver[e]
      BY <1>1, <2>2 DEF Goto, DriverState
    <3> QED BY <1>0, <1>4, <2>1, <2>2, <3>1 DEF FinalizesStored
  <2>3. ASSUME NEW n, driver' = [driver EXCEPT ![d].pc = "node", ![d].node = n]
        PROVE  FinalizesStored'
    <3>1. driver'[d].pc = "node" /\ \A e \in Driver \ {d} : driver'[e] = driver[e]
      BY <1>1, <2>3 DEF DriverState
    <3> QED BY <1>0, <1>4, <3>1 DEF FinalizesStored
  <2>4. driver[d].node \in Node
    BY <1>1 DEF DriverState
  <2>5. \/ Goto(d, "finalize") /\ driver[d].node \in TerminalSteps
        \/ \E n : driver' = [driver EXCEPT ![d].pc = "node", ![d].node = n]
    BY <1>4, <2>4 DEF Follow, Node, TerminalSteps
  <2> QED BY <2>1, <2>2, <2>3, <2>5
<1>5. CASE BeginRead(d)
  <2>1. steps' = steps /\ (row' = row \/ (row'.status \in Outcome /\ NodeOf(row'.status) \in steps))
    BY <1>1, <1>5 DEF BeginRead, Row, NodeOf, Outcome, TerminalSteps
  <2>2. PICK s : s.pc # "finalize" /\ driver' = [driver EXCEPT ![d] = s]
    <3>1. CASE Leave(d, "ack")
      <4> DEFINE s == [Idle EXCEPT !.pc = "ack", !.mode = driver[d].mode]
      <4>1. s.pc = "ack"
        BY DEF Idle
      <4> QED BY <3>1, <4>1 DEF Leave
    <3>2. CASE See(d)
      <4> DEFINE s == [driver[d] EXCEPT !.pc = "mark", !.status = row.status,
                                        !.seen = row.attempts]
      <4>1. s.pc = "mark"
        BY <1>1 DEF DriverState
      <4>2. driver' = [driver EXCEPT ![d] = s]
        BY <3>2 DEF See
      <4> HIDE DEF s
      <4> QED BY <4>1, <4>2
    <3> QED BY <1>5, <3>1, <3>2 DEF BeginRead
  <2>3. FinalizesStored'
    BY <1>0, <1>1, <2>1, <2>2 DEF FinalizesStored
  <2>4. StatusHasCheckpoint'
    BY <1>0, <2>1 DEF StatusHasCheckpoint
  <2> QED BY <2>3, <2>4
<1>6. CASE BeginMark(d)
  <2> DEFINE s == [Idle EXCEPT !.pc = "load", !.attempts = driver[d].seen + 1,
                               !.mode = driver[d].mode]
  <2>1. s.pc # "finalize"
    BY DEF Idle
  <2>2. driver' = [driver EXCEPT ![d] = s] /\ steps' = steps
    BY <1>6 DEF BeginMark
  <2>3. row'.status \in {row.status, "running"}
    BY <1>1, <1>6 DEF BeginMark, Row
  <2> HIDE DEF s
  <2> QED BY <1>0, <2>1, <2>2, <2>3, CheckpointKept DEF Outcome
<1>7. CASE Load(d)
  <2> DEFINE s == [driver[d] EXCEPT !.pc = "node", !.node = "classify"]
  <2>1. s.pc # "finalize"
    BY <1>1 DEF DriverState
  <2>2. driver' = [driver EXCEPT ![d] = s] /\ steps' = steps /\ row' = row
    BY <1>7 DEF Load, record
  <2> HIDE DEF s
  <2> QED BY <1>0, <2>1, <2>2, CheckpointKept
<1>8. CASE RunNode(d) \/ Callback(d) \/ Requeue(d)
  BY <1>2, <1>8 DEF RunNode, Callback, Requeue, record, DriverPC
<1>9. CASE NodeFails(d) \/ RunDbFails(d)
  BY <1>3, <1>9 DEF NodeFails, RunDbFails, record
<1>10. CASE CheckStep(d)
  <2>1. steps' = steps /\ row' = row
    BY <1>10 DEF CheckStep, record
  <2>2. CASE driver[d].node \in steps
    BY <1>4, <1>10, <2>1, <2>2 DEF CheckStep
  <2>3. CASE driver[d].node \notin steps
    BY <1>2, <1>10, <2>1, <2>3 DEF CheckStep, DriverPC
  <2> QED BY <2>2, <2>3
<1>11. CASE SaveStep(d)
  BY <1>3, <1>4, <1>11 DEF SaveStep
<1>12. CASE Finalize(d)
  <2>1. driver[d].node \in steps \cap TerminalSteps
    BY <1>0, <1>12 DEF Finalize, FinalizesStored
  <2>2. row'.status = OutcomeOf(driver[d].node) /\ steps' = steps
    BY <1>1, <1>12 DEF Finalize, Row
  <2>3. StatusHasCheckpoint'
    BY <2>1, <2>2 DEF StatusHasCheckpoint, OutcomeOf, NodeOf, TerminalSteps
  <2>4. \A e \in Driver : driver'[e].pc = "finalize" => e # d /\ driver'[e] = driver[e]
    BY <1>1, <1>12 DEF Finalize, Goto, DriverState
  <2>5. FinalizesStored'
    BY <1>0, <2>2, <2>4 DEF FinalizesStored
  <2> QED BY <2>3, <2>5
<1>13. CASE PersistCost(d)
  <2>1. row'.status = row.status /\ steps' = steps
    BY <1>1, <1>13 DEF PersistCost, Row
  <2> QED BY <1>2, <1>13, <2>1 DEF PersistCost, DriverPC
<1>14. CASE HandleFailure(d)
  <2>1. row'.status \in {"queued", "failed"} /\ steps' = steps
    BY <1>1, <1>14 DEF HandleFailure, Row
  <2>2. Leave(d, "requeue") \/ Leave(d, "callbackFailed")
    BY <1>14 DEF HandleFailure
  <2> QED BY <1>2, <2>1, <2>2 DEF DriverPC, Outcome
<1>15. CASE DriverRaises(d)
  BY <1>2, <1>15 DEF DriverRaises, record, DriverPC
<1>16. CASE Ack(d) \/ Crash(d)
  <2>1. Idle.pc # "finalize"
    BY DEF Idle
  <2>2. driver' = [driver EXCEPT ![d] = Idle] /\ steps' = steps /\ row' = row
    BY <1>16 DEF Ack, Crash, record
  <2> QED BY <1>0, <2>1, <2>2, CheckpointKept
<1> QED BY <1>5, <1>6, <1>7, <1>8, <1>9, <1>10, <1>11, <1>12, <1>13, <1>14, <1>15, <1>16
        DEF Drive

(***************************************************************************)
(* CheckpointInv is inductive.                                             *)
(***************************************************************************)
LEMMA CheckpointStep == CheckpointInv /\ [Next]_vars => CheckpointInv'
<1> SUFFICES ASSUME CheckpointInv, [Next]_vars  PROVE CheckpointInv'
  OBVIOUS
<1>1. TypeOK'
  BY TypeStep DEF CheckpointInv
<1>2. FinalizesStored' /\ StatusHasCheckpoint'
  <2>1. CASE UNCHANGED vars
    BY <2>1 DEF CheckpointInv, FinalizesStored, StatusHasCheckpoint, vars, record
  <2> QED BY <2>1, CheckpointApi, CheckpointDriver DEF Next
<1> QED BY <1>1, <1>2 DEF CheckpointInv

(***************************************************************************)
(* A row never claims an outcome whose node left no checkpoint: however    *)
(* many drivers run the request at once, and wherever they die.            *)
(***************************************************************************)
THEOREM OutcomeIsCheckpointed == Spec => []StatusHasCheckpoint
<1>1. Init => CheckpointInv
  <2> SUFFICES ASSUME Init  PROVE CheckpointInv
    OBVIOUS
  <2>1. FinalizesStored
    BY DEF Init, FinalizesStored, Idle
  <2>2. StatusHasCheckpoint
    BY DEF Init, StatusHasCheckpoint, Outcome
  <2> QED BY <2>1, <2>2, TypeInit DEF CheckpointInv
<1>2. CheckpointInv => StatusHasCheckpoint
  BY DEF CheckpointInv
<1> QED BY <1>1, <1>2, CheckpointStep, PTL DEF Spec

-----------------------------------------------------------------------------
(* What the steps of a driver do, command by command, to its place in the  *)
(* run and to the record.                                                  *)

\* The commands before the outcome is stored, and those of CountOverlap's runs.
Early == {"mark", "load", "node", "check", "save"}
RunPC == Early \cup {"finalize", "fail"}
Ending == {"cost", "callback", "callbackFailed"}
Stored == steps \cap TerminalSteps

Begins(d) ==
    /\ driver[d].pc = "read" /\ driver'[d].pc = "mark"
    /\ driver[d].mode = "stream" \/ (row.status \notin Terminal /\ Stored = {})
    /\ driver'[d].seen = row.attempts
    /\ overlaps' = IF InRun = {} THEN overlaps ELSE overlaps + 1
    /\ UNCHANGED <<record, runs, late, faults>>
Settles(d) ==
    /\ driver[d].pc = "read" /\ driver'[d].pc = "ack"
    /\ row'.cost = row.cost /\ row'.attempts = row.attempts
    /\ \/ row'.status = row.status
       \/ /\ row.status \notin Terminal
          /\ row'.status \in Outcome /\ NodeOf(row'.status) \in Stored
    /\ UNCHANGED <<steps, artifacts, logged, posted, history, faults>>
Marks(d) ==
    /\ driver[d].pc = "mark" /\ driver'[d].pc = "load"
    /\ row'.status \in {row.status, "running"} /\ row'.cost = row.cost
    /\ row'.attempts = driver[d].seen + 1 /\ driver'[d].attempts = driver[d].seen + 1
    /\ runs' = runs + 1
    /\ UNCHANGED <<steps, artifacts, logged, posted, overlaps, late, faults>>
Advances(d) ==
    /\ driver[d].pc \in Early \ {"mark"} /\ driver'[d].pc \in Early \ {"mark"}
    /\ driver'[d].attempts = driver[d].attempts
    /\ Stored' = Stored
    /\ UNCHANGED <<row, artifacts, logged, posted, history, faults>>
Stores(d) ==
    /\ driver[d].pc \in {"check", "save"} /\ driver'[d].pc = "finalize"
    /\ driver[d].node \in TerminalSteps /\ driver'[d].node = driver[d].node
    /\ Stored' = Stored \cup {driver[d].node}
    /\ UNCHANGED <<row, artifacts, logged, posted, history, faults>>
Breaks(d) ==
    /\ driver[d].pc \in {"node", "check", "save", "finalize", "cost", "callback"}
    /\ driver'[d].pc = "fail"
    /\ driver'[d].retryable => driver[d].pc = "node"
    /\ driver'[d].attempts = driver[d].attempts
    /\ faults' \in {faults, faults + 1}
    /\ driver[d].pc \notin {"node", "save"} => faults' = faults + 1
    /\ late' = IF driver[d].pc \in {"finalize", "cost", "callback"} THEN late + 1 ELSE late
    /\ UNCHANGED <<record, runs, overlaps>>
Finalizes(d) ==
    /\ driver[d].pc = "finalize" /\ driver'[d].pc \in {"cost", "callback"}
    /\ driver'[d].node = driver[d].node
    /\ row'.status = OutcomeOf(driver[d].node)
    /\ row'.cost = row.cost /\ row'.attempts = row.attempts
    /\ artifacts' = [artifacts EXCEPT ![OutcomeOf(driver[d].node)] = @ + 1]
    /\ UNCHANGED <<steps, logged, posted, history, faults>>
Costs(d) ==
    /\ driver[d].pc = "cost" /\ driver'[d].pc = "callback"
    /\ \E total \in Nat : row'.cost = total /\ logged' = logged + total
    /\ row'.status = row.status /\ row'.attempts = row.attempts
    /\ UNCHANGED <<steps, artifacts, posted, history, faults>>
Posts(d) ==
    /\ driver[d].pc \in {"callback", "callbackFailed"} /\ driver'[d].pc = "ack"
    /\ posted' \in {posted, posted \cup {row.status}}
    /\ UNCHANGED <<row, steps, artifacts, logged, history, faults>>
Handles(d) ==
    /\ driver[d].pc = "fail"
    /\ \/ /\ row'.status = "queued" /\ driver'[d].pc = "requeue"
          /\ driver[d].retryable /\ driver[d].attempts < MaxAttempts
       \/ row'.status = "failed" /\ driver'[d].pc = "callbackFailed"
    /\ row'.cost = row.cost /\ row'.attempts = row.attempts
    /\ UNCHANGED <<steps, artifacts, logged, posted, history, faults>>
Ends(d) ==
    /\ driver[d].pc # "idle" /\ driver'[d].pc \in {"ack", "idle"}
    /\ faults' \in {faults, faults + 1}
    /\ driver[d].pc \in RunPC => faults' = faults + 1
    /\ UNCHANGED <<record, history>>

(***************************************************************************)
(* Leave, Fail and Goto give a driver its next command and touch no other  *)
(* driver.                                                                 *)
(***************************************************************************)
LEMMA NextCommand ==
  ASSUME DriverType, NEW d \in Driver
  PROVE  /\ \A pc : Leave(d, pc) => driver'[d].pc = pc
         /\ \A pc : Goto(d, pc) => /\ driver'[d].pc = pc
                                   /\ driver'[d].node = driver[d].node
                                   /\ driver'[d].attempts = driver[d].attempts
         /\ \A retryable : Fail(d, retryable) =>
               /\ driver'[d].pc = "fail" /\ driver'[d].retryable = retryable
               /\ driver'[d].attempts = driver[d].attempts
         /\ \A pc : Leave(d, pc) \/ Goto(d, pc) \/ Fail(d, pc) =>
               \A e \in Driver \ {d} : driver'[e] = driver[e]
<1>1. ASSUME NEW s, driver' = [driver EXCEPT ![d] = s]
      PROVE  driver'[d] = s /\ \A e \in Driver \ {d} : driver'[e] = driver[e]
  BY <1>1 DEF DriverType
<1>2. ASSUME NEW pc, Leave(d, pc)
      PROVE  driver'[d].pc = pc /\ \A e \in Driver \ {d} : driver'[e] = driver[e]
  BY <1>1, <1>2 DEF Leave, Idle
<1>3. ASSUME NEW pc, Goto(d, pc)
      PROVE  /\ driver'[d].pc = pc
             /\ driver'[d].node = driver[d].node /\ driver'[d].attempts = driver[d].attempts
             /\ \A e \in Driver \ {d} : driver'[e] = driver[e]
  <2> DEFINE s == [driver[d] EXCEPT !.pc = pc]
  <2>1. driver' = [driver EXCEPT ![d] = s]
    BY <1>3 DEF Goto
  <2>2. s.pc = pc /\ s.node = driver[d].node /\ s.attempts = driver[d].attempts
    BY DEF DriverType, DriverState
  <2> HIDE DEF s
  <2> QED BY <1>1, <2>1, <2>2
<1>4. ASSUME NEW r, Fail(d, r)
      PROVE  /\ driver'[d].pc = "fail" /\ driver'[d].retryable = r
             /\ driver'[d].attempts = driver[d].attempts
             /\ \A e \in Driver \ {d} : driver'[e] = driver[e]
  <2> DEFINE s == [Idle EXCEPT !.pc = "fail", !.mode = driver[d].mode,
                               !.attempts = driver[d].attempts, !.retryable = r]
  <2>1. driver' = [driver EXCEPT ![d] = s]
    BY <1>4 DEF Fail
  <2>2. s.pc = "fail" /\ s.retryable = r /\ s.attempts = driver[d].attempts
    BY DEF Idle
  <2> HIDE DEF s
  <2> QED BY <1>1, <2>1, <2>2
<1> QED BY <1>2, <1>3, <1>4

(***************************************************************************)
(* A driver's step is one of the above and touches no other driver, no API *)
(* call and, but for its requeue and its ack, not the queue.               *)
(***************************************************************************)
LEMMA DriverSteps ==
  ASSUME TypeOK, NEW d \in Driver,
         Drive(d) \/ RunDbFails(d) \/ DriverRaises(d) \/ Crash(d)
  PROVE  /\ \A e \in Driver \ {d} : driver'[e] = driver[e]
         /\ UNCHANGED api
         /\ \/ Begins(d) \/ Settles(d) \/ Marks(d) \/ Advances(d) \/ Stores(d) \/ Breaks(d)
            \/ Finalizes(d) \/ Costs(d) \/ Posts(d) \/ Handles(d) \/ Ends(d)
<1> DEFINE Others == (\A e \in Driver \ {d} : driver'[e] = driver[e]) /\ UNCHANGED api
<1>0. DriverType /\ row \in Row /\ driver[d] \in DriverState
  BY DEF TypeOK, StoreType, DriverType
<1>1. CASE BeginRead(d)
  <2>1. CASE See(d)
    <3>1. Others /\ driver'[d].pc = "mark" /\ driver'[d].seen = row.attempts
      BY <1>0, <1>1, <2>1 DEF BeginRead, See, DriverType, DriverState
    <3>2. row' = row /\ (driver[d].mode = "stream" \/ (row.status \notin Terminal /\ Stored = {}))
      <4>1. ~Leave(d, "ack")
        BY <1>0, <3>1, NextCommand
      <4> QED BY <1>1, <4>1 DEF BeginRead, Stored
    <3>3. Begins(d)
      BY <1>1, <3>1, <3>2 DEF BeginRead, Begins, CountOverlap, record
    <3> QED BY <3>1, <3>3
  <2>2. CASE Leave(d, "ack") /\ ~See(d)
    <3>1. Others /\ driver'[d].pc = "ack"
      BY <1>0, <1>1, <2>2, NextCommand DEF BeginRead
    <3>2. \/ row' = row
          \/ /\ row.status \notin Terminal /\ Stored # {}
             /\ row' = [row EXCEPT !.status = IF "needs_review" \in steps
                                              THEN "needs_review" ELSE "completed"]
      BY <1>1, <2>2 DEF BeginRead, Stored
    <3>3. /\ row'.cost = row.cost /\ row'.attempts = row.attempts
          /\ \/ row'.status = row.status
             \/ /\ row.status \notin Terminal
                /\ row'.status \in Outcome /\ NodeOf(row'.status) \in Stored
      BY <1>0, <3>2 DEF Row, Outcome, NodeOf, Stored, TerminalSteps
    <3>4. Settles(d)
      BY <1>1, <3>1, <3>3 DEF BeginRead, Settles, CountOverlap, history
    <3> QED BY <3>1, <3>4
  <2> QED BY <1>1, <2>1, <2>2 DEF BeginRead
<1>2. CASE BeginMark(d)
  <2>1. Others /\ driver'[d].pc = "load" /\ driver'[d].attempts = driver[d].seen + 1
    BY <1>0, <1>2 DEF BeginMark, DriverType, Idle
  <2>2. /\ row'.status \in {row.status, "running"} /\ row'.cost = row.cost
        /\ row'.attempts = driver[d].seen + 1
    BY <1>0, <1>2 DEF BeginMark, Row
  <2>3. Marks(d)
    BY <1>2, <2>1, <2>2 DEF BeginMark, Marks
  <2> QED BY <2>1, <2>3
<1>3. CASE Load(d)
  <2>1. Others /\ driver'[d].pc = "node" /\ driver'[d].attempts = driver[d].attempts
    BY <1>0, <1>3 DEF Load, DriverType, DriverState
  <2> QED BY <1>3, <2>1 DEF Load, Advances, Early, Stored, record
<1>4. CASE RunNode(d)
  <2>1. Others /\ driver'[d].pc = "check" /\ driver'[d].attempts = driver[d].attempts
    BY <1>0, <1>4, NextCommand DEF RunNode
  <2> QED BY <1>4, <2>1 DEF RunNode, Advances, Early, Stored, record
<1>5. CASE NodeFails(d)
  <2>1. PICK r : Fail(d, r)
    BY <1>5 DEF NodeFails
  <2>2. Others /\ driver'[d].pc = "fail" /\ driver'[d].attempts = driver[d].attempts
    BY <1>0, <1>5, <2>1, NextCommand DEF NodeFails
  <2> QED BY <1>5, <2>2 DEF NodeFails, Breaks, history
<1>6. ASSUME Follow(d), driver[d].pc \in {"check", "save"}, steps' = steps \cup {driver[d].node},
             UNCHANGED <<row, artifacts, logged, posted, api, history, faults>>
      PROVE  Others /\ (Advances(d) \/ Stores(d))
  <2>1. CASE driver[d].node \in TerminalSteps
    <3>1. Goto(d, "finalize")
      BY <1>0, <1>6, <2>1 DEF Follow, TerminalSteps
    <3>2. Others /\ driver'[d].pc = "finalize" /\ driver'[d].node = driver[d].node
      BY <1>0, <1>6, <3>1, NextCommand
    <3>3. Stored' = Stored \cup {driver[d].node}
      BY <1>6, <2>1 DEF Stored
    <3> QED BY <1>6, <2>1, <3>2, <3>3 DEF Stores
  <2>2. CASE driver[d].node \notin TerminalSteps
    <3>1. PICK n \in Node : driver' = [driver EXCEPT ![d].pc = "node", ![d].node = n]
      BY <1>0, <1>6, <2>2 DEF Follow, TerminalSteps, Node, DriverState
    <3>2. Others /\ driver'[d].pc = "node" /\ driver'[d].attempts = driver[d].attempts
      BY <1>0, <1>6, <3>1 DEF DriverType, DriverState
    <3>3. Stored' = Stored
      BY <1>6, <2>2 DEF Stored
    <3> QED BY <1>6, <3>2, <3>3 DEF Advances, Early
  <2> QED BY <2>1, <2>2
<1>7. CASE CheckStep(d)
  <2>1. CASE driver[d].node \in steps
    <3>1. steps' = steps \cup {driver[d].node}
      BY <1>7, <2>1 DEF CheckStep, record
    <3> QED BY <1>6, <1>7, <2>1, <3>1 DEF CheckStep, record
  <2>2. CASE driver[d].node \notin steps
    <3>1. Others /\ driver'[d].pc = "save" /\ driver'[d].attempts = driver[d].attempts
      BY <1>0, <1>7, <2>2, NextCommand DEF CheckStep
    <3> QED BY <1>7, <3>1 DEF CheckStep, Advances, Early, Stored, record
  <2> QED BY <2>1, <2>2
<1>8. CASE SaveStep(d)
  <2>1. CASE driver[d].node \in steps
    <3>1. /\ Others /\ driver'[d].pc = "fail" /\ driver'[d].attempts = driver[d].attempts
          /\ ~driver'[d].retryable
      BY <1>0, <1>8, <2>1, NextCommand DEF SaveStep
    <3> QED BY <1>8, <2>1, <3>1 DEF SaveStep, Breaks, record, history
  <2>2. CASE driver[d].node \notin steps
    BY <1>6, <1>8, <2>2 DEF SaveStep
  <2> QED BY <2>1, <2>2
<1>9. CASE Finalize(d)
  <2>1. Others /\ driver'[d].pc \in {"cost", "callback"} /\ driver'[d].node = driver[d].node
    BY <1>0, <1>9, NextCommand DEF Finalize
  <2>2. /\ row'.status = OutcomeOf(driver[d].node)
        /\ row'.cost = row.cost /\ row'.attempts = row.attempts
    BY <1>0, <1>9 DEF Finalize, Row
  <2> QED BY <1>9, <2>1, <2>2 DEF Finalize, Finalizes
<1>10. CASE PersistCost(d)
  <2>1. Others /\ driver'[d].pc = "callback"
    BY <1>0, <1>10, NextCommand DEF PersistCost
  <2>2. PICK total \in Nat : logged' = logged + total /\ row' = [row EXCEPT !.cost = total]
    BY <1>10 DEF PersistCost, LedgerOf
  <2>3. /\ row'.cost = total /\ row'.status = row.status /\ row'.attempts = row.attempts
    BY <1>0, <2>2 DEF Row
  <2> QED BY <1>10, <2>1, <2>2, <2>3 DEF PersistCost, Costs
<1>11. CASE Callback(d)
  <2>1. Others /\ driver'[d].pc = "ack"
    BY <1>0, <1>11, NextCommand DEF Callback
  <2> QED BY <1>11, <2>1 DEF Callback, Posts
<1>12. CASE HandleFailure(d)
  <2>1. \/ /\ row' = [row EXCEPT !.status = "queued"] /\ Leave(d, "requeue")
           /\ driver[d].retryable /\ driver[d].attempts < MaxAttempts
        \/ row' = [row EXCEPT !.status = "failed"] /\ Leave(d, "callbackFailed")
    BY <1>0, <1>12 DEF HandleFailure, DriverState
  <2>2. /\ Others
        /\ Leave(d, "requeue") => driver'[d].pc = "requeue"
        /\ Leave(d, "callbackFailed") => driver'[d].pc = "callbackFailed"
    BY <1>0, <1>12, <2>1, NextCommand DEF HandleFailure
  <2>3. /\ row' = [row EXCEPT !.status = "queued"] => row'.status = "queued"
        /\ row' = [row EXCEPT !.status = "failed"] => row'.status = "failed"
        /\ row'.cost = row.cost /\ row'.attempts = row.attempts
    BY <1>0, <2>1 DEF Row
  <2> QED BY <1>12, <2>1, <2>2, <2>3 DEF HandleFailure, Handles
<1>13. CASE Requeue(d)
  <2>1. Others /\ driver'[d].pc = "ack"
    BY <1>0, <1>13, NextCommand DEF Requeue
  <2> QED BY <1>13, <2>1 DEF Requeue, Ends, RunPC, Early
<1>14. CASE Ack(d)
  <2>1. Others /\ driver'[d].pc = "idle"
    BY <1>0, <1>14 DEF Ack, DriverType, Idle
  <2> QED BY <1>14, <2>1 DEF Ack, Ends, RunPC, Early
<1>15. CASE RunDbFails(d)
  <2>1. /\ Others /\ driver'[d].pc = "fail" /\ driver'[d].attempts = driver[d].attempts
        /\ ~driver'[d].retryable
    BY <1>0, <1>15, NextCommand DEF RunDbFails
  <2> QED BY <1>15, <2>1 DEF RunDbFails, Breaks, Fault
<1>16. CASE DriverRaises(d)
  <2>1. Others /\ driver'[d].pc = "ack"
    BY <1>0, <1>16, NextCommand DEF DriverRaises
  <2> QED BY <1>16, <2>1 DEF DriverRaises, Ends, Fault
<1>17. CASE Crash(d)
  <2>1. Others /\ driver'[d].pc = "idle"
    BY <1>0, <1>17 DEF Crash, DriverType, Idle
  <2> QED BY <1>17, <2>1 DEF Crash, Ends, Fault
<1> QED BY <1>1, <1>2, <1>3, <1>4, <1>5, <1>7, <1>8, <1>9, <1>10, <1>11, <1>12, <1>13,
           <1>14, <1>15, <1>16, <1>17 DEF Drive

(***************************************************************************)
(* Until the stream reads the row, no other call has touched the request.  *)
(***************************************************************************)
Untouched ==
    /\ row.status \in {"none", "queued"} /\ steps = {}
    /\ calls = 0 /\ retrying = 0
    /\ waiting[Req] = 0 /\ held[Req] = 0 /\ dead[Req] = 0
    /\ \A w \in Worker : driver[w].pc = "idle"
Streams(d) == driver[d].pc = "read" /\ driver[d].mode = "stream"
StreamFirst ==
    /\ row.status = "none" => Untouched /\ driver[Api].pc = "idle"
    /\ \A d \in Driver : Streams(d) => d = Api /\ Untouched

Arrives(d) == driver[d].pc = "idle" /\ driver'[d].pc = "read"
Outside == \/ \E mode \in Modes : Submit(mode)
           \/ EnqueueCall \/ RetryRead \/ RetryCommit \/ CallCrash
           \/ \E d \in Worker : Deliver(d)
           \/ Redeliver \/ ReplayDead
           \/ UNCHANGED vars

(***************************************************************************)
(* What the API calls and the queue do to the record and to the drivers.   *)
(***************************************************************************)
LEMMA OutsideSteps ==
  ASSUME TypeOK, StreamFirst, Outside
  PROVE  /\ \A d \in Driver : driver'[d] = driver[d] \/ Arrives(d)
         /\ UNCHANGED <<steps, artifacts, logged, posted, overlaps, late>>
         /\ row'.cost = row.cost
         /\ faults' \in {faults, faults + 1}
         /\ \/ row' = row /\ runs' = runs
            \/ /\ row.status = "none" /\ row'.status = "queued"
               /\ row'.attempts = row.attempts /\ runs' = runs
            \/ retrying > 0 /\ row'.status = "queued" /\ row'.attempts = 0 /\ runs' = 0
         /\ retrying <= retries => retrying' <= retries'
         /\ retries <= retries'
<1>0. /\ DriverType /\ row \in Row /\ retries \in Nat /\ retrying \in Nat
      /\ Api \in Driver /\ Worker \subseteq Driver
  BY DEF TypeOK, StoreType, Driver
<1>1. ASSUME NEW mode \in Modes, Submit(mode)
      PROVE  /\ \A d \in Driver : driver'[d] = driver[d] \/ Arrives(d)
             /\ row'.status = "queued" /\ row'.cost = row.cost /\ row'.attempts = row.attempts
  <2>1. driver[Api].pc = "idle"
    BY <1>1 DEF Submit, StreamFirst
  <2>2. \A d \in Driver : driver'[d] = driver[d] \/ Arrives(d)
    BY <1>0, <1>1, <2>1 DEF Submit, Arrives, DriverType, Idle
  <2> QED BY <1>0, <1>1, <2>2 DEF Submit, Row
<1>2. CASE \E mode \in Modes : Submit(mode)
  <2>1. PICK mode \in Modes : Submit(mode)
    BY <1>2
  <2>2. /\ row.status = "none" /\ retrying' = retrying /\ retries' = retries
        /\ UNCHANGED <<steps, artifacts, logged, posted, overlaps, late, runs, faults>>
    BY <2>1 DEF Submit, history
  <2> QED BY <1>0, <1>1, <2>1, <2>2
<1>3. CASE RetryCommit
  <2>1. row'.status = "queued" /\ row'.attempts = 0 /\ row'.cost = row.cost
    BY <1>0, <1>3 DEF RetryCommit, Row
  <2> QED BY <1>0, <1>3, <2>1 DEF RetryCommit
<1>4. CASE EnqueueCall \/ RetryRead \/ CallCrash \/ Redeliver \/ ReplayDead \/ UNCHANGED vars
  BY <1>0, <1>4 DEF EnqueueCall, RetryRead, CallCrash, Redeliver, Expired, ReplayDead, vars,
                    record, history, api
<1>5. ASSUME NEW d \in Worker, Deliver(d)
      PROVE  \A e \in Driver : driver'[e] = driver[e] \/ Arrives(e)
  BY <1>0, <1>5 DEF Deliver, Arrives, DriverType, Idle
<1>6. CASE \E d \in Worker : Deliver(d)
  <2>1. PICK d \in Worker : Deliver(d)
    BY <1>6
  <2>2. UNCHANGED <<record, api, history, faults>>
    BY <2>1 DEF Deliver
  <2> QED BY <1>0, <1>5, <2>1, <2>2 DEF record, history, api
<1> QED BY <1>2, <1>3, <1>4, <1>6 DEF Outside

(***************************************************************************)
(* A stream reads the row of a request nobody else has touched.            *)
(***************************************************************************)
LEMMA StreamStep ==
  ASSUME TypeOK, StreamFirst, [Next]_vars
  PROVE  StreamFirst'
<1>0. /\ DriverType /\ row \in Row /\ Api \in Driver /\ Worker \subseteq Driver
      /\ Api \notin Worker /\ calls \in Nat /\ retrying \in Nat
      /\ waiting[Req] \in Nat /\ held[Req] \in Nat /\ dead[Req] \in Nat
  BY ApiAssumption DEF TypeOK, StoreType, QueueType, Driver
<1>1. ASSUME NEW d \in Driver, Drive(d) \/ RunDbFails(d) \/ DriverRaises(d) \/ Crash(d)
      PROVE  StreamFirst'
  <2>1. /\ driver[d].pc # "idle" /\ driver'[d].pc # "read"
        /\ row'.status = "none" => row.status = "none"
    BY <1>1, DriverSteps DEF Begins, Settles, Marks, Advances, Stores, Breaks, Finalizes,
       Costs, Posts, Handles, Ends, Early, record, Outcome, OutcomeOf
  <2>2. \A e \in Driver \ {d} : driver'[e] = driver[e]
    BY <1>1, DriverSteps
  <2>3. ~(Untouched /\ driver[Api].pc = "idle")
    BY <1>0, <2>1 DEF Untouched, Driver
  <2>4. ~(Untouched /\ Streams(Api) /\ d # Api)
    BY <1>0, <2>1 DEF Untouched, Driver
  <2>5. row'.status # "none"
    BY <2>1, <2>3 DEF StreamFirst
  <2>6. \A e \in Driver : ~Streams(e)'
    BY <2>1, <2>2, <2>4 DEF StreamFirst, Streams
  <2> QED BY <2>5, <2>6 DEF StreamFirst
<1>2. ASSUME NEW mode \in Modes, Submit(mode)  PROVE StreamFirst'
  <2>1. Untouched /\ driver[Api].pc = "idle" /\ row'.status = "queued" /\ steps' = steps
    BY <1>0, <1>2 DEF Submit, StreamFirst, Row
  <2>2. \A w \in Worker : driver'[w] = driver[w]
    BY <1>0, <1>2 DEF Submit, DriverType
  <2>3. Streams(Api)' => calls' = calls
    BY <1>2, <2>1 DEF Submit, Streams
  <2>4. /\ Streams(Api)' => Untouched'
        /\ \A e \in Driver : Streams(e)' => e = Api
    BY <1>2, <2>1, <2>2, <2>3 DEF Submit, Untouched, Streams, queue, Driver
  <2> QED BY <2>1, <2>4 DEF StreamFirst
<1>3. CASE EnqueueCall \/ RetryRead \/ RetryCommit \/ CallCrash \/ Redeliver \/ ReplayDead
           \/ \E d \in Worker : Deliver(d)
  <2>1. ~Untouched
    BY <1>0, <1>3 DEF EnqueueCall, RetryRead, RetryCommit, CallCrash, Redeliver, ReplayDead,
                      Deliver, Untouched, Q!Redeliver, Q!Bury, Q!Replay, Q!Deliver
  <2>2. row.status # "none" /\ \A e \in Driver : ~Streams(e)
    BY <2>1 DEF StreamFirst
  <2>3. row'.status # "none"
    BY <1>0, <1>3, <2>2 DEF EnqueueCall, RetryRead, RetryCommit, CallCrash, Redeliver,
                            ReplayDead, Deliver, record, Row
  <2>4. \A e \in Driver : ~Streams(e)'
    <3>1. CASE UNCHANGED driver
      BY <2>2, <3>1 DEF Streams
    <3>2. ASSUME NEW d \in Worker, Deliver(d)  PROVE \A e \in Driver : ~Streams(e)'
      BY <1>0, <2>2, <3>2 DEF Deliver, Streams, DriverType, Idle
    <3> QED BY <1>3, <3>1, <3>2 DEF EnqueueCall, RetryRead, RetryCommit, CallCrash,
                                    Redeliver, ReplayDead
  <2> QED BY <2>3, <2>4 DEF StreamFirst
<1>4. CASE UNCHANGED vars
  BY <1>4 DEF vars, record, api, queue, StreamFirst, Untouched, Streams
<1> QED BY <1>1, <1>2, <1>3, <1>4 DEF Next

-----------------------------------------------------------------------------
(* Artifacts.                                                              *)

MayFinalize == {d \in Driver : driver[d].pc \in Early \cup {"finalize"}}
Batches == artifacts["completed"] + artifacts["needs_review"]

(***************************************************************************)
(* What makes ArtifactsOnce inductive: the runs that may still finalize    *)
(* count as if they had, and a run begins alone, and adds nothing to the   *)
(* overlaps, only while there is no batch.                                 *)
(***************************************************************************)
ArtifactInv ==
    /\ Batches + Cardinality(MayFinalize) <= 1 + overlaps
    /\ Batches > 0 => Stored # {}

LEMMA MayFinalizeFinite ==
    IsFiniteSet(MayFinalize) /\ Cardinality(MayFinalize) \in Nat
<1>1. IsFiniteSet(Driver)
  <2>1. IsFiniteSet({Api})
    BY FS_Singleton
  <2> QED BY <2>1, WorkerAssumption, FS_Union DEF Driver
<1>2. MayFinalize \in SUBSET Driver
  BY DEF MayFinalize
<1>3. IsFiniteSet(MayFinalize)
  BY <1>1, <1>2, FS_Subset
<1> QED BY <1>3, FS_CardinalityType

(***************************************************************************)
(* One driver enters the runs that may finalize, or leaves them.           *)
(***************************************************************************)
LEMMA MayFinalizeMoves ==
  ASSUME NEW d \in Driver, \A e \in Driver \ {d} : driver'[e] = driver[e]
  PROVE  /\ Cardinality(MayFinalize') \in Nat
         /\ d \in MayFinalize \/ d \notin MayFinalize' =>
               Cardinality(MayFinalize') <= Cardinality(MayFinalize)
         /\ d \in MayFinalize /\ d \notin MayFinalize' =>
               Cardinality(MayFinalize') = Cardinality(MayFinalize) - 1
         /\ Cardinality(MayFinalize') <= Cardinality(MayFinalize) + 1
         /\ MayFinalize = {} => Cardinality(MayFinalize') <= 1
<1> DEFINE M == MayFinalize
           N == MayFinalize'
<1>1. \A e \in Driver \ {d} : e \in N <=> e \in M
  BY DEF MayFinalize
<1>2. M \in SUBSET Driver /\ N \in SUBSET Driver
  BY DEF MayFinalize
<1>3. IsFiniteSet(M) /\ Cardinality(M) \in Nat
  BY MayFinalizeFinite
<1> HIDE DEF M, N
<1>4. N = M \/ (N = M \cup {d} /\ d \notin M) \/ (N = M \ {d} /\ d \in M)
  BY <1>1, <1>2
<1>5. Cardinality({}) = 0 /\ (M = {} => Cardinality(M) = 0)
  BY FS_EmptySet
<1>6. d \notin M => Cardinality(M \cup {d}) = Cardinality(M) + 1
  BY <1>3, FS_AddElement
<1>7. d \in M => Cardinality(M \ {d}) = Cardinality(M) - 1
  BY <1>3, FS_RemoveElement
<1>8. d \in M => Cardinality(M) - 1 \in Nat
  <2>1. d \in M => IsFiniteSet(M \ {d})
    BY <1>3, FS_Subset
  <2> QED BY <1>7, <2>1, FS_CardinalityType
<1>9. /\ Cardinality(N) \in Nat
      /\ d \in M \/ d \notin N => Cardinality(N) <= Cardinality(M)
      /\ d \in M /\ d \notin N => Cardinality(N) = Cardinality(M) - 1
      /\ Cardinality(N) <= Cardinality(M) + 1
      /\ M = {} => Cardinality(N) <= 1
  <2>1. CASE N = M
    BY <1>3, <1>5, <2>1
  <2>2. CASE N = M \cup {d} /\ d \notin M
    <3>1. d \in N /\ Cardinality(N) = Cardinality(M) + 1
      BY <1>6, <2>2
    <3> QED BY <1>3, <1>5, <2>2, <3>1
  <2>3. CASE N = M \ {d} /\ d \in M
    <3>1. M # {} /\ Cardinality(N) = Cardinality(M) - 1
      BY <1>7, <2>3
    <3> QED BY <1>3, <1>8, <2>3, <3>1
  <2> QED BY <1>4, <2>1, <2>2, <2>3
<1> QED BY <1>9 DEF M, N

LEMMA ArtifactDriver ==
  ASSUME TypeOK, StreamFirst, FinalizesStored, ArtifactInv, NEW d \in Driver,
         Drive(d) \/ RunDbFails(d) \/ DriverRaises(d) \/ Crash(d)
  PROVE  ArtifactInv'
<1>0. /\ artifacts \in [Outcome -> Nat] /\ Batches \in Nat /\ overlaps \in Nat
      /\ Cardinality(MayFinalize) \in Nat
  BY MayFinalizeFinite DEF TypeOK, StoreType, Batches, Outcome
<1>1. \A e \in Driver \ {d} : driver'[e] = driver[e]
  BY DriverSteps
<1>2. ASSUME d \in MayFinalize \/ d \notin MayFinalize', Batches' = Batches,
             overlaps' = overlaps, Stored \subseteq Stored'
      PROVE  ArtifactInv'
  BY <1>0, <1>1, <1>2, MayFinalizeMoves DEF ArtifactInv
<1>3. CASE Begins(d)
  <2>1. Batches' = Batches /\ Stored' = Stored
    BY <1>3 DEF Begins, record, Batches, Stored
  <2>2. CASE InRun # {}
    BY <1>0, <1>1, <1>3, <2>1, <2>2, MayFinalizeMoves DEF Begins, ArtifactInv
  <2>3. CASE InRun = {}
    <3>1. Stored = {}
      BY <1>3 DEF Begins, StreamFirst, Streams, Untouched, Stored
    <3>2. MayFinalize = {}
      BY <2>3 DEF MayFinalize, InRun, Early
    <3> QED BY <1>0, <1>1, <1>3, <2>1, <2>3, <3>1, <3>2, MayFinalizeMoves DEF Begins, ArtifactInv
  <2> QED BY <2>2, <2>3
<1>4. CASE Finalizes(d)
  <2>1. d \in MayFinalize /\ d \notin MayFinalize'
    BY <1>4 DEF Finalizes, MayFinalize, Early
  <2>2. Batches' = Batches + 1
    BY <1>0, <1>4 DEF Finalizes, Batches, Outcome, OutcomeOf
  <2>3. Stored' = Stored /\ Stored # {}
    BY <1>4 DEF Finalizes, FinalizesStored, Stored
  <2> QED BY <1>0, <1>1, <1>4, <2>1, <2>2, <2>3, MayFinalizeMoves
         DEF Finalizes, ArtifactInv, history
<1>5. CASE Settles(d) \/ Breaks(d) \/ Costs(d) \/ Posts(d) \/ Handles(d) \/ Ends(d)
  <2>1. /\ d \notin MayFinalize' /\ Batches' = Batches /\ overlaps' = overlaps
        /\ Stored' = Stored
    BY <1>5 DEF Settles, Breaks, Costs, Posts, Handles, Ends, MayFinalize, Early, Batches,
                Stored, record, history
  <2> QED BY <1>2, <2>1
<1>6. CASE Marks(d) \/ Advances(d) \/ Stores(d)
  <2>1. /\ d \in MayFinalize /\ Batches' = Batches /\ overlaps' = overlaps
        /\ Stored \subseteq Stored'
    BY <1>6 DEF Marks, Advances, Stores, MayFinalize, Early, Batches, Stored, history
  <2> QED BY <1>2, <2>1
<1> QED BY <1>3, <1>4, <1>5, <1>6, DriverSteps

-----------------------------------------------------------------------------
(* Runs that did not overlap.                                              *)

\* A failed run that may be queued again.
Again(d) == driver[d].pc = "fail" /\ driver[d].retryable
Undecided(d) == driver[d].pc \in Early \/ Again(d)
Owns(d) == Undecided(d) \/ driver[d].pc \in {"finalize", "cost"}

(***************************************************************************)
(* Without overlaps one driver at most is between the start of its run and *)
(* its cost, the terminal checkpoint is the one it stores, and the log has *)
(* no calls before it.                                                     *)
(***************************************************************************)
OneRun ==
    /\ \A d, e \in Driver : Owns(d) /\ Owns(e) => d = e
    /\ \A d \in Driver : Undecided(d) => Stored = {}
    /\ \A d \in Driver : driver[d].pc \in {"finalize", "cost"} => Stored = {driver[d].node}
    /\ \A d \in Driver : Owns(d) => logged = 0
    /\ logged # 0 => Stored # {}
    /\ row.cost = logged

LEMMA OneRunDriver ==
  ASSUME TypeOK, StreamFirst, OneRun, NEW d \in Driver,
         Drive(d) \/ RunDbFails(d) \/ DriverRaises(d) \/ Crash(d),
         overlaps = 0, overlaps' = 0
  PROVE  OneRun'
<1>0. \A e \in Driver \ {d} : /\ driver'[e] = driver[e]
                              /\ Undecided(e)' <=> Undecided(e)
                              /\ Owns(e)' <=> Owns(e)
  BY DriverSteps DEF Undecided, Again, Owns
<1>1. CASE Begins(d)
  <2>1. /\ InRun = {} /\ driver'[d].pc = "mark" /\ Stored' = Stored
        /\ logged' = logged /\ row' = row
    BY <1>1 DEF Begins, Stored, record
  <2>2. Stored = {}
    BY <1>1 DEF Begins, StreamFirst, Streams, Untouched, Stored
  <2>3. \A e \in Driver : ~Owns(e)
    BY <2>1, <2>2 DEF InRun, Owns, Undecided, Again, Early, OneRun
  <2>4. logged = 0
    BY <2>2 DEF OneRun
  <2>5. \A e \in Driver : Owns(e)' => e = d
    BY <1>0, <2>3
  <2>6. \A e \in Driver : driver'[e].pc \notin {"finalize", "cost"}
    BY <1>0, <2>1, <2>3 DEF Owns
  <2> QED BY <2>1, <2>2, <2>4, <2>5, <2>6 DEF OneRun
<1>2. CASE Settles(d) \/ Posts(d) \/ Handles(d) \/ Ends(d)
  <2>1. /\ driver'[d].pc \notin Early \cup {"fail", "finalize", "cost"}
        /\ Stored' = Stored /\ logged' = logged /\ row'.cost = row.cost
    BY <1>2 DEF Settles, Posts, Handles, Ends, Early, Stored, record
  <2>2. ~Owns(d)' /\ ~Undecided(d)'
    BY <2>1 DEF Owns, Undecided, Again
  <2> QED BY <1>0, <2>1, <2>2 DEF OneRun
<1>3. CASE Marks(d) \/ Advances(d)
  <2>1. /\ Undecided(d) /\ driver'[d].pc \in Early
        /\ Stored' = Stored /\ logged' = logged /\ row'.cost = row.cost
    BY <1>3 DEF Marks, Advances, Undecided, Early, Stored
  <2>2. Owns(d) /\ Undecided(d)' /\ driver'[d].pc \notin {"finalize", "cost"}
    BY <2>1 DEF Owns, Undecided, Early
  <2> QED BY <1>0, <2>1, <2>2 DEF OneRun
<1>4. CASE Stores(d)
  <2>1. /\ Undecided(d) /\ driver'[d].pc = "finalize"
        /\ Stored' = Stored \cup {driver'[d].node} /\ logged' = logged /\ row'.cost = row.cost
    BY <1>4 DEF Stores, Undecided, Early
  <2>2. Owns(d) /\ ~Undecided(d)'
    BY <2>1 DEF Owns, Undecided, Again, Early
  <2>3. \A e \in Driver \ {d} : ~Owns(e)
    BY <2>2 DEF OneRun
  <2>4. Stored = {} /\ logged = 0
    BY <2>1, <2>2 DEF OneRun
  <2>5. \A e \in Driver \ {d} : ~Owns(e)' /\ ~Undecided(e)'
                               /\ driver'[e].pc \notin {"finalize", "cost"}
    BY <1>0, <2>3 DEF Owns
  <2> QED BY <2>1, <2>2, <2>4, <2>5 DEF OneRun
<1>5. CASE Breaks(d)
  <2>1. /\ driver'[d].pc = "fail" /\ (Again(d)' => Undecided(d))
        /\ Stored' = Stored /\ logged' = logged /\ row' = row
    BY <1>5 DEF Breaks, Again, Undecided, Early, Stored, record
  <2>2. /\ Owns(d)' <=> Again(d)'
        /\ Undecided(d)' <=> Again(d)'
        /\ Again(d)' => Owns(d)
    BY <2>1 DEF Owns, Undecided, Early
  <2> QED BY <1>0, <2>1, <2>2 DEF OneRun
<1>6. CASE Finalizes(d)
  <2>1. /\ Owns(d) /\ driver[d].pc = "finalize" /\ driver'[d].pc \in {"cost", "callback"}
        /\ driver'[d].node = driver[d].node
        /\ Stored' = Stored /\ logged' = logged /\ row'.cost = row.cost
    BY <1>6 DEF Finalizes, Owns, Stored
  <2>2. ~Undecided(d)'
    BY <2>1 DEF Undecided, Again, Early
  <2> QED BY <1>0, <2>1, <2>2 DEF OneRun
<1>7. CASE Costs(d)
  <2>1. /\ Owns(d) /\ driver[d].pc = "cost" /\ driver'[d].pc = "callback" /\ Stored' = Stored
    BY <1>7 DEF Costs, Owns, Stored
  <2>2. PICK total \in Nat : row'.cost = total /\ logged' = logged + total
    BY <1>7 DEF Costs
  <2>3. logged = 0 /\ Stored # {}
    BY <2>1 DEF OneRun
  <2>4. row'.cost = logged'
    BY <2>2, <2>3
  <2>5. ~Owns(d)' /\ ~Undecided(d)'
    BY <2>1 DEF Owns, Undecided, Again, Early
  <2>6. \A e \in Driver : ~Owns(e)' /\ ~Undecided(e)' /\ driver'[e].pc \notin {"finalize", "cost"}
    BY <1>0, <2>1, <2>5 DEF OneRun, Owns
  <2> QED BY <2>1, <2>3, <2>4, <2>6 DEF OneRun
<1> QED BY <1>1, <1>2, <1>3, <1>4, <1>5, <1>6, <1>7, DriverSteps

-----------------------------------------------------------------------------
(* The callback.                                                           *)

Busy(d) == driver[d].pc \in RunPC \cup Ending

(***************************************************************************)
(* Without overlaps and retries one driver at most is between the start of *)
(* its run and its callback, the status it has settled stays, and once it  *)
(* has posted it nobody else is.                                           *)
(***************************************************************************)
LastWord ==
    /\ \A d, e \in Driver : Busy(d) /\ Busy(e) => d = e
    /\ \A d \in Driver : driver[d].pc \in Ending => row.status \in Terminal
    /\ \A d \in Driver : Undecided(d) => row.status \notin Terminal
    /\ posted # {} => /\ posted = {row.status} /\ row.status \in Terminal
                      /\ \A d \in Driver : ~Busy(d)

LEMMA LastWordDriver ==
  ASSUME TypeOK, StreamFirst, OneRun, LastWord, NEW d \in Driver,
         Drive(d) \/ RunDbFails(d) \/ DriverRaises(d) \/ Crash(d),
         overlaps = 0, overlaps' = 0
  PROVE  LastWord'
<1>0. \A e \in Driver \ {d} : /\ driver'[e] = driver[e]
                              /\ Undecided(e)' <=> Undecided(e)
                              /\ Busy(e)' <=> Busy(e)
  BY DriverSteps DEF Undecided, Again, Busy
<1>1. \A e \in Driver : /\ Undecided(e) => Busy(e)
                        /\ driver[e].pc \in Ending => Busy(e)
  BY DEF Undecided, Again, Busy, RunPC, Ending
<1>a. Busy(d) => posted = {}
  BY DEF LastWord
<1>2. ASSUME Busy(d), posted' = posted, row'.status = row.status,
             driver'[d].pc \in Ending => row.status \in Terminal,
             Undecided(d)' => row.status \notin Terminal
      PROVE  LastWord'
  BY <1>0, <1>a, <1>2 DEF LastWord
<1>3. ASSUME Busy(d), posted' = posted, ~Undecided(d)',
             driver'[d].pc \in Ending => row'.status \in Terminal
      PROVE  LastWord'
  <2>1. \A e \in Driver \ {d} : ~Busy(e)' /\ ~Undecided(e)' /\ driver'[e].pc \notin Ending
    BY <1>0, <1>1, <1>3 DEF LastWord
  <2> QED BY <1>a, <1>3, <2>1 DEF LastWord
<1>4. ASSUME ~Busy(d)', posted' = posted, row'.status = row.status
      PROVE  LastWord'
  <2>1. ~Undecided(d)' /\ driver'[d].pc \notin Ending
    BY <1>4 DEF Undecided, Again, Busy, RunPC, Ending
  <2> QED BY <1>0, <1>4, <2>1 DEF LastWord
<1>5. CASE Begins(d)
  <2>1. /\ InRun = {} /\ driver'[d].pc = "mark" /\ posted' = posted /\ row' = row
    BY <1>5 DEF Begins, record
  <2>2. row.status \notin Terminal
    BY <1>5 DEF Begins, StreamFirst, Streams, Untouched, Terminal, Outcome
  <2>3. \A e \in Driver : ~Busy(e)
    BY <2>1, <2>2 DEF InRun, Busy, RunPC, Early, LastWord
  <2>4. \A e \in Driver \ {d} : ~Busy(e)' /\ ~Undecided(e)' /\ driver'[e].pc \notin Ending
    BY <1>0, <1>1, <2>3
  <2>5. driver'[d].pc \notin Ending /\ posted = {}
    BY <2>1, <2>2 DEF Ending, LastWord
  <2> QED BY <2>1, <2>2, <2>4, <2>5 DEF LastWord
<1>6. CASE Settles(d)
  <2>1. ~Busy(d)' /\ ~Undecided(d)' /\ driver'[d].pc \notin Ending /\ posted' = posted
    BY <1>6 DEF Settles, Busy, Undecided, Again, RunPC, Early, Ending
  <2>2. CASE row'.status = row.status
    BY <1>4, <2>1, <2>2
  <2>3. CASE row'.status # row.status
    <3>1. row'.status \in Terminal /\ Stored # {}
      BY <1>6, <2>3 DEF Settles, Terminal
    <3>2. \A e \in Driver : ~Undecided(e)
      BY <3>1 DEF OneRun
    <3>3. posted = {}
      BY <1>6, <2>3 DEF Settles, LastWord
    <3> QED BY <1>0, <2>1, <3>1, <3>2, <3>3 DEF LastWord
  <2> QED BY <2>2, <2>3
<1>7. CASE Marks(d)
  <2>1. /\ Busy(d) /\ Undecided(d) /\ posted' = posted
        /\ row'.status \in {row.status, "running"}
        /\ driver'[d].pc \notin Ending
    BY <1>7 DEF Marks, Busy, Undecided, RunPC, Early, Ending
  <2>2. row'.status \notin Terminal
    BY <2>1 DEF LastWord, Terminal, Outcome
  <2>3. \A e \in Driver \ {d} : ~Busy(e)' /\ ~Undecided(e)' /\ driver'[e].pc \notin Ending
    BY <1>0, <1>1, <2>1 DEF LastWord
  <2> QED BY <1>a, <2>1, <2>2, <2>3 DEF LastWord
<1>8. CASE Advances(d) \/ Stores(d)
  <2>1. /\ Busy(d) /\ Undecided(d) /\ posted' = posted /\ row'.status = row.status
        /\ driver'[d].pc \notin Ending
    BY <1>8 DEF Advances, Stores, Busy, Undecided, RunPC, Early, Ending
  <2> QED BY <1>2, <2>1 DEF LastWord
<1>9. CASE Breaks(d)
  <2>1. /\ Busy(d) /\ posted' = posted /\ row'.status = row.status
        /\ driver'[d].pc \notin Ending
        /\ Undecided(d)' => Undecided(d)
    BY <1>9 DEF Breaks, Busy, Undecided, Again, RunPC, Early, Ending, record
  <2> QED BY <1>2, <2>1 DEF LastWord
<1>10. CASE Finalizes(d)
  <2>1. /\ Busy(d) /\ posted' = posted /\ ~Undecided(d)' /\ row'.status \in Terminal
    BY <1>10 DEF Finalizes, Busy, Undecided, Again, RunPC, Early, OutcomeOf, Terminal, Outcome
  <2> QED BY <1>3, <2>1
<1>11. CASE Costs(d)
  <2>1. /\ Busy(d) /\ posted' = posted /\ row'.status = row.status /\ ~Undecided(d)'
        /\ driver[d].pc \in Ending
    BY <1>11 DEF Costs, Busy, Undecided, Again, RunPC, Early, Ending
  <2> QED BY <1>2, <2>1 DEF LastWord
<1>12. CASE Handles(d)
  <2>1. /\ Busy(d) /\ posted' = posted /\ ~Undecided(d)'
        /\ driver'[d].pc \in Ending => row'.status \in Terminal
    BY <1>12 DEF Handles, Busy, Undecided, Again, RunPC, Early, Ending, Terminal
  <2> QED BY <1>3, <2>1
<1>13. CASE Posts(d)
  <2>1. /\ Busy(d) /\ ~Busy(d)' /\ row'.status = row.status /\ row.status \in Terminal
        /\ ~Undecided(d)' /\ driver'[d].pc \notin Ending
    BY <1>13 DEF Posts, Busy, RunPC, Early, Ending, LastWord, Undecided, Again
  <2>2. posted' \in {{}, {row.status}}
    BY <1>a, <1>13, <2>1 DEF Posts
  <2>3. \A e \in Driver : ~Busy(e)'
    BY <1>0, <2>1 DEF LastWord
  <2> QED BY <1>0, <2>1, <2>2, <2>3 DEF LastWord
<1>14. CASE Ends(d)
  <2>1. ~Busy(d)' /\ posted' = posted /\ row'.status = row.status
    BY <1>14 DEF Ends, Busy, RunPC, Early, Ending, record
  <2> QED BY <1>4, <2>1
<1> QED BY <1>5, <1>6, <1>7, <1>8, <1>9, <1>10, <1>11, <1>12, <1>13, <1>14, DriverSteps

-----------------------------------------------------------------------------
(* The outcome.                                                            *)

(***************************************************************************)
(* Without overlaps and late failures one driver at most is in its run, it *)
(* fails before any terminal checkpoint is stored, and a failed row is in  *)
(* nobody's run; one retry call at most acts on it.                        *)
(***************************************************************************)
Settled ==
    /\ \A d, e \in InRun : d = e
    /\ \A d \in Driver : driver[d].pc = "fail" => Stored = {}
    /\ row.status = "failed" => InRun = {}
    /\ retrying <= 1 /\ (retrying > 0 => row.status = "failed")

LEMMA SettledDriver ==
  ASSUME TypeOK, StreamFirst, OneRun, Settled, NEW d \in Driver,
         Drive(d) \/ RunDbFails(d) \/ DriverRaises(d) \/ Crash(d),
         overlaps = 0, overlaps' = 0, late = 0, late' = 0
  PROVE  Settled'
<1>0. /\ \A e \in Driver \ {d} : /\ driver'[e] = driver[e]
                                 /\ e \in InRun' <=> e \in InRun
      /\ InRun \subseteq Driver /\ InRun' \subseteq Driver
      /\ \A e \in Driver : driver[e].pc = "fail" => e \in InRun
      /\ retrying' = retrying /\ retrying \in Nat
  BY DriverSteps DEF InRun, api, TypeOK, StoreType
<1>1. d \in InRun => retrying = 0 /\ row.status # "failed" /\ \A e \in InRun : e = d
  BY <1>0 DEF Settled
<1>2. ASSUME d \in InRun, d \in InRun', row'.status # "failed",
             driver'[d].pc = "fail" => Stored' = {}
      PROVE  Settled'
  <2>1. InRun' = {d}
    BY <1>0, <1>1, <1>2
  <2>2. \A e \in Driver : driver'[e].pc = "fail" => e = d
    BY <1>0, <1>1, <1>2
  <2> QED BY <1>0, <1>1, <1>2, <2>1, <2>2 DEF Settled
<1>3. ASSUME d \in InRun, d \notin InRun', driver'[d].pc # "fail"
      PROVE  Settled'
  <2>1. InRun' = {}
    BY <1>0, <1>1, <1>3
  <2>2. \A e \in Driver : driver'[e].pc # "fail"
    BY <1>0, <1>1, <1>3
  <2>3. retrying' = 0
    BY <1>0, <1>1, <1>3
  <2>4. retrying' <= 1 /\ ~(retrying' > 0)
    BY <2>3
  <2>5. \A e, f \in InRun' : e = f
    BY <2>1
  <2> QED BY <2>1, <2>2, <2>4, <2>5 DEF Settled
<1>4. ASSUME d \notin InRun, d \notin InRun', driver'[d].pc # "fail", Stored' = Stored,
             \/ row'.status = row.status
             \/ row'.status \in Outcome /\ row.status \notin Terminal
      PROVE  Settled'
  <2>0. \A e \in Driver : e \in InRun' <=> e \in InRun
    BY <1>0, <1>4
  <2>1. InRun' = InRun
    BY <2>0 DEF InRun
  <2>2. /\ row'.status = "failed" => row.status = "failed"
        /\ row.status = "failed" => row'.status = "failed"
    BY <1>4 DEF Outcome, Terminal
  <2>3. \A e \in Driver : driver'[e].pc = "fail" => driver[e].pc = "fail"
    BY <1>0, <1>4
  <2> QED BY <1>0, <1>4, <2>1, <2>2, <2>3 DEF Settled
<1>5. CASE Begins(d)
  <2>1. InRun = {} /\ driver'[d].pc = "mark" /\ row' = row
    BY <1>5 DEF Begins, record
  <2>2. row.status \notin Terminal
    BY <1>5 DEF Begins, StreamFirst, Streams, Untouched, Terminal, Outcome
  <2>3. row'.status # "failed" /\ retrying = 0
    BY <1>0, <2>1, <2>2 DEF Settled, Terminal
  <2>4. \A e, f \in InRun' : e = f
    BY <1>0, <2>1
  <2>5. \A e \in Driver : driver'[e].pc # "fail"
    BY <1>0, <2>1
  <2> QED BY <1>0, <2>3, <2>4, <2>5 DEF Settled
<1>6. CASE Settles(d)
  BY <1>4, <1>6 DEF Settles, InRun, Stored
<1>7. CASE Marks(d) \/ Advances(d) \/ Stores(d)
  <2>1. /\ d \in InRun /\ d \in InRun' /\ driver'[d].pc # "fail"
        /\ row'.status \in {row.status, "running"}
    BY <1>7 DEF Marks, Advances, Stores, InRun, Early
  <2> QED BY <1>1, <1>2, <2>1
<1>8. CASE Breaks(d)
  <2>1. driver[d].pc \in {"node", "check", "save"}
    BY <1>8 DEF Breaks
  <2>2. /\ d \in InRun /\ Undecided(d) /\ d \in InRun'
        /\ Stored' = Stored /\ row' = row
    BY <1>8, <2>1 DEF Breaks, InRun, Undecided, Early, Stored, record
  <2>3. Stored' = {}
    BY <2>2 DEF OneRun
  <2> QED BY <1>1, <1>2, <2>2, <2>3
<1>9. CASE Finalizes(d) \/ Handles(d)
  <2>1. d \in InRun /\ d \notin InRun' /\ driver'[d].pc # "fail"
    BY <1>9 DEF Finalizes, Handles, InRun
  <2> QED BY <1>3, <2>1
<1>10. CASE Costs(d) \/ Posts(d)
  <2>1. /\ d \notin InRun /\ d \notin InRun' /\ driver'[d].pc # "fail"
        /\ Stored' = Stored /\ row'.status = row.status
    BY <1>10 DEF Costs, Posts, InRun, Stored
  <2> QED BY <1>4, <2>1
<1>11. CASE Ends(d)
  <2>1. d \notin InRun' /\ driver'[d].pc # "fail" /\ Stored' = Stored /\ row' = row
    BY <1>11 DEF Ends, InRun, Stored, record
  <2> QED BY <1>3, <1>4, <2>1
<1> QED BY <1>5, <1>6, <1>7, <1>8, <1>9, <1>10, <1>11, DriverSteps

LEMMA SettledOutside ==
  ASSUME TypeOK, StreamFirst, Outside, doubled' = 0
  PROVE  doubled = 0 /\ (Settled => Settled')
<1>0. /\ \A e \in Driver : driver'[e] = driver[e] \/ Arrives(e)
      /\ UNCHANGED steps
      /\ row'.status = row.status \/ row'.status = "queued"
      /\ row \in Row /\ row' \in Row /\ retrying \in Nat /\ doubled \in Nat
  <2>1. TypeOK'
    BY TypeStep DEF Outside, Next
  <2> QED BY <2>1, OutsideSteps DEF TypeOK, StoreType
<1>1. /\ Stored' = Stored
      /\ \A e \in Driver : e \in InRun' <=> e \in InRun
      /\ \A e \in Driver : driver'[e].pc = "fail" => driver[e].pc = "fail"
  BY <1>0 DEF Stored, InRun, Arrives
<1>2. InRun' = InRun
  BY <1>1 DEF InRun
<1>3. CASE RetryRead
  <2>1. row.status = "failed" /\ row' = row /\ retrying' = retrying + 1
    BY <1>3 DEF RetryRead, record
  <2>2. retrying = 0 /\ doubled = 0
    BY <1>0, <1>3 DEF RetryRead
  <2> QED BY <1>1, <1>2, <2>1, <2>2 DEF Settled
<1>4. CASE RetryCommit
  <2>1. /\ row'.status = "queued" /\ retrying' = retrying - 1 /\ doubled' = doubled
    BY <1>0, <1>4 DEF RetryCommit, Row
  <2>2. retrying > 0
    BY <1>4 DEF RetryCommit
  <2>3. retrying <= 1 => retrying' = 0
    BY <1>0, <2>1, <2>2
  <2> QED BY <1>1, <1>2, <2>1, <2>3 DEF Settled
<1>5. CASE \/ \E mode \in Modes : Submit(mode)
           \/ EnqueueCall \/ CallCrash \/ Redeliver \/ ReplayDead \/ UNCHANGED vars
           \/ \E d \in Worker : Deliver(d)
  <2>1. retrying' = retrying /\ doubled' = doubled
    BY <1>5 DEF Submit, EnqueueCall, CallCrash, Redeliver, ReplayDead, Deliver, vars, api
  <2>2. row.status # "none" => row'.status = row.status
    BY <1>5 DEF Submit, EnqueueCall, CallCrash, Redeliver, ReplayDead, Deliver, vars, record
  <2>3. /\ row'.status = "failed" => row.status = "failed"
        /\ row.status = "failed" => row'.status = "failed"
    BY <1>0, <2>2
  <2> QED BY <1>1, <1>2, <2>1, <2>3 DEF Settled
<1> QED BY <1>3, <1>4, <1>5 DEF Outside

-----------------------------------------------------------------------------
(* Attempts.                                                               *)

Carries(d) == driver[d].pc \in {"load", "node", "check", "save"} \/ Again(d)

(***************************************************************************)
(* What makes RunsBounded inductive: the row, and every run in progress,   *)
(* counts the runs begun but for one per fault, and an undecided row that  *)
(* nobody runs has an attempt left, or lost its run to a fault.            *)
(***************************************************************************)
AttemptsCount ==
    /\ runs <= MaxAttempts + faults
    /\ runs <= row.attempts + faults
    /\ row.status \notin Terminal /\ (\A d \in Driver : driver[d].pc \notin RunPC)
          => runs + 1 <= MaxAttempts + faults
    /\ \A d \in Driver : driver[d].pc = "mark" =>
          runs + 1 <= MaxAttempts + faults /\ runs <= driver[d].seen + faults
    /\ \A d \in Driver : Carries(d) => runs <= driver[d].attempts + faults

LEMMA MoreFaults ==
  ASSUME NEW f \in Nat, NEW g \in {f, f + 1}
  PROVE  \A n \in Nat : \A k \in Nat : k <= n + f => k <= n + g
<1>1. CASE g = f
  BY <1>1
<1>2. CASE g = f + 1
  BY <1>2
<1> QED BY <1>1, <1>2

LEMMA NoRuns ==
  ASSUME NEW m \in Nat, 1 <= m, NEW g \in Nat
  PROVE  0 <= m + g /\ 0 + 1 <= m + g /\ \A n \in Nat : 0 <= n + g
  OBVIOUS

LEMMA AttemptsDriver ==
  ASSUME TypeOK, StreamFirst, OneRun, AttemptsCount, NEW d \in Driver,
         Drive(d) \/ RunDbFails(d) \/ DriverRaises(d) \/ Crash(d),
         overlaps = 0, overlaps' = 0
  PROVE  AttemptsCount'
<1>0. /\ \A e \in Driver : /\ driver[e].seen \in Nat /\ driver[e].attempts \in Nat
                           /\ e # d => driver'[e] = driver[e] /\ (Carries(e)' <=> Carries(e))
      /\ runs \in Nat /\ faults \in Nat /\ row.attempts \in Nat /\ MaxAttempts \in Nat
  BY DriverSteps, AttemptsAssumption
     DEF TypeOK, StoreType, DriverType, DriverState, Row, Carries, Again
<1>1. ASSUME runs' = runs, row'.attempts = row.attempts, faults' \in {faults, faults + 1},
             driver'[d].pc # "mark",
             Carries(d)' => Carries(d) /\ driver'[d].attempts = driver[d].attempts,
             row'.status \notin Terminal /\ driver'[d].pc \notin RunPC =>
                 \/ row'.status = row.status /\ driver[d].pc \notin RunPC
                 \/ runs + 1 <= MaxAttempts + faults'
      PROVE  AttemptsCount'
  <2>0. \A n \in Nat : \A k \in Nat : k <= n + faults => k <= n + faults'
    <3>1. faults \in Nat /\ faults' \in {faults, faults + 1}
      BY <1>0, <1>1
    <3> QED BY ONLY <3>1, MoreFaults
  <2>1. runs' <= MaxAttempts + faults' /\ runs' <= row'.attempts + faults'
    <3>1. runs <= MaxAttempts + faults /\ runs <= row.attempts + faults
      BY DEF AttemptsCount
    <3> QED BY <1>0, <1>1, <2>0, <3>1
  <2>2. ASSUME row'.status \notin Terminal, \A e \in Driver : driver'[e].pc \notin RunPC
        PROVE  runs' + 1 <= MaxAttempts + faults'
    <3>1. CASE row'.status = row.status /\ driver[d].pc \notin RunPC
      <4>1. \A e \in Driver : driver[e].pc \notin RunPC
        BY <1>0, <2>2, <3>1
      <4>2. runs + 1 <= MaxAttempts + faults
        BY <2>2, <3>1, <4>1 DEF AttemptsCount
      <4>3. runs + 1 \in Nat
        BY <1>0
      <4> QED BY <1>0, <1>1, <2>0, <4>2, <4>3
    <3> QED BY <1>1, <2>2, <3>1
  <2>3. ASSUME NEW e \in Driver, driver'[e].pc = "mark"
        PROVE  runs' + 1 <= MaxAttempts + faults' /\ runs' <= driver'[e].seen + faults'
    <3>1. e # d /\ driver'[e] = driver[e]
      BY <1>0, <1>1, <2>3
    <3>2. runs + 1 <= MaxAttempts + faults /\ runs <= driver[e].seen + faults
      BY <2>3, <3>1 DEF AttemptsCount
    <3>3. runs + 1 \in Nat /\ runs \in Nat /\ MaxAttempts \in Nat /\ driver[e].seen \in Nat
      BY <1>0
    <3>4. runs + 1 <= MaxAttempts + faults' /\ runs <= driver[e].seen + faults'
      BY <2>0, <3>2, <3>3
    <3> QED BY <1>1, <3>1, <3>4
  <2>4. ASSUME NEW e \in Driver, Carries(e)'
        PROVE  runs' <= driver'[e].attempts + faults'
    <3>1. Carries(e) /\ driver'[e].attempts = driver[e].attempts
      BY <1>0, <1>1, <2>4
    <3>2. runs <= driver[e].attempts + faults
      BY <3>1 DEF AttemptsCount
    <3> QED BY <1>0, <1>1, <3>1, <3>2
  <2> QED BY <2>1, <2>2, <2>3, <2>4 DEF AttemptsCount
<1>2. CASE Begins(d)
  <2>1. /\ InRun = {} /\ driver'[d].pc = "mark" /\ driver'[d].seen = row.attempts
        /\ row' = row /\ runs' = runs /\ faults' = faults
    BY <1>2 DEF Begins, record
  <2>2. \A e \in Driver : driver[e].pc \notin RunPC
    BY <2>1 DEF InRun, RunPC, Early
  <2>3. row.status \notin Terminal
    BY <1>2 DEF Begins, StreamFirst, Streams, Untouched, Terminal, Outcome
  <2>4. runs + 1 <= MaxAttempts + faults /\ runs <= row.attempts + faults
    BY <2>2, <2>3 DEF AttemptsCount
  <2>5. \A e \in Driver \ {d} : ~Carries(e)' /\ driver'[e].pc # "mark"
    BY <1>0, <2>2 DEF Carries, Again, RunPC, Early
  <2>6. ~Carries(d)' /\ driver'[d].pc \in RunPC
    BY <2>1 DEF Carries, Again, RunPC, Early
  <2> QED BY <1>0, <2>1, <2>4, <2>5, <2>6 DEF AttemptsCount
<1>3. CASE Marks(d)
  <2>1. /\ driver[d].pc = "mark" /\ driver'[d].pc = "load" /\ runs' = runs + 1
        /\ row'.attempts = driver[d].seen + 1 /\ driver'[d].attempts = driver[d].seen + 1
        /\ faults' = faults
    BY <1>3 DEF Marks
  <2>2. runs + 1 <= MaxAttempts + faults /\ runs <= driver[d].seen + faults
    BY <2>1 DEF AttemptsCount
  <2>3. \A e \in Driver \ {d} : ~Owns(e)
    BY <2>1 DEF OneRun, Owns, Undecided, Early
  <2>4. \A e \in Driver \ {d} : ~Carries(e)' /\ driver'[e].pc # "mark"
    BY <1>0, <2>3 DEF Carries, Owns, Undecided, Early
  <2>5. driver'[d].pc \in RunPC
    BY <2>1 DEF RunPC, Early
  <2> QED BY <1>0, <2>1, <2>2, <2>4, <2>5 DEF AttemptsCount
<1>4. CASE Settles(d)
  BY <1>1, <1>4 DEF Settles, Carries, Again, Terminal, history, RunPC, Early
<1>5. CASE Advances(d) \/ Stores(d)
  BY <1>1, <1>5 DEF Advances, Stores, Carries, Again, Early, RunPC, history
<1>6. CASE Breaks(d)
  BY <1>1, <1>6 DEF Breaks, Carries, Again, RunPC, record, history
<1>7. CASE Finalizes(d)
  BY <1>1, <1>7 DEF Finalizes, Carries, Again, OutcomeOf, Terminal, Outcome, history
<1>8. CASE Costs(d) \/ Posts(d)
  BY <1>1, <1>8 DEF Costs, Posts, Carries, Again, RunPC, Early, history
<1>9. CASE Handles(d)
  <2>1. /\ driver[d].pc = "fail" /\ driver'[d].pc \in {"requeue", "callbackFailed"}
        /\ runs' = runs /\ row'.attempts = row.attempts /\ faults' = faults
        /\ row'.status \notin Terminal =>
              driver[d].retryable /\ driver[d].attempts < MaxAttempts
    BY <1>9 DEF Handles, Terminal, history
  <2>2. row'.status \notin Terminal => Carries(d)
    BY <2>1 DEF Carries, Again
  <2>3. row'.status \notin Terminal => runs + 1 <= MaxAttempts + faults
    BY <1>0, <2>1, <2>2 DEF AttemptsCount
  <2> QED BY <1>1, <2>1, <2>3 DEF Carries, Again
<1>10. CASE Ends(d)
  <2>1. /\ driver'[d].pc \in {"ack", "idle"} /\ row' = row /\ runs' = runs
        /\ faults' \in {faults, faults + 1}
        /\ driver[d].pc \in RunPC => faults' = faults + 1
    BY <1>10 DEF Ends, record, history
  <2>2. driver[d].pc \in RunPC => runs + 1 <= MaxAttempts + faults'
    BY <1>0, <2>1 DEF AttemptsCount
  <2> QED BY <1>1, <2>1, <2>2 DEF Carries, Again
<1> QED BY <1>2, <1>3, <1>4, <1>5, <1>6, <1>7, <1>8, <1>9, <1>10, DriverSteps

-----------------------------------------------------------------------------
(* The record of a request.                                                *)

(***************************************************************************)
(* The inductive invariant of the theorems below.                          *)
(***************************************************************************)
HistoryInv ==
    /\ CheckpointInv /\ StreamFirst /\ ArtifactInv /\ retrying <= retries
    /\ overlaps = 0 => OneRun /\ AttemptsCount
    /\ overlaps = 0 /\ retries = 0 => LastWord
    /\ overlaps = 0 /\ doubled = 0 /\ late = 0 => Settled

LEMMA HistoryOutside ==
  ASSUME HistoryInv, Outside
  PROVE  /\ ArtifactInv' /\ retrying' <= retries'
         /\ overlaps' = 0 => OneRun' /\ AttemptsCount'
         /\ overlaps' = 0 /\ retries' = 0 => LastWord'
         /\ overlaps' = 0 /\ doubled' = 0 /\ late' = 0 => Settled'
<1>1. TypeOK /\ StreamFirst
  BY DEF HistoryInv, CheckpointInv
<1>2. /\ \A e \in Driver : driver'[e] = driver[e] \/ Arrives(e)
      /\ UNCHANGED <<steps, artifacts, logged, posted, overlaps, late>>
      /\ row'.cost = row.cost
      /\ faults' \in {faults, faults + 1}
      /\ \/ row' = row /\ runs' = runs
         \/ /\ row.status = "none" /\ row'.status = "queued"
            /\ row'.attempts = row.attempts /\ runs' = runs
         \/ retrying > 0 /\ row'.status = "queued" /\ row'.attempts = 0 /\ runs' = 0
      /\ retrying <= retries => retrying' <= retries'
      /\ retries <= retries'
  BY <1>1, OutsideSteps
<1>3. /\ \A e \in Driver : /\ driver[e].seen \in Nat /\ driver[e].attempts \in Nat
      /\ runs \in Nat /\ faults \in Nat /\ row.attempts \in Nat
      /\ MaxAttempts \in Nat /\ 1 <= MaxAttempts
      /\ retries \in Nat /\ retries' \in Nat /\ retrying \in Nat
  <2>1. TypeOK'
    BY <1>1, TypeStep DEF Outside, Next
  <2>2. MaxAttempts \in Nat /\ 1 <= MaxAttempts
    BY AttemptsAssumption
  <2> QED BY <1>1, <2>1, <2>2 DEF TypeOK, StoreType, DriverType, DriverState, Row
<1>4. \A e \in Driver : driver'[e].pc = "read" \/ driver'[e] = driver[e]
  BY <1>2 DEF Arrives
<1>5. Stored' = Stored /\ Batches' = Batches
  BY <1>2 DEF Stored, Batches
<1>6. \A e \in Driver : /\ Undecided(e)' => Undecided(e) /\ driver'[e] = driver[e]
                        /\ Carries(e)' => Carries(e) /\ driver'[e] = driver[e]
                        /\ Owns(e)' => Owns(e) /\ driver'[e] = driver[e]
                        /\ Busy(e)' => Busy(e) /\ driver'[e] = driver[e]
  BY <1>4 DEF Undecided, Again, Carries, Owns, Busy, Early, RunPC, Ending
<1>7. ArtifactInv' /\ retrying' <= retries'
  <2>1. \A e \in Driver : e \in MayFinalize' <=> e \in MayFinalize
    BY <1>2 DEF MayFinalize, Arrives, Early
  <2>2. MayFinalize' = MayFinalize
    BY <2>1 DEF MayFinalize
  <2> QED BY <1>2, <1>5, <2>2 DEF HistoryInv, ArtifactInv
<1>8. ASSUME overlaps' = 0  PROVE OneRun' /\ AttemptsCount'
  <2>1. OneRun /\ AttemptsCount
    BY <1>2, <1>8 DEF HistoryInv
  <2>2. OneRun'
    <3>1. \A e \in Driver : driver'[e].pc \in {"finalize", "cost"} =>
              driver'[e] = driver[e] /\ driver[e].pc \in {"finalize", "cost"}
      BY <1>4
    <3>2. /\ row'.cost = row.cost /\ logged' = logged
          /\ \A e \in Driver : Owns(e)' => Owns(e)
          /\ \A e \in Driver : Undecided(e)' => Undecided(e)
      BY <1>2, <1>6
    <3>3. \A e \in Driver : driver'[e].pc \in {"finalize", "cost"}
                                => Stored' = {driver'[e].node}
      BY <1>5, <2>1, <3>1 DEF OneRun
    <3>4. /\ \A e, f \in Driver : Owns(e)' /\ Owns(f)' => e = f
          /\ \A e \in Driver : Undecided(e)' => Stored' = {}
          /\ \A e \in Driver : Owns(e)' => logged' = 0
      BY <1>5, <2>1, <3>2 DEF OneRun
    <3>5. (logged' # 0 => Stored' # {}) /\ row'.cost = logged'
      BY <1>5, <2>1, <3>2 DEF OneRun
    <3> QED BY <3>3, <3>4, <3>5 DEF OneRun
  <2>3. CASE runs' = runs /\ row'.attempts = row.attempts
    <3>0. \A n \in Nat : \A k \in Nat : k <= n + faults => k <= n + faults'
      <4>1. faults \in Nat /\ faults' \in {faults, faults + 1}
        BY <1>2, <1>3
      <4> QED BY ONLY <4>1, MoreFaults
    <3>1. runs <= MaxAttempts + faults' /\ runs <= row.attempts + faults'
      <4>1. runs <= MaxAttempts + faults /\ runs <= row.attempts + faults
        BY <2>1 DEF AttemptsCount
      <4> QED BY <1>3, <3>0, <4>1
    <3>2. ASSUME row'.status \notin Terminal, \A e \in Driver : driver'[e].pc \notin RunPC
          PROVE  runs + 1 <= MaxAttempts + faults'
      <4>1. \A e \in Driver : driver[e].pc \notin RunPC
        BY <1>2, <3>2 DEF Arrives, RunPC, Early
      <4>2. CASE row.status \notin Terminal
        <5>1. runs + 1 <= MaxAttempts + faults
          BY <2>1, <4>1, <4>2 DEF AttemptsCount
        <5>2. runs + 1 \in Nat
          BY <1>3
        <5> QED BY <1>3, <3>0, <5>1, <5>2
      <4>3. CASE row.status \in Terminal
        <5>1. runs = 0
          BY <1>2, <2>3, <3>2, <4>3 DEF Terminal, Outcome
        <5>2. 0 + 1 <= MaxAttempts + faults'
          <6>1. MaxAttempts \in Nat /\ 1 <= MaxAttempts /\ faults' \in Nat
            BY <1>2, <1>3
          <6> QED BY <6>1, NoRuns
        <5> QED BY <5>1, <5>2
      <4> QED BY <4>2, <4>3
    <3>3. ASSUME NEW e \in Driver, driver'[e].pc = "mark"
          PROVE  runs + 1 <= MaxAttempts + faults' /\ runs <= driver'[e].seen + faults'
      <4>1. driver'[e] = driver[e]
        BY <1>4, <3>3
      <4>2. runs + 1 <= MaxAttempts + faults /\ runs <= driver[e].seen + faults
        BY <2>1, <3>3, <4>1 DEF AttemptsCount
      <4>3. runs + 1 \in Nat /\ runs \in Nat /\ MaxAttempts \in Nat /\ driver[e].seen \in Nat
        BY <1>3
      <4>4. runs + 1 <= MaxAttempts + faults' /\ runs <= driver[e].seen + faults'
        BY <3>0, <4>2, <4>3
      <4> QED BY <4>1, <4>4
    <3>4. ASSUME NEW e \in Driver, Carries(e)'
          PROVE  runs <= driver'[e].attempts + faults'
      <4>1. driver'[e] = driver[e] /\ Carries(e)
        BY <1>6, <3>4
      <4>2. runs <= driver[e].attempts + faults
        BY <2>1, <4>1 DEF AttemptsCount
      <4>3. runs \in Nat /\ driver[e].attempts \in Nat
        BY <1>3
      <4>4. runs <= driver[e].attempts + faults'
        BY <3>0, <4>2, <4>3
      <4> QED BY <4>1, <4>4
    <3>5. /\ runs' <= MaxAttempts + faults' /\ runs' <= row'.attempts + faults'
          /\ row'.status \notin Terminal /\ (\A e \in Driver : driver'[e].pc \notin RunPC)
                => runs' + 1 <= MaxAttempts + faults'
      BY <2>3, <3>1, <3>2
    <3>6. \A e \in Driver : driver'[e].pc = "mark" =>
            runs' + 1 <= MaxAttempts + faults' /\ runs' <= driver'[e].seen + faults'
      BY <2>3, <3>3
    <3>7. \A e \in Driver : Carries(e)' => runs' <= driver'[e].attempts + faults'
      BY <2>3, <3>4
    <3> QED BY <2>2, <3>5, <3>6, <3>7 DEF AttemptsCount
  <2>4. CASE runs' = 0 /\ row'.attempts = 0
    <3>1. \A e \in Driver : driver'[e].seen \in Nat /\ driver'[e].attempts \in Nat
      <4>1. TypeOK'
        BY <1>1, TypeStep DEF Outside, Next
      <4> QED BY <4>1 DEF TypeOK, DriverType, DriverState
    <3>2. faults' \in Nat /\ 0 <= MaxAttempts + faults' /\ 0 + 1 <= MaxAttempts + faults'
      <4>1. faults' \in Nat
        BY <1>2, <1>3
      <4>2. MaxAttempts \in Nat /\ 1 <= MaxAttempts
        BY <1>3
      <4> QED BY <4>1, <4>2, NoRuns
    <3>3. \A e \in Driver : 0 <= driver'[e].seen + faults' /\ 0 <= driver'[e].attempts + faults'
      BY <3>1, <3>2
    <3>4. /\ runs' <= MaxAttempts + faults' /\ runs' <= row'.attempts + faults'
          /\ runs' + 1 <= MaxAttempts + faults'
      <4>1. 0 <= 0 + faults'
        <5>1. MaxAttempts \in Nat /\ 1 <= MaxAttempts /\ faults' \in Nat
          BY <1>3, <3>2
        <5>2. \A n \in Nat : 0 <= n + faults'
          BY <5>1, NoRuns
        <5> QED BY <5>2
      <4> QED BY <2>4, <3>2, <4>1, Zenon
    <3>5. \A e \in Driver : /\ runs' <= driver'[e].seen + faults'
                            /\ runs' <= driver'[e].attempts + faults'
      BY <2>4, <3>3
    <3> QED BY <2>2, <3>4, <3>5 DEF AttemptsCount
  <2>5. CASE row' = row /\ runs' = runs
    BY <2>3, <2>5
  <2> QED BY <1>2, <2>2, <2>3, <2>4, <2>5
<1>9. ASSUME overlaps' = 0, retries' = 0  PROVE LastWord'
  <2>1. retries = 0 /\ retrying = 0
    BY <1>2, <1>3, <1>9 DEF HistoryInv
  <2>2. LastWord
    BY <1>2, <1>9, <2>1 DEF HistoryInv
  <2>3. row'.status = row.status \/ (row.status = "none" /\ row'.status = "queued")
    BY <1>2, <2>1
  <2>4. row'.status \in Terminal <=> row.status \in Terminal
    BY <2>3 DEF Terminal, Outcome
  <2>5. \A e \in Driver : driver'[e].pc \in Ending => driver[e].pc \in Ending
    BY <1>4 DEF Ending
  <2>6. posted # {} => row'.status = row.status
    BY <2>2, <2>3 DEF LastWord, Terminal, Outcome
  <2> QED BY <1>2, <1>6, <2>2, <2>4, <2>5, <2>6 DEF LastWord
<1>10. ASSUME overlaps' = 0, doubled' = 0, late' = 0  PROVE Settled'
  BY <1>1, <1>2, <1>10, SettledOutside DEF HistoryInv
<1> QED BY <1>7, <1>8, <1>9, <1>10

LEMMA HistoryInit == Init => HistoryInv
<1> SUFFICES ASSUME Init  PROVE HistoryInv
  OBVIOUS
<1>1. CheckpointInv
  BY TypeInit DEF Init, CheckpointInv, FinalizesStored, StatusHasCheckpoint, Idle, Outcome
<1>2. \A d \in Driver : driver[d] = Idle
  BY DEF Init
<1>3. \A d \in Driver : driver[d].pc = "idle"
  BY <1>2 DEF Idle
<1>4. StreamFirst
  BY <1>3 DEF Init, StreamFirst, Untouched, Streams, Q!Init, Driver
<1>5. ArtifactInv
  <2>1. MayFinalize = {}
    BY <1>3 DEF MayFinalize, Early
  <2>2. Cardinality(MayFinalize) = 0
    BY <2>1, FS_EmptySet
  <2>3. Batches = 0
    BY DEF Init, Batches, Outcome
  <2> QED BY <2>2, <2>3 DEF Init, ArtifactInv
<1>6. \A d \in Driver : ~Busy(d) /\ ~Owns(d) /\ ~Undecided(d) /\ ~Carries(d)
                        /\ driver[d].pc \notin Ending \cup {"mark", "finalize", "cost"}
  BY <1>3 DEF Busy, Owns, Undecided, Again, Carries, RunPC, Early, Ending
<1>7. OneRun /\ LastWord
  BY <1>6 DEF Init, OneRun, LastWord
<1>8. AttemptsCount
  BY <1>6, AttemptsAssumption DEF Init, AttemptsCount
<1>9. Settled
  BY <1>3 DEF Init, Settled, InRun
<1> QED BY <1>1, <1>4, <1>5, <1>7, <1>8, <1>9 DEF Init, HistoryInv

LEMMA HistoryStep == HistoryInv /\ [Next]_vars => HistoryInv'
<1> SUFFICES ASSUME HistoryInv, [Next]_vars  PROVE HistoryInv'
  OBVIOUS
<1>1. TypeOK /\ FinalizesStored /\ StreamFirst /\ ArtifactInv
  BY DEF HistoryInv, CheckpointInv
<1>2. CheckpointInv' /\ StreamFirst'
  BY <1>1, CheckpointStep, StreamStep DEF HistoryInv
<1>3. CASE Outside
  BY <1>2, <1>3, HistoryOutside DEF HistoryInv
<1>4. ASSUME NEW d \in Driver, Drive(d) \/ RunDbFails(d) \/ DriverRaises(d) \/ Crash(d)
      PROVE  HistoryInv'
  <2>1. ArtifactInv'
    BY <1>1, <1>4, ArtifactDriver
  <2>2. retrying' = retrying /\ retries' = retries /\ doubled' = doubled
    BY <1>1, <1>4, DriverSteps DEF api
  <2>3. overlaps' \in {overlaps, overlaps + 1} /\ overlaps \in Nat
    BY <1>1, <1>4, DriverSteps DEF TypeOK, StoreType, Begins, Settles, Marks, Advances, Stores,
       Breaks, Finalizes, Costs, Posts, Handles, Ends, history
  <2>4. ASSUME overlaps' = 0  PROVE OneRun' /\ AttemptsCount' /\ (retries = 0 => LastWord')
    <3>1. overlaps = 0
      BY <2>3, <2>4
    <3>2. OneRun /\ AttemptsCount /\ (retries = 0 => LastWord)
      BY <3>1 DEF HistoryInv
    <3> QED BY <1>1, <1>4, <2>4, <3>1, <3>2, OneRunDriver, AttemptsDriver, LastWordDriver
  <2>5. late' \in {late, late + 1} /\ late \in Nat
    BY <1>1, <1>4, DriverSteps DEF TypeOK, StoreType, Begins, Settles, Marks, Advances, Stores,
       Breaks, Finalizes, Costs, Posts, Handles, Ends, history
  <2>6. ASSUME overlaps' = 0, doubled' = 0, late' = 0  PROVE Settled'
    <3>1. overlaps = 0 /\ doubled = 0 /\ late = 0
      BY <2>2, <2>3, <2>5, <2>6
    <3>2. OneRun /\ Settled
      BY <3>1 DEF HistoryInv
    <3> QED BY <1>1, <1>4, <2>6, <3>1, <3>2, SettledDriver
  <2> QED BY <1>2, <2>1, <2>2, <2>4, <2>6 DEF HistoryInv
<1> QED BY <1>3, <1>4 DEF Next, Outside

(***************************************************************************)
(* However many drivers run a request, each overlap of runs adds at most   *)
(* one batch of artifacts to the first.                                    *)
(***************************************************************************)
THEOREM OneBatch == Spec => []ArtifactsOnce
<1>1. HistoryInv => ArtifactsOnce
  <2> SUFFICES ASSUME HistoryInv  PROVE ArtifactsOnce
    OBVIOUS
  <2>1. Batches \in Nat /\ overlaps \in Nat /\ Cardinality(MayFinalize) \in Nat
    BY MayFinalizeFinite DEF HistoryInv, CheckpointInv, TypeOK, StoreType, Batches, Outcome
  <2>2. Batches + Cardinality(MayFinalize) <= 1 + overlaps
    BY DEF HistoryInv, ArtifactInv
  <2>3. Batches <= 1 + overlaps
    BY <2>1, <2>2
  <2> QED BY <2>3 DEF Batches, ArtifactsOnce
<1> QED BY <1>1, HistoryInit, HistoryStep, PTL DEF Spec

(***************************************************************************)
(* Without overlapping runs the cost of a request is what the log holds.   *)
(***************************************************************************)
THEOREM CostIsLogged == Spec => []CostMatchesLog
<1>1. HistoryInv => CostMatchesLog
  BY DEF HistoryInv, OneRun, CostMatchesLog
<1> QED BY <1>1, HistoryInit, HistoryStep, PTL DEF Spec

(***************************************************************************)
(* Without overlapping runs a request is run at most MAX_ATTEMPTS times    *)
(* since it was queued from outside, and once more per fault.              *)
(***************************************************************************)
THEOREM AttemptsLimited == Spec => []RunsBounded
<1>1. HistoryInv => RunsBounded
  BY DEF HistoryInv, AttemptsCount, RunsBounded
<1> QED BY <1>1, HistoryInit, HistoryStep, PTL DEF Spec

(***************************************************************************)
(* What callbacks carried is a terminal status, and the one the request    *)
(* has, unless runs overlapped or there was a retry call.                  *)
(***************************************************************************)
THEOREM CallbackTruthful == Spec => []CallbackIsFinal
<1>1. HistoryInv => CallbackIsFinal
  BY DEF HistoryInv, LastWord, CallbackIsFinal
<1> QED BY <1>1, HistoryInit, HistoryStep, PTL DEF Spec

(***************************************************************************)
(* No step of any actor takes a request from its outcome, unless runs      *)
(* overlapped, two retry calls acted on one failure, or the run failed     *)
(* after its terminal checkpoint.                                          *)
(***************************************************************************)
THEOREM OutcomeStays == Spec => OutcomeIsFinal
<1>1. ASSUME HistoryInv, [Next]_vars, row.status \in Outcome,
             overlaps = 0, doubled = 0, late = 0
      PROVE  row'.status = row.status
  <2>1. TypeOK /\ StreamFirst /\ OneRun /\ Settled /\ StatusHasCheckpoint
    BY <1>1 DEF HistoryInv, CheckpointInv
  <2>2. NodeOf(row.status) \in Stored
    BY <1>1, <2>1 DEF StatusHasCheckpoint, Stored, NodeOf, TerminalSteps
  <2>3. CASE Outside
    <3>1. row.status # "none" /\ ~(retrying > 0)
      BY <1>1, <2>1 DEF Outcome, Settled
    <3> QED BY <1>1, <2>1, <2>3, <3>1, OutsideSteps
  <2>4. ASSUME NEW d \in Driver, Drive(d) \/ RunDbFails(d) \/ DriverRaises(d) \/ Crash(d)
        PROVE  row'.status = row.status
    <3>1. ~Undecided(d)
      BY <2>1, <2>2 DEF OneRun
    <3>2. ~Marks(d) /\ ~Advances(d)
      BY <3>1 DEF Marks, Advances, Undecided, Early
    <3>3. ~Handles(d)
      BY <2>1, <2>2 DEF Handles, Settled
    <3>4. CASE Finalizes(d)
      <4>1. Stored = {driver[d].node} /\ row'.status = OutcomeOf(driver[d].node)
        BY <2>1, <3>4 DEF Finalizes, OneRun
      <4>2. driver[d].node = NodeOf(row.status)
        BY <2>2, <4>1
      <4> QED BY <1>1, <4>1, <4>2 DEF NodeOf, OutcomeOf, Outcome
    <3>5. Settles(d) => row'.status = row.status
      BY <1>1 DEF Settles, Terminal
    <3>6. Begins(d) \/ Stores(d) \/ Breaks(d) \/ Costs(d) \/ Posts(d) \/ Ends(d)
             => row'.status = row.status
      BY DEF Begins, Stores, Breaks, Costs, Posts, Ends, record
    <3> QED BY <2>1, <2>4, <3>2, <3>3, <3>4, <3>5, <3>6, DriverSteps
  <2> QED BY <1>1, <2>3, <2>4 DEF Next, Outside
<1>2. HistoryInv /\ [Next]_vars =>
        [row.status \in Outcome /\ overlaps = 0 /\ doubled = 0 /\ late = 0
           => row'.status = row.status]_vars
  BY <1>1
<1> QED BY <1>2, HistoryInit, HistoryStep, PTL DEF Spec, OutcomeIsFinal

-----------------------------------------------------------------------------
(* The copies of the job, and the drivers that still owe it something.     *)

\* A driver that has settled the row, or has handed the job on.
Discharged == {"cost", "callback", "callbackFailed", "ack"}
Charged == {d \in Driver : driver[d].pc \notin Discharged \cup {"idle"}}

\* Who drives a delivery is a worker, and acks it.
FromQueue == \A d \in Driver :
    driver[d].pc # "idle" => (driver[d].mode = "queue" <=> d \in Worker)

SameStatus == row'.status = row.status

Works(d) ==
    /\ d \in Charged /\ d \in Charged'
    /\ row'.status \in {row.status, "running", "queued"}
    /\ UNCHANGED queue
Concludes(d) ==
    /\ d \in Charged /\ driver'[d].pc \in Discharged
    /\ row'.status \in Terminal
    /\ UNCHANGED queue
Closes(d) ==
    /\ driver[d].pc \in Discharged /\ driver'[d].pc \in Discharged
    /\ SameStatus /\ UNCHANGED queue
HandsBack(d) ==
    /\ d \in Charged /\ driver'[d].pc \in Discharged
    /\ waiting'[Req] = waiting[Req] + 1
    /\ SameStatus /\ UNCHANGED <<held, dead>>
Acks(d) ==
    /\ driver[d].pc \in Discharged /\ driver'[d].pc = "idle"
    /\ IF d \in Worker THEN held[Req] > 0 => held'[Req] = held[Req] - 1
                       ELSE held' = held
    /\ SameStatus /\ UNCHANGED <<waiting, dead>>
Dies(d) ==
    /\ driver[d].pc # "idle" /\ driver'[d].pc = "idle"
    /\ IF d = Api THEN "apiCrash" \in Faults ELSE "crash" \in Faults
    /\ faults' = faults + 1
    /\ SameStatus /\ UNCHANGED queue
Slips(d) == Faults \cap {"db", "redis"} # {} /\ faults' = faults + 1

(***************************************************************************)
(* What a driver's step does to the copies of the job.                     *)
(***************************************************************************)
LEMMA DriverCopies ==
  ASSUME TypeOK, FromQueue, NEW d \in Driver,
         Drive(d) \/ RunDbFails(d) \/ DriverRaises(d) \/ Crash(d)
  PROVE  /\ driver[d].pc # "idle"
         /\ driver'[d].pc # "idle" => driver'[d].mode = driver[d].mode
         /\ \/ Works(d) \/ Concludes(d) \/ Closes(d) \/ HandsBack(d) \/ Acks(d) \/ Dies(d)
            \/ Slips(d)
<1> DEFINE Kept == driver'[d].pc # "idle" => driver'[d].mode = driver[d].mode
<1>0. /\ DriverType /\ row \in Row /\ driver[d] \in DriverState
      /\ waiting[Req] \in Nat /\ held[Req] \in Nat
  BY DEF TypeOK, StoreType, QueueType, DriverType
<1>1. /\ \A pc : Leave(d, pc) \/ Goto(d, pc) =>
            driver'[d].pc = pc /\ driver'[d].mode = driver[d].mode
      /\ \A r : Fail(d, r) => driver'[d].pc = "fail" /\ driver'[d].mode = driver[d].mode
  <2>1. ASSUME NEW pc, Leave(d, pc)
        PROVE  driver'[d].pc = pc /\ driver'[d].mode = driver[d].mode
    BY <1>0, <2>1 DEF Leave, Idle, DriverType
  <2>2. ASSUME NEW pc, Goto(d, pc)
        PROVE  driver'[d].pc = pc /\ driver'[d].mode = driver[d].mode
    <3>1. driver'[d] = [driver[d] EXCEPT !.pc = pc]
      BY <1>0, <2>2 DEF Goto, DriverType
    <3> QED BY <1>0, <3>1 DEF DriverState
  <2>3. ASSUME NEW r, Fail(d, r)
        PROVE  driver'[d].pc = "fail" /\ driver'[d].mode = driver[d].mode
    BY <1>0, <2>3 DEF Fail, Idle, DriverType
  <2> QED BY <2>1, <2>2, <2>3
<1>2. ASSUME driver[d].pc \notin Discharged \cup {"idle"},
             driver'[d].pc \notin Discharged \cup {"idle"}, driver'[d].mode = driver[d].mode,
             row'.status \in {row.status, "running", "queued"}, UNCHANGED queue
      PROVE  Kept /\ Works(d)
  BY <1>2 DEF Works, Charged
<1>3. ASSUME driver[d].pc \notin Discharged \cup {"idle"},
             driver'[d].pc \in Discharged, driver'[d].mode = driver[d].mode,
             row'.status \in Terminal, UNCHANGED queue
      PROVE  Kept /\ Concludes(d)
  BY <1>3 DEF Concludes, Charged
<1>4. CASE BeginRead(d)
  <2>1. CASE See(d)
    <3>1. driver'[d].pc = "mark" /\ driver'[d].mode = driver[d].mode
      BY <1>0, <2>1 DEF See, DriverType, DriverState
    <3>2. row' = row
      <4>1. ~Leave(d, "ack")
        BY <1>1, <3>1
      <4> QED BY <1>4, <4>1 DEF BeginRead
    <3> QED BY <1>2, <1>4, <3>1, <3>2 DEF BeginRead, Discharged
  <2>2. CASE Leave(d, "ack") /\ ~See(d)
    <3>1. driver'[d].pc = "ack" /\ driver'[d].mode = driver[d].mode
      BY <1>1, <2>2
    <3>2. \/ row' = row /\ row.status \in Terminal
          \/ row' = [row EXCEPT !.status = IF "needs_review" \in steps
                                           THEN "needs_review" ELSE "completed"]
      BY <1>4, <2>2 DEF BeginRead
    <3>3. row'.status \in Terminal
      BY <1>0, <3>2 DEF Row, Terminal, Outcome
    <3> QED BY <1>3, <1>4, <3>1, <3>3 DEF BeginRead, Discharged
  <2> QED BY <1>4, <2>1, <2>2 DEF BeginRead
<1>5. CASE BeginMark(d)
  <2>1. driver'[d].pc = "load" /\ driver'[d].mode = driver[d].mode
    BY <1>0, <1>5 DEF BeginMark, DriverType, Idle
  <2>2. row'.status \in {row.status, "running"}
    BY <1>0, <1>5 DEF BeginMark, Row
  <2> QED BY <1>2, <1>5, <2>1, <2>2 DEF BeginMark, Discharged
<1>6. CASE Load(d)
  <2>1. driver'[d].pc = "node" /\ driver'[d].mode = driver[d].mode
    BY <1>0, <1>6 DEF Load, DriverType, DriverState
  <2> QED BY <1>2, <1>6, <2>1 DEF Load, Discharged, record
<1>7. CASE RunNode(d) \/ NodeFails(d)
  <2>1. driver'[d].pc \in {"check", "fail"} /\ driver'[d].mode = driver[d].mode
    BY <1>1, <1>7 DEF RunNode, NodeFails
  <2> QED BY <1>2, <1>7, <2>1 DEF RunNode, NodeFails, Discharged, record
<1>8. Follow(d) => driver'[d].pc \in {"finalize", "node"} /\ driver'[d].mode = driver[d].mode
  <2>1. ASSUME NEW n, driver' = [driver EXCEPT ![d].pc = "node", ![d].node = n]
        PROVE  driver'[d].pc = "node" /\ driver'[d].mode = driver[d].mode
    BY <1>0, <2>1 DEF DriverType, DriverState
  <2> QED BY <1>1, <2>1 DEF Follow
<1>9. CASE CheckStep(d) \/ SaveStep(d)
  <2>1. /\ driver'[d].pc \in {"finalize", "node", "save", "fail"}
        /\ driver'[d].mode = driver[d].mode
    BY <1>1, <1>8, <1>9 DEF CheckStep, SaveStep
  <2> QED BY <1>2, <1>9, <2>1 DEF CheckStep, SaveStep, Discharged, record
<1>10. CASE Finalize(d)
  <2>1. driver'[d].pc \in {"cost", "callback"} /\ driver'[d].mode = driver[d].mode
    BY <1>1, <1>10 DEF Finalize
  <2>2. row'.status \in Terminal
    BY <1>0, <1>10 DEF Finalize, Row, OutcomeOf, Terminal, Outcome
  <2> QED BY <1>3, <1>10, <2>1, <2>2 DEF Finalize, Discharged
<1>11. CASE PersistCost(d) \/ Callback(d)
  <2>1. driver'[d].pc \in {"callback", "ack"} /\ driver'[d].mode = driver[d].mode
    BY <1>1, <1>11 DEF PersistCost, Callback
  <2>2. SameStatus
    BY <1>0, <1>11 DEF PersistCost, Callback, Row, SameStatus
  <2>3. Closes(d)
    BY <1>11, <2>1, <2>2 DEF PersistCost, Callback, Closes, Discharged
  <2> QED BY <1>11, <2>1, <2>3 DEF PersistCost, Callback
<1>12. CASE HandleFailure(d)
  <2>1. \/ row' = [row EXCEPT !.status = "queued"] /\ Leave(d, "requeue")
        \/ row' = [row EXCEPT !.status = "failed"] /\ Leave(d, "callbackFailed")
    BY <1>12 DEF HandleFailure
  <2>2. /\ driver'[d].mode = driver[d].mode
        /\ \/ row'.status = "queued" /\ driver'[d].pc = "requeue"
           \/ row'.status = "failed" /\ driver'[d].pc = "callbackFailed"
    BY <1>0, <1>1, <2>1 DEF Row
  <2> QED BY <1>2, <1>3, <1>12, <2>2 DEF HandleFailure, Discharged, Terminal
<1>13. CASE Requeue(d)
  <2>1. driver'[d].pc = "ack" /\ driver'[d].mode = driver[d].mode
    BY <1>1, <1>13 DEF Requeue
  <2>2. waiting'[Req] = waiting[Req] + 1
    BY <1>13 DEF Requeue, Q!Enqueue, Q!Add, TypeOK, QueueType
  <2>3. HandsBack(d)
    BY <1>13, <2>1, <2>2
       DEF Requeue, HandsBack, Charged, Discharged, SameStatus, record, Q!Enqueue
  <2> QED BY <1>13, <2>1, <2>3 DEF Requeue
<1>14. CASE Ack(d)
  <2>1. driver'[d].pc = "idle"
    BY <1>0, <1>14 DEF Ack, DriverType, Idle
  <2>2. CASE d \in Worker
    <3>1. Q!Ack(Req) /\ (held[Req] = 0 \/ held' # held)
      BY <1>14, <2>2 DEF Ack, FromQueue
    <3>2. held[Req] > 0 => held'[Req] = held[Req] - 1
      BY <1>0, <3>1 DEF Q!Ack, Q!Take, TypeOK, QueueType
    <3> QED BY <1>14, <2>1, <2>2, <3>1, <3>2
           DEF Ack, Acks, Discharged, SameStatus, record, Q!Ack
  <2>3. CASE d \notin Worker
    BY <1>14, <2>1, <2>3 DEF Ack, Acks, FromQueue, Discharged, SameStatus, record, queue
  <2> QED BY <1>14, <2>1, <2>2, <2>3 DEF Ack
<1>15. CASE RunDbFails(d)
  <2>1. driver'[d].pc = "fail" /\ driver'[d].mode = driver[d].mode
    BY <1>1, <1>15 DEF RunDbFails
  <2> QED BY <1>15, <2>1 DEF RunDbFails, Fault, Slips
<1>16. CASE DriverRaises(d)
  <2>1. driver'[d].pc = "ack" /\ driver'[d].mode = driver[d].mode
    BY <1>1, <1>16 DEF DriverRaises
  <2> QED BY <1>16, <2>1 DEF DriverRaises, Fault, Slips
<1>17. CASE Crash(d)
  <2>1. driver'[d].pc = "idle"
    BY <1>0, <1>17 DEF Crash, DriverType, Idle
  <2> QED BY <1>17, <2>1 DEF Crash, Fault, Dies, SameStatus, record
<1> QED BY <1>4, <1>5, <1>6, <1>7, <1>9, <1>10, <1>11, <1>12, <1>13, <1>14, <1>15, <1>16,
           <1>17 DEF Drive

(***************************************************************************)
(* A set that gains or loses one element.                                  *)
(***************************************************************************)
LEMMA OneMoves ==
  ASSUME NEW M, IsFiniteSet(M), NEW N, NEW d, \A e : e # d => (e \in N <=> e \in M)
  PROVE  /\ Cardinality(M) \in Nat /\ Cardinality(N) \in Nat
         /\ (d \in M <=> d \in N) => Cardinality(N) = Cardinality(M)
         /\ d \notin M /\ d \in N => Cardinality(N) = Cardinality(M) + 1
         /\ d \in M /\ d \notin N => Cardinality(M) = Cardinality(N) + 1
<1>1. CASE d \in M <=> d \in N
  <2>1. N = M
    BY <1>1
  <2> QED BY <1>1, <2>1, FS_CardinalityType
<1>2. CASE d \notin M /\ d \in N
  <2>1. N = M \cup {d}
    BY <1>2
  <2> QED BY <1>2, <2>1, FS_AddElement, FS_CardinalityType
<1>3. CASE d \in M /\ d \notin N
  <2>1. N = M \ {d} /\ M = N \cup {d}
    BY <1>3
  <2>2. IsFiniteSet(N) /\ Cardinality(N) \in Nat /\ Cardinality(M) \in Nat
    BY <2>1, FS_Subset, FS_CardinalityType
  <2>3. Cardinality(N \cup {d}) = Cardinality(N) + 1
    BY <1>3, <2>2, FS_AddElement
  <2> QED BY <1>3, <2>1, <2>2, <2>3
<1> QED BY <1>1, <1>2, <1>3

LEMMA AtMostOne ==
  ASSUME NEW M, IsFiniteSet(M), NEW d \in M, Cardinality(M) <= 1
  PROVE  M = {d}
<1>1. /\ IsFiniteSet(M \ {d}) /\ Cardinality(M \ {d}) \in Nat
      /\ Cardinality(M) = Cardinality(M \ {d}) + 1
  <2>1. IsFiniteSet(M \ {d})
    BY FS_Subset
  <2>2. \A e : e # d => (e \in M \ {d} <=> e \in M)
    OBVIOUS
  <2> QED BY <2>1, <2>2, OneMoves
<1>2. Cardinality(M \ {d}) = 0
  BY <1>1
<1> QED BY <1>1, <1>2, FS_EmptySet

LEMMA CrewFinite == IsFiniteSet(Holding) /\ IsFiniteSet(Charged)
<1>1. IsFiniteSet(Driver)
  <2>1. IsFiniteSet({Api})
    BY FS_Singleton
  <2> QED BY <2>1, WorkerAssumption, FS_Union DEF Driver
<1>2. Holding \in SUBSET Driver /\ Charged \in SUBSET Driver
  BY DEF Holding, Charged, Driver
<1> QED BY <1>1, <1>2, FS_Subset

(***************************************************************************)
(* When one driver moves, only it may join or leave the workers that hold  *)
(* a delivery and the drivers that still owe something.                    *)
(***************************************************************************)
LEMMA CrewMoves ==
  ASSUME NEW d \in Driver, \A e \in Driver \ {d} : driver'[e] = driver[e]
  PROVE  /\ Cardinality(Holding) \in Nat /\ Cardinality(Holding') \in Nat
         /\ (d \in Holding <=> d \in Holding') => Cardinality(Holding') = Cardinality(Holding)
         /\ d \notin Holding /\ d \in Holding' =>
               Cardinality(Holding') = Cardinality(Holding) + 1
         /\ d \in Holding /\ d \notin Holding' =>
               Cardinality(Holding) = Cardinality(Holding') + 1
         /\ Cardinality(Charged) \in Nat /\ Cardinality(Charged') \in Nat
         /\ (d \in Charged <=> d \in Charged') => Cardinality(Charged') = Cardinality(Charged)
         /\ d \notin Charged /\ d \in Charged' =>
               Cardinality(Charged') = Cardinality(Charged) + 1
         /\ d \in Charged /\ d \notin Charged' =>
               Cardinality(Charged) = Cardinality(Charged') + 1
         /\ \A e \in Driver \ {d} : e \in Charged' <=> e \in Charged
<1>1. \A e : e # d => (e \in Holding' <=> e \in Holding)
  BY DEF Holding, Driver
<1>2. \A e : e # d => (e \in Charged' <=> e \in Charged)
  BY DEF Charged
<1> QED BY <1>1, <1>2, CrewFinite, OneMoves

-----------------------------------------------------------------------------
(* No request is stranded.                                                 *)

\* No claim of a live worker expires.
Punctual == "early" \notin Faults

(***************************************************************************)
(* What makes NoStrandedRequest inductive: where claims are punctual, one  *)
(* is held for every worker that has a delivery, and an undecided row has  *)
(* a copy on the queue, an API call, a claim whose worker is gone, or a    *)
(* driver that will still settle it or hand it back: an ack pending is not *)
(* enough.                                                                 *)
(***************************************************************************)
StrandInv ==
    /\ TypeOK /\ FromQueue
    /\ Punctual => Cardinality(Holding) <= held[Req]
    /\ row.status \in {"queued", "running"} =>
          \/ waiting[Req] > 0 \/ dead[Req] > 0 \/ calls > 0
          \/ Punctual /\ Cardinality(Holding) < held[Req]
          \/ Charged # {}

(***************************************************************************)
(* The faults under which no request is lost: nodes fail, and either       *)
(* workers die or claims expire early.  When both do, an ack may remove    *)
(* the claim of another worker, which then dies without one.               *)
(***************************************************************************)
Survivable == /\ Faults \cap {"apiCrash", "db", "redis"} = {}
              /\ ~({"early", "crash"} \subseteq Faults)

LEMMA FromQueueDriver ==
  ASSUME TypeOK, FromQueue, NEW d \in Driver,
         Drive(d) \/ RunDbFails(d) \/ DriverRaises(d) \/ Crash(d)
  PROVE  FromQueue'
BY DriverCopies, DriverSteps DEF FromQueue

LEMMA StrandDriver ==
  ASSUME StrandInv, Survivable, NEW d \in Driver,
         Drive(d) \/ RunDbFails(d) \/ DriverRaises(d) \/ Crash(d)
  PROVE  StrandInv'
<1>1. /\ TypeOK /\ FromQueue /\ TypeOK' /\ FromQueue'
      /\ waiting[Req] \in Nat /\ held[Req] \in Nat
      /\ Punctual => Cardinality(Holding) <= held[Req]
  <2>1. TypeOK /\ FromQueue
    BY DEF StrandInv
  <2> QED BY <2>1, FromQueueDriver, TypeStep DEF StrandInv, Next, TypeOK, QueueType
<1>2. driver[d].pc # "idle" /\ calls' = calls /\ \A e \in Driver \ {d} : driver'[e] = driver[e]
  BY <1>1, DriverCopies, DriverSteps DEF api
<1>3. /\ Cardinality(Holding) \in Nat /\ Cardinality(Holding') \in Nat
      /\ (d \in Holding <=> d \in Holding') => Cardinality(Holding') = Cardinality(Holding)
      /\ d \in Holding /\ d \notin Holding' => Cardinality(Holding) = Cardinality(Holding') + 1
      /\ \A e \in Driver \ {d} : e \in Charged' <=> e \in Charged
  BY <1>2, CrewMoves
<1>4. /\ d \in Holding <=> d \in Worker
      /\ d \in Holding' <=> d \in Worker /\ driver'[d].pc # "idle"
  BY <1>2 DEF Holding
<1>5. driver'[d].pc # "idle" => Cardinality(Holding') = Cardinality(Holding)
  BY <1>3, <1>4
<1>6. CASE Works(d)
  <2>1. driver'[d].pc # "idle" /\ Charged' # {} /\ held' = held
    BY <1>6 DEF Works, Charged, queue
  <2> QED BY <1>1, <1>5, <2>1 DEF StrandInv
<1>7. CASE Concludes(d)
  <2>1. driver'[d].pc # "idle" /\ row'.status \notin {"queued", "running"} /\ held' = held
    BY <1>7 DEF Concludes, Discharged, Terminal, Outcome, queue
  <2> QED BY <1>1, <1>5, <2>1 DEF StrandInv
<1>8. CASE Closes(d)
  <2>1. driver'[d].pc # "idle" /\ row'.status = row.status /\ UNCHANGED queue
    BY <1>8 DEF Closes, Discharged, SameStatus
  <2>2. Charged # {} => Charged' # {}
    BY <1>3, <1>8 DEF Closes, Charged
  <2> QED BY <1>1, <1>2, <1>5, <2>1, <2>2 DEF StrandInv, queue
<1>9. CASE HandsBack(d)
  <2>1. driver'[d].pc # "idle" /\ waiting'[Req] > 0 /\ held' = held
    BY <1>1, <1>9 DEF HandsBack, Discharged
  <2> QED BY <1>1, <1>5, <2>1 DEF StrandInv
<1>10. CASE Acks(d)
  <2>1. row'.status = row.status /\ UNCHANGED <<waiting, dead>>
    BY <1>10 DEF Acks, SameStatus
  <2>2. Charged # {} => Charged' # {}
    BY <1>3, <1>10 DEF Acks, Charged
  <2>3. ASSUME Punctual
        PROVE  /\ Cardinality(Holding') <= held'[Req]
               /\ Cardinality(Holding) < held[Req] => Cardinality(Holding') < held'[Req]
    <3>1. CASE d \in Worker
      <4>1. Cardinality(Holding) = Cardinality(Holding') + 1
        BY <1>3, <1>4, <1>10, <3>1 DEF Acks
      <4>2. held[Req] > 0
        BY <1>1, <1>3, <2>3, <4>1
      <4>3. held'[Req] = held[Req] - 1
        BY <1>10, <3>1, <4>2 DEF Acks
      <4> QED BY <1>1, <1>3, <2>3, <4>1, <4>3
    <3>2. CASE d \notin Worker
      BY <1>1, <1>3, <1>4, <1>10, <2>3, <3>2 DEF Acks
    <3> QED BY <3>1, <3>2
  <2> QED BY <1>1, <1>2, <2>1, <2>2, <2>3 DEF StrandInv
<1>11. CASE Dies(d)
  <2>1. d \in Worker /\ held' = held /\ Punctual
    BY <1>11 DEF Dies, Driver, Survivable, Punctual, queue
  <2>2. Cardinality(Holding) = Cardinality(Holding') + 1
    BY <1>3, <1>4, <1>11, <2>1 DEF Dies
  <2>3. Cardinality(Holding') < held'[Req] /\ Cardinality(Holding') <= held'[Req]
    BY <1>1, <1>3, <2>1, <2>2
  <2> QED BY <1>1, <2>1, <2>3 DEF StrandInv
<1>12. ~Slips(d)
  BY DEF Slips, Survivable
<1> QED BY <1>1, <1>6, <1>7, <1>8, <1>9, <1>10, <1>11, <1>12, DriverCopies

LEMMA FromQueueOutside ==
  ASSUME TypeOK, FromQueue, Outside
  PROVE  FromQueue'
<1>1. CASE \E mode \in Modes : Submit(mode)
  <2>1. PICK mode \in Modes : Submit(mode)
    BY <1>1
  <2>2. \/ driver' = driver
        \/ driver' = [driver EXCEPT ![Api] = [Idle EXCEPT !.pc = "read", !.mode = mode]]
           /\ mode # "queue"
    BY <2>1 DEF Submit
  <2> QED BY <2>2, ApiAssumption DEF TypeOK, DriverType, FromQueue, Idle
<1>2. CASE \E d \in Worker : Deliver(d)
  <2>1. PICK d \in Worker : driver' = [driver EXCEPT ![d] = [Idle EXCEPT !.pc = "read"]]
    BY <1>2 DEF Deliver
  <2> QED BY <2>1 DEF TypeOK, DriverType, FromQueue, Idle
<1>3. CASE EnqueueCall \/ RetryRead \/ RetryCommit \/ CallCrash \/ Redeliver \/ ReplayDead
           \/ UNCHANGED vars
  BY <1>3 DEF EnqueueCall, RetryRead, RetryCommit, CallCrash, Redeliver, ReplayDead, vars,
              FromQueue
<1> QED BY <1>1, <1>2, <1>3 DEF Outside

(***************************************************************************)
(* What the API calls and the queue do to the copies of the job.           *)
(***************************************************************************)
Submits == /\ row.status = "none" /\ row'.status = "queued"
           /\ UNCHANGED <<queue, retrying, doubled, faults>>
           /\ \/ calls' = calls + 1 /\ UNCHANGED driver
              \/ /\ calls' = calls
                 /\ \A e \in Driver \ {Api} : driver'[e] = driver[e]
                 /\ driver'[Api].pc = "read"
Enqueues == /\ calls > 0 /\ calls' = calls - 1 /\ waiting'[Req] = waiting[Req] + 1
            /\ UNCHANGED <<row, driver, retrying, doubled, held, dead, faults>>
Reads == /\ row.status = "failed" /\ retrying' = retrying + 1
         /\ doubled' = IF retrying > 0 THEN doubled + 1 ELSE doubled
         /\ UNCHANGED <<row, driver, calls, queue, faults>>
Commits == /\ retrying > 0 /\ retrying' = retrying - 1 /\ calls' = calls + 1
           /\ row'.status = "queued"
           /\ UNCHANGED <<driver, doubled, queue, faults>>
Cuts == "apiCrash" \in Faults /\ faults' = faults + 1
Delivers(d) == /\ driver[d].pc = "idle" /\ driver'[d].pc = "read"
               /\ \A e \in Driver \ {d} : driver'[e] = driver[e]
               /\ waiting[Req] > 0 /\ waiting'[Req] = waiting[Req] - 1
               /\ held'[Req] = held[Req] + 1
               /\ UNCHANGED <<row, calls, retrying, doubled, dead, faults>>
Returns == /\ \/ held[Req] > Cardinality(Holding) /\ UNCHANGED faults
              \/ "early" \in Faults /\ faults' = faults + 1
           /\ held[Req] > 0 /\ held'[Req] = held[Req] - 1
           /\ \/ waiting'[Req] = waiting[Req] + 1 /\ UNCHANGED dead
              \/ dead'[Req] = dead[Req] + 1 /\ UNCHANGED waiting
           /\ UNCHANGED <<row, driver, calls, retrying, doubled>>
Replays == /\ dead[Req] > 0 /\ waiting'[Req] = waiting[Req] + 1
           /\ UNCHANGED <<row, driver, calls, retrying, doubled, held, faults>>
Stutters == UNCHANGED <<row, driver, calls, retrying, doubled, queue, faults>>

LEMMA OutsideCopies ==
  ASSUME TypeOK, Outside
  PROVE  \/ Submits \/ Enqueues \/ Reads \/ Commits \/ Cuts \/ Returns \/ Replays \/ Stutters
         \/ \E d \in Worker : Delivers(d)
<1>0. /\ DriverType /\ QueueType /\ row \in Row
  BY DEF TypeOK, StoreType
<1>1. CASE \E mode \in Modes : Submit(mode)
  <2>1. PICK mode \in Modes : Submit(mode)
    BY <1>1
  <2>2. row'.status = "queued"
    BY <1>0, <2>1 DEF Submit, Row
  <2>3. \/ driver' = driver /\ calls' = calls + 1
        \/ /\ calls' = calls
           /\ driver' = [driver EXCEPT ![Api] = [Idle EXCEPT !.pc = "read", !.mode = mode]]
    BY <2>1 DEF Submit
  <2>4. \/ driver' = driver /\ calls' = calls + 1
        \/ /\ calls' = calls /\ driver'[Api].pc = "read"
           /\ \A e \in Driver \ {Api} : driver'[e] = driver[e]
    BY <1>0, <2>3 DEF DriverType, Driver, Idle
  <2> QED BY <2>1, <2>2, <2>4 DEF Submit, Submits
<1>2. CASE EnqueueCall
  BY <1>0, <1>2 DEF EnqueueCall, Enqueues, QueueType, Q!Enqueue, Q!Add, record
<1>3. CASE RetryRead
  BY <1>3 DEF RetryRead, Reads, record
<1>4. CASE RetryCommit
  BY <1>0, <1>4 DEF RetryCommit, Commits, Row
<1>5. CASE CallCrash
  BY <1>5 DEF CallCrash, Cuts
<1>6. ASSUME NEW d \in Worker, Deliver(d)  PROVE Delivers(d)
  <2>1. /\ waiting[Req] > 0 /\ waiting'[Req] = waiting[Req] - 1
        /\ held'[Req] = held[Req] + 1 /\ dead' = dead
    BY <1>0, <1>6 DEF Deliver, QueueType, Q!Deliver, Q!Add, Q!Take
  <2>2. driver'[d].pc = "read" /\ \A e \in Driver \ {d} : driver'[e] = driver[e]
    BY <1>0, <1>6 DEF Deliver, DriverType, Driver, Idle
  <2> QED BY <1>6, <2>1, <2>2 DEF Deliver, Delivers, record, api
<1>7. CASE Redeliver
  <2>1. /\ held[Req] > 0 /\ held'[Req] = held[Req] - 1
        /\ \/ waiting'[Req] = waiting[Req] + 1 /\ UNCHANGED dead
           \/ dead'[Req] = dead[Req] + 1 /\ UNCHANGED waiting
    <3>1. CASE Q!Redeliver(Req)
      BY <1>0, <3>1 DEF QueueType, Q!Redeliver, Q!Add, Q!Take
    <3>2. CASE Q!Bury(Req)
      BY <1>0, <3>2 DEF QueueType, Q!Bury, Q!Add, Q!Take
    <3> QED BY <1>7, <3>1, <3>2 DEF Redeliver
  <2> QED BY <1>7, <2>1 DEF Redeliver, Expired, Returns, record, api
<1>8. CASE ReplayDead
  BY <1>0, <1>8 DEF ReplayDead, Replays, QueueType, Q!Replay, Q!Add, record, api
<1>9. CASE UNCHANGED vars
  BY <1>9 DEF vars, record, api, Stutters
<1> QED BY <1>1, <1>2, <1>3, <1>4, <1>5, <1>6, <1>7, <1>8, <1>9 DEF Outside

LEMMA StrandOutside ==
  ASSUME StrandInv, Survivable, Outside
  PROVE  StrandInv'
<1>1. /\ TypeOK /\ FromQueue /\ TypeOK' /\ FromQueue'
      /\ waiting[Req] \in Nat /\ held[Req] \in Nat /\ calls \in Nat /\ dead[Req] \in Nat
      /\ held'[Req] \in Nat
      /\ Punctual => Cardinality(Holding) <= held[Req]
      /\ Cardinality(Holding) \in Nat
  <2>1. TypeOK /\ FromQueue
    BY DEF StrandInv
  <2>2. TypeOK' /\ FromQueue'
    BY <2>1, FromQueueOutside, TypeStep DEF Outside, Next
  <2>3. Cardinality(Holding) \in Nat
    BY CrewFinite, FS_CardinalityType
  <2> QED BY <2>1, <2>2, <2>3 DEF StrandInv, TypeOK, QueueType, StoreType
<1>2. UNCHANGED driver => Holding' = Holding /\ Charged' = Charged
  BY DEF Holding, Charged
<1>3. CASE Submits
  <2>1. Holding' = Holding
    BY <1>2, <1>3, ApiAssumption DEF Submits, Holding, Driver
  <2>2. calls' > 0 \/ Charged' # {}
    BY <1>1, <1>3 DEF Submits, Charged, Discharged, Driver
  <2> QED BY <1>1, <1>3, <2>1, <2>2 DEF Submits, StrandInv, queue
<1>4. CASE Enqueues
  <2>1. waiting'[Req] > 0
    BY <1>1, <1>4 DEF Enqueues
  <2> QED BY <1>1, <1>2, <1>4, <2>1 DEF Enqueues, StrandInv
<1>5. CASE Reads \/ Stutters
  BY <1>1, <1>2, <1>5 DEF Reads, Stutters, StrandInv, queue
<1>6. CASE Commits
  <2>1. calls' > 0
    BY <1>1, <1>6 DEF Commits
  <2> QED BY <1>1, <1>2, <1>6, <2>1 DEF Commits, StrandInv, queue
<1>7. ~Cuts
  BY DEF Cuts, Survivable
<1>8. CASE Returns
  <2>1. Punctual => Cardinality(Holding) <= held'[Req]
    BY <1>1, <1>8 DEF Returns, Punctual
  <2>2. waiting'[Req] > 0 \/ dead'[Req] > 0
    BY <1>1, <1>8 DEF Returns
  <2> QED BY <1>1, <1>2, <1>8, <2>1, <2>2 DEF Returns, StrandInv
<1>9. CASE Replays
  <2>1. waiting'[Req] > 0
    BY <1>1, <1>9 DEF Replays
  <2> QED BY <1>1, <1>2, <1>9, <2>1 DEF Replays, StrandInv
<1>10. ASSUME NEW d \in Worker, Delivers(d)  PROVE StrandInv'
  <2>1. d \in Driver
    BY DEF Driver
  <2>2. Charged' # {} /\ d \notin Holding /\ d \in Holding'
    BY <1>10, <2>1 DEF Delivers, Charged, Discharged, Holding
  <2>3. Cardinality(Holding') = Cardinality(Holding) + 1
    BY <1>10, <2>1, <2>2, CrewMoves DEF Delivers
  <2>4. Punctual => Cardinality(Holding') <= held'[Req]
    BY <1>1, <1>10, <2>3 DEF Delivers
  <2> QED BY <1>1, <2>2, <2>4 DEF StrandInv
<1> QED BY <1>1, <1>3, <1>4, <1>5, <1>6, <1>7, <1>8, <1>9, <1>10, OutsideCopies

(***************************************************************************)
(* As long as no API call dies, no transaction or enqueue of a driver      *)
(* fails and workers that die leave their own claim behind, an undecided   *)
(* request is never stranded: worker deaths, or claims that expire early,  *)
(* failing nodes and any number of retries lose nothing.                   *)
(***************************************************************************)
THEOREM NothingStranded ==
    Survivable => (Spec => []NoStrandedRequest)
<1> SUFFICES ASSUME Survivable  PROVE Spec => []NoStrandedRequest
  OBVIOUS
<1>1. Init => StrandInv
  <2> SUFFICES ASSUME Init  PROVE StrandInv
    OBVIOUS
  <2>1. \A d \in Driver : driver[d].pc = "idle"
    BY DEF Init, Idle
  <2>2. Holding = {}
    BY <2>1 DEF Holding, Driver
  <2>3. Cardinality(Holding) = 0
    BY <2>2, FS_EmptySet
  <2> QED BY <2>1, <2>3, TypeInit DEF Init, StrandInv, FromQueue, Q!Init
<1>2. StrandInv /\ [Next]_vars => StrandInv'
  BY StrandDriver, StrandOutside DEF Next, Outside
<1>3. StrandInv => NoStrandedRequest
  <2> SUFFICES ASSUME StrandInv, row.status \in {"queued", "running"}
               PROVE  NoStrandedRequest
    BY DEF NoStrandedRequest
  <2>1. /\ waiting[Req] \in Nat /\ held[Req] \in Nat /\ dead[Req] \in Nat
        /\ Cardinality(Holding) \in Nat
    BY CrewFinite, FS_CardinalityType DEF StrandInv, TypeOK, QueueType
  <2>2. CASE waiting[Req] > 0 \/ dead[Req] > 0 \/ Cardinality(Holding) < held[Req]
    BY <2>1, <2>2 DEF NoStrandedRequest
  <2>3. CASE calls > 0 \/ Charged # {}
    BY <2>3 DEF NoStrandedRequest, Charged, Active
  <2> QED BY <2>2, <2>3 DEF StrandInv
<1> QED BY <1>1, <1>2, <1>3, PTL DEF Spec

-----------------------------------------------------------------------------
(* Without faults, status and artifacts move together.                     *)

Copies == waiting[Req] + calls + Cardinality(Charged)
Faultless == faults = 0 /\ doubled = 0

(***************************************************************************)
(* Without faults, and without two retry calls on the same failure, there  *)
(* is one copy of the job at most, in the hands of one call or driver.     *)
(***************************************************************************)
SingleCopy ==
    /\ overlaps = 0
    /\ dead[Req] = 0 /\ held[Req] = Cardinality(Holding)
    /\ Copies + retrying <= 1
    /\ row.status \in Terminal => Copies = 0
    /\ retrying > 0 => row.status = "failed"

(***************************************************************************)
(* Artifacts tell which terminal checkpoint there is, and there is none    *)
(* without them, except while the run that stored it has yet to finalize.  *)
(***************************************************************************)
ArtifactsMatch ==
    /\ \A o \in Outcome : artifacts[o] > 0 => Stored = {NodeOf(o)}
    /\ Stored # {} => \/ \E d \in Driver : driver[d].pc = "finalize"
                      \/ \E o \in Outcome : artifacts[o] > 0

ReportInv == HistoryInv /\ FromQueue /\ (Faultless => SingleCopy /\ ArtifactsMatch)

LEMMA CopiesType ==
  ASSUME TypeOK
  PROVE  /\ waiting[Req] \in Nat /\ held[Req] \in Nat /\ dead[Req] \in Nat
         /\ calls \in Nat /\ retrying \in Nat /\ doubled \in Nat /\ faults \in Nat
         /\ overlaps \in Nat /\ Copies \in Nat
         /\ Cardinality(Holding) \in Nat /\ Cardinality(Charged) \in Nat
<1>1. Cardinality(Holding) \in Nat /\ Cardinality(Charged) \in Nat
  BY CrewFinite, FS_CardinalityType
<1> QED BY <1>1 DEF TypeOK, QueueType, StoreType, Copies

LEMMA OneOfFour ==
  ASSUME NEW a \in Nat, NEW b \in Nat, NEW c \in Nat, NEW e \in Nat,
         a + b + c + e <= 1, c # 0
  PROVE  a = 0 /\ b = 0 /\ c = 1 /\ e = 0
  OBVIOUS

(***************************************************************************)
(* Whoever owes the request something while there is one copy at most is   *)
(* alone, and keeps the row from being terminal and from being retried.    *)
(***************************************************************************)
LEMMA ChargedAlone ==
  ASSUME TypeOK, SingleCopy, NEW d \in Charged
  PROVE  /\ Charged = {d} /\ Cardinality(Charged) = 1
         /\ waiting[Req] = 0 /\ calls = 0 /\ retrying = 0
         /\ row.status \notin Terminal
<1>1. /\ waiting[Req] \in Nat /\ calls \in Nat /\ retrying \in Nat
      /\ Cardinality(Charged) \in Nat /\ IsFiniteSet(Charged)
      /\ waiting[Req] + calls + Cardinality(Charged) + retrying <= 1
  BY CopiesType, CrewFinite DEF SingleCopy, Copies
<1>2. Cardinality(Charged) # 0
  BY <1>1, FS_EmptySet
<1>3. Cardinality(Charged) = 1 /\ waiting[Req] = 0 /\ calls = 0 /\ retrying = 0
  BY <1>1, <1>2, OneOfFour
<1>4. Charged = {d}
  BY <1>1, <1>3, AtMostOne
<1> QED BY <1>1, <1>3, <1>4 DEF SingleCopy, Copies

LEMMA NoneCharged ==
  ASSUME TypeOK, Copies = 0
  PROVE  Charged = {} /\ waiting[Req] = 0 /\ calls = 0
<1>1. /\ waiting[Req] \in Nat /\ calls \in Nat /\ Cardinality(Charged) \in Nat
      /\ waiting[Req] + calls + Cardinality(Charged) = 0
  BY CopiesType DEF Copies
<1>2. Cardinality(Charged) = 0 /\ waiting[Req] = 0 /\ calls = 0
  BY <1>1
<1> QED BY <1>2, CrewFinite, FS_EmptySet

LEMMA SingleDriver ==
  ASSUME TypeOK, FromQueue, SingleCopy, faults = 0, faults' = 0, NEW d \in Driver,
         Drive(d) \/ RunDbFails(d) \/ DriverRaises(d) \/ Crash(d)
  PROVE  SingleCopy'
<1>1. /\ driver[d].pc # "idle" /\ UNCHANGED api
      /\ \A e \in Driver \ {d} : driver'[e] = driver[e]
  BY DriverCopies, DriverSteps
<1>2. /\ Cardinality(Holding') \in Nat /\ Cardinality(Charged') \in Nat
      /\ (d \in Holding <=> d \in Holding') => Cardinality(Holding') = Cardinality(Holding)
      /\ d \in Holding /\ d \notin Holding' => Cardinality(Holding) = Cardinality(Holding') + 1
      /\ (d \in Charged <=> d \in Charged') => Cardinality(Charged') = Cardinality(Charged)
      /\ d \in Charged /\ d \notin Charged' => Cardinality(Charged) = Cardinality(Charged') + 1
  BY <1>1, CrewMoves
<1>3. /\ d \in Holding <=> d \in Worker
      /\ d \in Holding' <=> d \in Worker /\ driver'[d].pc # "idle"
      /\ driver[d].pc \in Discharged => d \notin Charged
      /\ driver'[d].pc \in Discharged \cup {"idle"} => d \notin Charged'
  BY <1>1 DEF Holding, Charged
<1>4. /\ waiting[Req] \in Nat /\ held[Req] \in Nat /\ calls \in Nat /\ retrying \in Nat
      /\ Cardinality(Holding) \in Nat /\ Cardinality(Charged) \in Nat
  BY CopiesType
<1>5. overlaps' = 0
  <2>1. CASE Begins(d)
    <3>1. d \in Charged
      BY <2>1 DEF Begins, Charged, Discharged
    <3>2. Charged = {d}
      BY <3>1, ChargedAlone
    <3>3. InRun \subseteq Charged /\ d \notin InRun
      BY <2>1 DEF Begins, InRun, Charged, Discharged
    <3>4. InRun = {}
      BY <3>2, <3>3
    <3> QED BY <2>1, <3>4 DEF Begins, SingleCopy
  <2>2. CASE ~Begins(d)
    BY <2>2, DriverSteps DEF SingleCopy, Settles, Marks, Advances, Stores, Breaks, Finalizes,
       Costs, Posts, Handles, Ends, history
  <2> QED BY <2>1, <2>2
<1>6. driver'[d].pc # "idle" => Cardinality(Holding') = Cardinality(Holding)
  BY <1>2, <1>3
<1>7. calls' = calls /\ retrying' = retrying
  BY <1>1 DEF api
<1>8. CASE Works(d)
  <2>1. driver'[d].pc # "idle" /\ d \in Charged /\ d \in Charged'
    BY <1>8 DEF Works, Charged
  <2>2. retrying = 0 /\ row.status \notin Terminal
    BY <2>1, ChargedAlone
  <2>3. row'.status \notin Terminal
    BY <1>8, <2>2 DEF Works, Terminal, Outcome
  <2>4. Copies' = Copies
    BY <1>2, <1>7, <1>8, <2>1 DEF Works, Copies, queue
  <2> QED BY <1>4, <1>5, <1>6, <1>7, <1>8, <2>1, <2>2, <2>3, <2>4 DEF Works, SingleCopy, queue
<1>9. CASE Concludes(d)
  <2>1. driver'[d].pc # "idle" /\ d \in Charged /\ d \notin Charged'
    BY <1>3, <1>9 DEF Concludes, Discharged
  <2>2. retrying = 0 /\ waiting[Req] = 0 /\ calls = 0 /\ Cardinality(Charged) = 1
    BY <2>1, ChargedAlone
  <2>3. Copies' = 0
    BY <1>2, <1>7, <1>9, <2>1, <2>2 DEF Concludes, Copies, queue
  <2> QED BY <1>4, <1>5, <1>6, <1>7, <1>9, <2>1, <2>2, <2>3 DEF Concludes, SingleCopy, queue
<1>10. CASE Closes(d)
  <2>1. /\ driver'[d].pc # "idle" /\ d \notin Charged /\ d \notin Charged'
        /\ UNCHANGED queue /\ row'.status = row.status
    BY <1>3, <1>10 DEF Closes, Discharged, SameStatus
  <2>2. Copies' = Copies
    BY <1>2, <1>7, <2>1 DEF Copies, queue
  <2> QED BY <1>4, <1>5, <1>6, <1>7, <2>1, <2>2 DEF SingleCopy, queue
<1>11. CASE HandsBack(d)
  <2>1. /\ driver'[d].pc # "idle" /\ d \in Charged /\ d \notin Charged'
        /\ waiting'[Req] = waiting[Req] + 1
        /\ UNCHANGED <<held, dead>> /\ row'.status = row.status
    BY <1>3, <1>11 DEF HandsBack, Discharged, SameStatus
  <2>2. Copies' = Copies
    BY <1>2, <1>4, <1>7, <2>1 DEF Copies
  <2> QED BY <1>4, <1>5, <1>6, <1>7, <2>1, <2>2 DEF SingleCopy
<1>12. CASE Acks(d)
  <2>1. /\ d \notin Charged /\ d \notin Charged' /\ driver'[d].pc = "idle"
        /\ UNCHANGED <<waiting, dead>> /\ row'.status = row.status
    BY <1>3, <1>12 DEF Acks, SameStatus
  <2>2. Copies' = Copies
    BY <1>2, <1>7, <2>1 DEF Copies
  <2>3. held'[Req] = Cardinality(Holding')
    <3>1. held[Req] = Cardinality(Holding)
      BY DEF SingleCopy
    <3>2. CASE d \in Worker
      <4>1. Cardinality(Holding) = Cardinality(Holding') + 1
        BY <1>2, <1>3, <2>1, <3>2
      <4>2. held'[Req] = held[Req] - 1
        BY <1>2, <1>4, <1>12, <3>1, <3>2, <4>1 DEF Acks
      <4> QED BY <1>2, <1>4, <3>1, <4>1, <4>2
    <3>3. CASE d \notin Worker
      BY <1>2, <1>3, <1>12, <3>1, <3>3 DEF Acks
    <3> QED BY <3>2, <3>3
  <2> QED BY <1>4, <1>5, <1>7, <2>1, <2>2, <2>3 DEF SingleCopy
<1>13. ~Dies(d) /\ ~Slips(d)
  BY DEF Dies, Slips
<1> QED BY <1>8, <1>9, <1>10, <1>11, <1>12, <1>13, DriverCopies

LEMMA SingleOutside ==
  ASSUME TypeOK, StreamFirst, SingleCopy, Faultless, Faultless', Outside
  PROVE  SingleCopy'
<1>1. /\ waiting[Req] \in Nat /\ held[Req] \in Nat /\ dead[Req] \in Nat
      /\ calls \in Nat /\ retrying \in Nat /\ doubled = 0 /\ faults = 0 /\ overlaps' = 0
      /\ Copies \in Nat /\ Cardinality(Holding) \in Nat /\ Cardinality(Charged) \in Nat
  BY CopiesType, OutsideSteps DEF SingleCopy, Faultless
<1>2. UNCHANGED driver => Holding' = Holding /\ Charged' = Charged
  BY DEF Holding, Charged
<1>3. CASE Submits
  <2>1. \A d \in Driver : driver[d].pc = "idle"
    BY <1>3 DEF Submits, StreamFirst, Untouched, Driver
  <2>2. waiting[Req] = 0 /\ calls = 0 /\ retrying = 0
    BY <1>3 DEF Submits, StreamFirst, Untouched
  <2>3. Charged = {} /\ Cardinality(Charged) = 0
    BY <2>1, FS_EmptySet DEF Charged
  <2>4. Holding' = Holding
    BY <1>2, <1>3, ApiAssumption DEF Submits, Holding, Driver
  <2>5. Copies' = 1
    <3>1. CASE calls' = calls + 1 /\ UNCHANGED driver
      BY <1>2, <1>3, <2>2, <2>3, <3>1 DEF Submits, Copies, queue
    <3>2. CASE /\ calls' = calls /\ driver'[Api].pc = "read"
               /\ \A e \in Driver \ {Api} : driver'[e] = driver[e]
      <4>1. Api \in Driver /\ Api \in Charged' /\ Api \notin Charged
        BY <2>3, <3>2 DEF Charged, Discharged, Driver
      <4>2. Cardinality(Charged') = 1
        BY <2>3, <3>2, <4>1, CrewMoves
      <4> QED BY <1>3, <2>2, <3>2, <4>2 DEF Submits, Copies, queue
    <3> QED BY <1>3, <3>1, <3>2 DEF Submits
  <2>6. row'.status \notin Terminal
    BY <1>3 DEF Submits, Terminal, Outcome
  <2> QED BY <1>1, <1>3, <2>2, <2>4, <2>5, <2>6 DEF Submits, SingleCopy, queue
<1>4. CASE Enqueues
  <2>1. Copies' = Copies
    BY <1>1, <1>2, <1>4 DEF Enqueues, Copies
  <2> QED BY <1>1, <1>2, <1>4, <2>1 DEF Enqueues, SingleCopy
<1>5. CASE Reads
  <2>1. retrying = 0 /\ retrying' = 1
    <3>1. ~(retrying > 0)
      BY <1>1, <1>5 DEF Reads, Faultless
    <3> QED BY <1>1, <1>5, <3>1 DEF Reads
  <2>2. Copies = 0 /\ Copies' = Copies
    BY <1>2, <1>5 DEF Reads, SingleCopy, Copies, queue, Terminal
  <2> QED BY <1>1, <1>2, <1>5, <2>1, <2>2 DEF Reads, SingleCopy, queue
<1>6. CASE Commits
  <2>1. Copies = 0 /\ retrying = 1
    <3>1. retrying > 0
      BY <1>6 DEF Commits
    <3>2. Copies + retrying <= 1
      BY DEF SingleCopy
    <3> QED BY <1>1, <3>1, <3>2
  <2>2. Copies' = 1 /\ retrying' = 0
    BY <1>1, <1>2, <1>6, <2>1 DEF Commits, Copies, queue
  <2>3. row'.status \notin Terminal
    BY <1>6 DEF Commits, Terminal, Outcome
  <2> QED BY <1>1, <1>2, <1>6, <2>2, <2>3 DEF Commits, SingleCopy, queue
<1>7. ~Cuts
  BY <1>1 DEF Cuts, Faultless
<1>8. ~Returns
  <2>1. held[Req] = Cardinality(Holding) /\ faults' = 0
    BY DEF SingleCopy, Faultless
  <2> QED BY <1>1, <2>1 DEF Returns
<1>9. ~Replays
  BY DEF Replays, SingleCopy
<1>10. CASE Stutters
  <2>1. Copies' = Copies
    BY <1>2, <1>10 DEF Stutters, Copies, queue
  <2> QED BY <1>1, <1>2, <1>10, <2>1 DEF Stutters, SingleCopy, queue
<1>11. ASSUME NEW d \in Worker, Delivers(d)  PROVE SingleCopy'
  <2>1. d \in Driver
    BY DEF Driver
  <2>2. d \notin Charged /\ d \in Charged' /\ d \notin Holding /\ d \in Holding'
    BY <1>11, <2>1 DEF Delivers, Charged, Discharged, Holding
  <2>3. /\ Cardinality(Holding') = Cardinality(Holding) + 1
        /\ Cardinality(Charged') = Cardinality(Charged) + 1
    BY <1>11, <2>1, <2>2, CrewMoves DEF Delivers
  <2>4. Copies' = Copies /\ Copies > 0
    <3>1. /\ waiting[Req] > 0 /\ waiting'[Req] = waiting[Req] - 1 /\ calls' = calls
      BY <1>11 DEF Delivers
    <3> QED BY <1>1, <2>3, <3>1 DEF Copies
  <2>5. held'[Req] = Cardinality(Holding')
    BY <1>1, <1>11, <2>3 DEF Delivers, SingleCopy
  <2> QED BY <1>1, <1>11, <2>4, <2>5 DEF Delivers, SingleCopy
<1> QED BY <1>3, <1>4, <1>5, <1>6, <1>7, <1>8, <1>9, <1>10, <1>11, OutsideCopies

LEMMA MatchDriver ==
  ASSUME HistoryInv, overlaps = 0, ArtifactsMatch, faults' = 0, faults = 0, NEW d \in Driver,
         Drive(d) \/ RunDbFails(d) \/ DriverRaises(d) \/ Crash(d)
  PROVE  ArtifactsMatch'
<1>1. /\ TypeOK /\ OneRun /\ FinalizesStored /\ StatusHasCheckpoint
      /\ \A o \in Outcome : artifacts[o] \in Nat
  BY DEF HistoryInv, CheckpointInv, TypeOK, StoreType
<1>2. \A e \in Driver \ {d} : driver'[e] = driver[e]
  BY <1>1, DriverSteps
<1>3. ASSUME UNCHANGED artifacts, Stored' = Stored, driver[d].pc # "finalize"
      PROVE  ArtifactsMatch'
  BY <1>2, <1>3 DEF ArtifactsMatch
<1>4. CASE Finalizes(d)
  <2> DEFINE o == OutcomeOf(driver[d].node)
  <2>1. /\ Stored = {driver[d].node} /\ Stored' = Stored
        /\ artifacts' = [artifacts EXCEPT ![o] = @ + 1]
    BY <1>1, <1>4 DEF Finalizes, OneRun, Stored
  <2>2. driver[d].node \in TerminalSteps /\ o \in Outcome /\ NodeOf(o) = driver[d].node
    BY <2>1 DEF Stored, TerminalSteps, OutcomeOf, NodeOf, Outcome
  <2> HIDE DEF o
  <2>3. artifacts'[o] > 0 /\ \A p \in Outcome \ {o} : artifacts'[p] = artifacts[p]
    BY <1>1, <2>1, <2>2 DEF TypeOK, StoreType
  <2> QED BY <2>1, <2>2, <2>3 DEF ArtifactsMatch
<1>5. CASE Stores(d)
  <2>1. Stored = {} /\ artifacts' = artifacts /\ driver'[d].pc = "finalize"
    BY <1>1, <1>5 DEF Stores, OneRun, Undecided, Early
  <2>2. \A o \in Outcome : ~(artifacts'[o] > 0)
    BY <2>1 DEF ArtifactsMatch
  <2> QED BY <2>1, <2>2 DEF ArtifactsMatch
<1>6. CASE Breaks(d)
  <2>1. driver[d].pc # "finalize"
    BY <1>6 DEF Breaks
  <2> QED BY <1>3, <1>6, <2>1 DEF Breaks, record, Stored
<1>7. CASE Ends(d)
  <2>1. driver[d].pc # "finalize"
    BY <1>7 DEF Ends, RunPC
  <2> QED BY <1>3, <1>7, <2>1 DEF Ends, record, Stored
<1>8. CASE Begins(d) \/ Settles(d) \/ Marks(d) \/ Costs(d) \/ Posts(d) \/ Handles(d)
  BY <1>3, <1>8 DEF Begins, Settles, Marks, Costs, Posts, Handles, record, Stored
<1>9. CASE Advances(d)
  BY <1>3, <1>9 DEF Advances, Early
<1> QED BY <1>1, <1>4, <1>5, <1>6, <1>7, <1>8, <1>9, DriverSteps

LEMMA ReportStep == ReportInv /\ [Next]_vars => ReportInv'
<1> SUFFICES ASSUME ReportInv, [Next]_vars  PROVE ReportInv'
  OBVIOUS
<1>1. HistoryInv /\ HistoryInv' /\ TypeOK /\ TypeOK' /\ StreamFirst /\ FromQueue
  BY HistoryStep DEF ReportInv, HistoryInv, CheckpointInv
<1>2. CASE Outside
  <2>1. FromQueue'
    BY <1>1, <1>2, FromQueueOutside
  <2>2. Faultless' => Faultless
    <3>1. faults' \in {faults, faults + 1} /\ faults \in Nat
      BY <1>1, <1>2, OutsideSteps, CopiesType
    <3>2. ASSUME faults' = 0, doubled' = 0  PROVE doubled = 0
      <4>1. doubled \in Nat /\ ~Cuts
        BY <1>1, <3>1, <3>2, CopiesType DEF Cuts
      <4>2. doubled' \in {doubled, doubled + 1}
        <5>1. CASE Reads
          BY <5>1 DEF Reads
        <5>2. CASE Submits \/ Enqueues \/ Commits \/ Returns \/ Replays \/ Stutters
                   \/ \E d \in Worker : Delivers(d)
          BY <5>2 DEF Submits, Enqueues, Commits, Returns, Replays, Stutters, Delivers
        <5> QED BY <1>1, <1>2, <4>1, <5>1, <5>2, OutsideCopies
      <4> QED BY <3>2, <4>1, <4>2
    <3> QED BY <3>1, <3>2 DEF Faultless
  <2>3. ASSUME Faultless'  PROVE SingleCopy' /\ ArtifactsMatch'
    <3>1. SingleCopy /\ ArtifactsMatch
      BY <2>2, <2>3 DEF ReportInv
    <3>2. SingleCopy'
      BY <1>1, <1>2, <2>2, <2>3, <3>1, SingleOutside
    <3>3. /\ \A e \in Driver : driver'[e] = driver[e] \/ Arrives(e)
          /\ UNCHANGED <<steps, artifacts>>
      BY <1>1, <1>2, OutsideSteps
    <3>4. \A e \in Driver : driver[e].pc = "finalize" => driver'[e].pc = "finalize"
      BY <3>3 DEF Arrives
    <3>5. ArtifactsMatch'
      BY <3>1, <3>3, <3>4 DEF ArtifactsMatch, Stored
    <3> QED BY <3>2, <3>5
  <2> QED BY <1>1, <2>1, <2>3 DEF ReportInv
<1>3. ASSUME NEW d \in Driver, Drive(d) \/ RunDbFails(d) \/ DriverRaises(d) \/ Crash(d)
      PROVE  ReportInv'
  <2>1. FromQueue'
    BY <1>1, <1>3, FromQueueDriver
  <2>2. Faultless' => Faultless
    <3>1. faults' \in {faults, faults + 1} /\ faults \in Nat
      BY <1>1, <1>3, DriverSteps, CopiesType DEF Begins, Settles, Marks, Advances, Stores,
         Breaks, Finalizes, Costs, Posts, Handles, Ends
    <3>2. doubled' = doubled
      BY <1>1, <1>3, DriverSteps DEF api
    <3> QED BY <3>1, <3>2 DEF Faultless
  <2>3. ASSUME Faultless'  PROVE SingleCopy' /\ ArtifactsMatch'
    <3>1. SingleCopy /\ ArtifactsMatch /\ faults = 0 /\ faults' = 0 /\ overlaps = 0
      BY <2>2, <2>3 DEF ReportInv, SingleCopy, Faultless
    <3> QED BY <1>1, <1>3, <3>1, SingleDriver, MatchDriver
  <2> QED BY <1>1, <2>1, <2>3 DEF ReportInv
<1> QED BY <1>2, <1>3 DEF Next, Outside

LEMMA ReportInit == Init => ReportInv
<1> SUFFICES ASSUME Init  PROVE ReportInv
  OBVIOUS
<1>1. \A d \in Driver : driver[d].pc = "idle"
  BY DEF Init, Idle
<1>2. Holding = {} /\ Charged = {}
  BY <1>1 DEF Holding, Charged, Driver
<1>3. Cardinality(Holding) = 0 /\ Cardinality(Charged) = 0
  BY <1>2, FS_EmptySet
<1>4. SingleCopy
  BY <1>3 DEF Init, SingleCopy, Copies, Q!Init, Terminal, Outcome
<1>5. ArtifactsMatch
  BY DEF Init, ArtifactsMatch, Stored
<1> QED BY <1>1, <1>4, <1>5, HistoryInit DEF ReportInv, FromQueue

(***************************************************************************)
(* A status answers for its artifacts: without faults, and without two     *)
(* retry calls on the same failure, what GET reads of a request with an    *)
(* outcome is that outcome's artifact and no other, whatever commits       *)
(* between its two reads.                                                  *)
(***************************************************************************)
THEOREM AnswersAgree == Spec => ReportFollowsStatus
<1>1. ASSUME ReportInv, [Next]_vars, Faultless, row.status \in Outcome
      PROVE  /\ {o \in Outcome : artifacts'[o] > 0} = {row.status}
             /\ row.status = "completed" => artifacts["completed"] > 0
  <2>1. /\ TypeOK /\ StreamFirst /\ StatusHasCheckpoint /\ SingleCopy /\ ArtifactsMatch
    BY <1>1 DEF ReportInv, HistoryInv, CheckpointInv
  <2>2. Charged = {}
    BY <1>1, <2>1, NoneCharged DEF SingleCopy, Terminal
  <2>3. \A d \in Driver : driver[d].pc # "finalize"
    BY <2>2 DEF Charged, Discharged
  <2>4. artifacts' = artifacts
    <3>1. CASE Outside
      BY <2>1, <3>1, OutsideSteps
    <3>2. ASSUME NEW d \in Driver, Drive(d) \/ RunDbFails(d) \/ DriverRaises(d) \/ Crash(d)
          PROVE  artifacts' = artifacts
      <4>1. ~Finalizes(d)
        BY <2>3 DEF Finalizes
      <4> QED BY <2>1, <3>2, <4>1, DriverSteps DEF Begins, Settles, Marks, Advances, Stores,
             Breaks, Costs, Posts, Handles, Ends, record
    <3> QED BY <1>1, <3>1, <3>2 DEF Next, Outside
  <2>5. NodeOf(row.status) \in Stored
    BY <1>1, <2>1 DEF StatusHasCheckpoint, Stored, NodeOf, TerminalSteps
  <2>6. PICK o \in Outcome : artifacts[o] > 0
    BY <2>1, <2>3, <2>5 DEF ArtifactsMatch
  <2>7. \A p \in Outcome : artifacts[p] > 0 => p = row.status
    <3>1. \A p \in Outcome : artifacts[p] > 0 => NodeOf(p) = NodeOf(row.status)
      BY <2>1, <2>5 DEF ArtifactsMatch
    <3> QED BY <1>1, <3>1 DEF NodeOf, Outcome
  <2> QED BY <1>1, <2>4, <2>6, <2>7
<1>2. ReportInv /\ [Next]_vars =>
        [faults = 0 /\ doubled = 0 =>
          /\ StatusAnswer.status \in Outcome => StatusAnswer.artifacts = {StatusAnswer.status}
          /\ StatusAnswer.status = "completed" => ReportAnswer = "report"]_vars
  <2> SUFFICES ASSUME ReportInv, [Next]_vars, faults = 0, doubled = 0
               PROVE  /\ row.status \in Outcome =>
                            {o \in Outcome : artifacts'[o] > 0} = {row.status}
                      /\ row.status = "completed" => ReportAnswer = "report"
    BY DEF StatusAnswer
  <2> QED BY <1>1 DEF Faultless, ReportAnswer, Outcome
<1> QED BY <1>2, ReportInit, ReportStep, PTL DEF Spec, ReportFollowsStatus

=============================================================================
