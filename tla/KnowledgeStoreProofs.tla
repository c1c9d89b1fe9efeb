------------------------ MODULE KnowledgeStoreProofs ------------------------
(***************************************************************************)
(* Proofs about KnowledgeStore, for every set of processes, requests and   *)
(* documents, every deployment and every combination of faults.            *)
(***************************************************************************)
EXTENDS KnowledgeStore, FiniteSetTheorems, TLAPS

(***************************************************************************)
(* The chain yields vectors of a known space, of a positive size.          *)
(***************************************************************************)
LEMMA ChainSpaces == deployment \in Deployments => Embeddings \subseteq Space
<1> SUFFICES ASSUME deployment \in Deployments  PROVE Embeddings \subseteq Space
  OBVIOUS
<1>1. deployment.chain = <<"model", "pseudo">> \/ deployment.chain = <<"pseudo">>
  BY DeploymentAssumption DEF Deployment
<1>2. CASE deployment.chain = <<"model", "pseudo">>
  BY <1>2 DEF Embeddings, Space
<1>3. CASE deployment.chain = <<"pseudo">>
  BY <1>3 DEF Embeddings, Space
<1> QED BY <1>1, <1>2, <1>3

LEMMA DeploymentSize ==
  deployment \in Deployments => deployment.size \in {ModelSize, SandboxSize}
  BY DeploymentAssumption DEF Deployment

(***************************************************************************)
(* Vectors that fit an existing collection are of one space, and nothing   *)
(* fits a collection that does not exist.                                  *)
(***************************************************************************)
LEMMA FitsOneSpace ==
  /\ \A s, t \in Space : Fits(s) /\ Fits(t) => s = t
  /\ \A s \in Space : Fits(s) => collection # 0
  BY SizeAssumption DEF Fits, Size, Space

-----------------------------------------------------------------------------
\* A request begins another run only while it has runs left.
RunsLeft == \A r \in Request : run[r].pc = "new" => run[r].runs < MaxAttempts

\* A seeder that is about to write holds a vector.
SeedersHold == \A c \in Client : client[c].pc = "upsert" => client[c].vector \in Space

(***************************************************************************)
(* Whatever is stored, and whatever was compared with it, has the size of  *)
(* the collection.                                                         *)
(***************************************************************************)
SizesMatch ==
    /\ \A d \in Doc : points[d] # "none" => Fits(points[d])
    /\ \A r \in Request : run[r].pc = "found" /\ run[r].vector # "none" => Fits(run[r].vector)

\* What a seeder reported is stored.
SeedersTellTruth ==
    \A c \in Seeder : client[c].pc = "up" => \A d \in Doc : points[d] # "none"

StoreInv == TypeOK /\ RunsLeft /\ SeedersHold /\ SizesMatch /\ SeedersTellTruth

(***************************************************************************)
(* A client that moves on, to a step where it holds no vector.             *)
(***************************************************************************)
LEMMA ClientMoves ==
  ASSUME TypeOK, SeedersHold, NEW c \in Client,
         NEW pc \in {"off", "check", "create", "embed", "up", "failed"}, Goto(c, pc)
  PROVE  /\ client' \in [Client -> ClientState]
         /\ SeedersHold'
         /\ \A e \in Client : client'[e].pc = "up" => client[e].pc = "up" \/ (e = c /\ pc = "up")
<1>1. [pc |-> pc, vector |-> "none"] \in ClientState
  BY DEF ClientState
<1> QED BY <1>1 DEF Goto, TypeOK, SeedersHold

(***************************************************************************)
(* Points of the collection's size can be replaced by points of that size. *)
(***************************************************************************)
LEMMA WriteKeeps ==
  ASSUME StoreInv, NEW space \in Space, Fits(space),
         points' = [d \in Doc |-> space], UNCHANGED <<collection, run>>
  PROVE  /\ points' \in [Doc -> Space \cup {"none"}]
         /\ \A d \in Doc : points'[d] # "none"
         /\ SizesMatch'
<1>1. \A d \in Doc : points'[d] # "none"
  BY DEF Space
<1>2. SizesMatch'
  BY DEF StoreInv, SizesMatch, Fits
<1> QED BY <1>1, <1>2

(***************************************************************************)
(* A collection is created where there was none, so nothing was stored.    *)
(***************************************************************************)
LEMMA CreateKeeps ==
  ASSUME StoreInv, collection = 0, collection' = deployment.size, UNCHANGED <<points, run>>
  PROVE  collection' \in {0, ModelSize, SandboxSize} /\ SizesMatch'
<1>1. collection' \in {0, ModelSize, SandboxSize}
  BY DeploymentSize DEF StoreInv, TypeOK
<1>2. \A d \in Doc : points[d] = "none"
  BY FitsOneSpace DEF StoreInv, TypeOK, SizesMatch
<1>3. \A r \in Request : run[r].vector \in Space \cup {"none"}
  BY DEF StoreInv, TypeOK, RunState
<1>4. \A r \in Request : run[r].pc = "found" => run[r].vector = "none"
  BY <1>3, FitsOneSpace DEF StoreInv, SizesMatch
<1> QED BY <1>1, <1>2, <1>4 DEF SizesMatch

(***************************************************************************)
(* The steps of processes and seed scripts.                                *)
(***************************************************************************)
LEMMA ClientStep ==
  ASSUME StoreInv, NEW c \in Client,
         \/ Start(c) \/ CheckExists(c) \/ Create(c) \/ SeedEmbed(c) \/ SeedUpsert(c)
         \/ ClientCallFails(c) \/ Crash(c)
  PROVE  StoreInv'
<1> USE DEF StoreInv
<1>1. deployment' = deployment /\ run' = run
  BY DEF Start, CheckExists, Create, SeedEmbed, SeedUpsert, ClientCallFails, Crash
<1>2. RunsLeft'
  BY <1>1 DEF RunsLeft
<1>3. ASSUME UNCHANGED store  PROVE /\ SizesMatch'
                                    /\ collection' \in {0, ModelSize, SandboxSize}
                                    /\ points' \in [Doc -> Space \cup {"none"}]
  BY <1>1, <1>3 DEF store, SizesMatch, Fits, TypeOK
<1>4. Provisioned(c) \in {"up", "embed"} /\ NotProvisioned(c) \in {"up", "failed"}
  BY DEF Provisioned, NotProvisioned
<1>5. c \in Seeder => Provisioned(c) # "up" /\ NotProvisioned(c) # "up"
  BY ClientAssumption DEF Provisioned, NotProvisioned
<1>6. CASE Start(c) \/ CheckExists(c) \/ Crash(c)
  <2>1. UNCHANGED store
    BY <1>6 DEF Start, CheckExists, Crash
  <2>2. PICK pc \in {"off", "check", "create", "embed", "up"} :
             Goto(c, pc) /\ (c \in Seeder => pc # "up")
    BY <1>4, <1>5, <1>6 DEF Start, CheckExists, Crash
  <2>3. SeedersTellTruth'
    BY <2>1, <2>2, ClientMoves DEF SeedersTellTruth, store, Client
  <2> QED BY <1>1, <1>2, <1>3, <2>1, <2>2, <2>3, ClientMoves DEF TypeOK
<1>7. CASE Create(c)
  <2>1. PICK pc \in {"embed", "up", "failed"} :
             Goto(c, pc) /\ (c \in Seeder => pc # "up")
    BY <1>4, <1>5, <1>7 DEF Create
  <2>2. points' = points
    BY <1>7 DEF Create
  <2>3. SizesMatch' /\ collection' \in {0, ModelSize, SandboxSize}
    <3>1. CASE collection = 0
      BY <1>1, <1>7, <2>2, <3>1, CreateKeeps DEF Create
    <3>2. CASE collection # 0
      BY <1>3, <1>7, <2>2, <3>2 DEF Create, store
    <3> QED BY <3>1, <3>2
  <2>4. SeedersTellTruth'
    BY <2>1, <2>2, ClientMoves DEF SeedersTellTruth, Client
  <2> QED BY <1>1, <1>2, <2>1, <2>2, <2>3, <2>4, ClientMoves DEF TypeOK
<1>8. CASE SeedEmbed(c)
  <2>1. UNCHANGED store
    BY <1>8 DEF SeedEmbed
  <2>2. CASE Goto(c, "failed")
    <3>1. SeedersTellTruth'
      BY <2>1, <2>2, ClientMoves DEF SeedersTellTruth, store, Client
    <3> QED BY <1>1, <1>2, <1>3, <2>1, <2>2, <3>1, ClientMoves DEF TypeOK
  <2>3. ASSUME NEW space \in Embeddings,
               client' = [client EXCEPT ![c] = [pc |-> "upsert", vector |-> space]]
        PROVE  StoreInv'
    <3>1. space \in Space
      BY ChainSpaces DEF TypeOK
    <3>2. client' \in [Client -> ClientState] /\ SeedersHold'
      BY <2>3, <3>1 DEF TypeOK, ClientState, SeedersHold
    <3>3. SeedersTellTruth'
      BY <2>1, <2>3 DEF SeedersTellTruth, store, Client, TypeOK
    <3> QED BY <1>1, <1>2, <1>3, <2>1, <3>2, <3>3 DEF TypeOK
  <2> QED BY <1>8, <2>2, <2>3 DEF SeedEmbed
<1>9. CASE SeedUpsert(c)
  <2>1. collection' = collection /\ client[c].vector \in Space
    BY <1>9 DEF SeedUpsert, SeedersHold
  <2>2. CASE Fits(client[c].vector)
    <3>1. points' = [d \in Doc |-> client[c].vector] /\ Goto(c, "up")
      BY <1>9, <2>2 DEF SeedUpsert
    <3>2. /\ points' \in [Doc -> Space \cup {"none"}] /\ SizesMatch'
          /\ \A d \in Doc : points'[d] # "none"
      BY <1>1, <2>1, <2>2, <3>1, WriteKeeps
    <3> QED BY <1>1, <1>2, <2>1, <3>1, <3>2, ClientMoves DEF TypeOK, SeedersTellTruth
  <2>3. CASE ~Fits(client[c].vector)
    <3>1. UNCHANGED store /\ Goto(c, "failed")
      BY <1>9, <2>3 DEF SeedUpsert, store
    <3>2. SeedersTellTruth'
      BY <3>1, ClientMoves DEF SeedersTellTruth, store, Client
    <3> QED BY <1>1, <1>2, <1>3, <3>1, <3>2, ClientMoves DEF TypeOK
  <2> QED BY <2>2, <2>3
<1>10. CASE ClientCallFails(c)
  <2>1. Goto(c, NotProvisioned(c))
    BY <1>10 DEF ClientCallFails
  <2>2. /\ SizesMatch' /\ collection' \in {0, ModelSize, SandboxSize}
        /\ points' \in [Doc -> Space \cup {"none"}]
        /\ (\A d \in Doc : points[d] # "none") => (\A d \in Doc : points'[d] # "none")
    <3>1. CASE UNCHANGED store
      BY <1>3, <3>1 DEF store
    <3>2. CASE collection = 0 /\ collection' = deployment.size /\ UNCHANGED points
      BY <1>1, <3>2, CreateKeeps DEF TypeOK
    <3>3. CASE /\ client[c].pc = "upsert" /\ Fits(client[c].vector)
               /\ points' = [d \in Doc |-> client[c].vector] /\ UNCHANGED collection
      <4>1. client[c].vector \in Space
        BY <3>3 DEF SeedersHold
      <4>2. /\ points' \in [Doc -> Space \cup {"none"}] /\ SizesMatch'
            /\ \A d \in Doc : points'[d] # "none"
        BY <1>1, <3>3, <4>1, WriteKeeps
      <4> QED BY <3>3, <4>2 DEF TypeOK
    <3> QED BY <1>10, <3>1, <3>2, <3>3 DEF ClientCallFails
  <2>3. SeedersTellTruth'
    BY <1>4, <1>5, <2>1, <2>2, ClientMoves DEF SeedersTellTruth, Client
  <2> QED BY <1>1, <1>2, <1>4, <2>1, <2>2, <2>3, ClientMoves DEF TypeOK
<1> QED BY <1>6, <1>7, <1>8, <1>9, <1>10

(***************************************************************************)
(* The run of a request may become any run that fits the collection when   *)
(* it has found something.                                                 *)
(***************************************************************************)
LEMMA RunChanges ==
  ASSUME StoreInv, NEW r \in Request, NEW s \in RunState, run' = [run EXCEPT ![r] = s],
         UNCHANGED <<deployment, store, client>>,
         s.pc = "new" => s.runs < MaxAttempts,
         s.pc = "found" => s.vector = "none" \/ Fits(s.vector)
  PROVE  StoreInv'
<1>1. TypeOK'
  BY DEF StoreInv, TypeOK, store
<1>2. RunsLeft' /\ SizesMatch'
  BY DEF StoreInv, TypeOK, store, RunsLeft, SizesMatch, Fits
<1> QED BY <1>1, <1>2 DEF StoreInv, SeedersHold, SeedersTellTruth, store

LEMMA RunStep ==
  ASSUME StoreInv, NEW r \in Request,
         RunBegin(r) \/ RunEmbed(r) \/ RunSearch(r) \/ RunSearchFails(r)
  PROVE  StoreInv'
<1>1. /\ run[r] \in RunState /\ run[r].tries \in 0 .. MaxAttempts
      /\ run[r].runs \in 0 .. MaxAttempts
  BY DEF StoreInv, TypeOK, RunState
<1>2. UNCHANGED <<deployment, store, client>>
  BY DEF RunBegin, RunEmbed, RunSearch, RunSearchFails
<1>3. ASSUME NEW cause \in {"exhausted", "refused", "absent", "size"}, Fails(r, cause)
      PROVE  StoreInv'
  <2> DEFINE s == [run[r] EXCEPT !.pc = "failed", !.vector = "none", !.cause = cause]
  <2>1. s \in RunState /\ s.pc = "failed"
    BY <1>1 DEF RunState
  <2>2. run' = [run EXCEPT ![r] = s]
    BY <1>3 DEF Fails
  <2> HIDE DEF s
  <2> QED BY <1>2, <2>1, <2>2, RunChanges
<1>4. CASE RunBegin(r)
  <2> DEFINE s == [run[r] EXCEPT !.pc = "embed", !.tries = 1, !.runs = @ + 1]
  <2>1. run[r].runs < MaxAttempts
    BY <1>4 DEF RunBegin, StoreInv, RunsLeft
  <2>2. 1 \in 0 .. MaxAttempts /\ run[r].runs + 1 \in 0 .. MaxAttempts
    BY <1>1, <2>1, AttemptsAssumption
  <2>3. s \in RunState /\ s.pc = "embed"
    BY <1>1, <2>2 DEF RunState
  <2>4. run' = [run EXCEPT ![r] = s]
    BY <1>4 DEF RunBegin
  <2> HIDE DEF s
  <2> QED BY <1>2, <2>3, <2>4, RunChanges
<1>5. CASE RunEmbed(r)
  <2>1. ASSUME NEW space \in Embeddings,
               run' = [run EXCEPT ![r].pc = "search", ![r].vector = space]
        PROVE  StoreInv'
    <3> DEFINE s == [run[r] EXCEPT !.pc = "search", !.vector = space]
    <3>1. space \in Space
      BY ChainSpaces DEF StoreInv, TypeOK
    <3>2. s \in RunState /\ s.pc = "search"
      BY <1>1, <3>1 DEF RunState
    <3>3. run' = [run EXCEPT ![r] = s]
      BY <2>1
    <3> HIDE DEF s
    <3> QED BY <1>2, <3>2, <3>3, RunChanges
  <2> QED BY <1>3, <1>5, <2>1 DEF RunEmbed
<1>6. CASE RunSearch(r)
  <2>1. CASE collection # 0 /\ Fits(run[r].vector)
    <3> DEFINE found == {d \in Doc : points[d] # "none"}
               s == [run[r] EXCEPT !.pc = "found", !.hits = found]
    <3>1. found \in SUBSET Doc
      OBVIOUS
    <3>2. run' = [run EXCEPT ![r] = s]
      BY <1>6, <2>1 DEF RunSearch
    <3> HIDE DEF found
    <3>3. s \in RunState /\ s.pc = "found" /\ s.vector = run[r].vector
      BY <1>1, <3>1 DEF RunState
    <3> HIDE DEF s
    <3> QED BY <1>2, <2>1, <3>2, <3>3, RunChanges
  <2> QED BY <1>3, <1>6, <2>1 DEF RunSearch
<1>7. CASE RunSearchFails(r)
  <2>1. CASE run[r].tries < MaxAttempts
    <3> DEFINE s == [run[r] EXCEPT !.pc = "embed", !.vector = "none", !.tries = @ + 1]
    <3>1. run[r].tries + 1 \in 0 .. MaxAttempts
      BY <1>1, <2>1, AttemptsAssumption
    <3>2. s \in RunState /\ s.pc = "embed"
      BY <1>1, <3>1 DEF RunState
    <3>3. run' = [run EXCEPT ![r] = s]
      BY <1>7, <2>1 DEF RunSearchFails
    <3> HIDE DEF s
    <3> QED BY <1>2, <3>2, <3>3, RunChanges
  <2>2. CASE run[r].tries >= MaxAttempts /\ run[r].runs < MaxAttempts
    <3> DEFINE s == [run[r] EXCEPT !.pc = "new", !.vector = "none", !.tries = 0]
    <3>1. 0 \in 0 .. MaxAttempts
      BY AttemptsAssumption
    <3>2. s \in RunState /\ s.pc = "new" /\ s.runs = run[r].runs
      BY <1>1, <3>1 DEF RunState
    <3>3. ~(run[r].tries < MaxAttempts)
      BY <1>1, <2>2, AttemptsAssumption
    <3>4. run' = [run EXCEPT ![r] = s]
      BY <1>7, <2>2, <3>3 DEF RunSearchFails
    <3> HIDE DEF s
    <3> QED BY <1>2, <2>2, <3>2, <3>4, RunChanges
  <2>3. ~(run[r].tries < MaxAttempts) => run[r].tries >= MaxAttempts
    BY <1>1, AttemptsAssumption
  <2> QED BY <1>3, <1>7, <2>1, <2>2, <2>3 DEF RunSearchFails
<1> QED BY <1>4, <1>5, <1>6, <1>7

(***************************************************************************)
(* Init establishes the invariant and every step keeps it.                 *)
(***************************************************************************)
LEMMA InvInit == Init => StoreInv
<1> SUFFICES ASSUME Init  PROVE StoreInv
  OBVIOUS
<1>1. Off \in ClientState
  BY DEF Off, ClientState
<1>2. NewRun \in RunState
  BY AttemptsAssumption DEF NewRun, RunState
<1>3. TypeOK
  BY <1>1, <1>2 DEF Init, TypeOK
<1>4. RunsLeft /\ SeedersHold /\ SizesMatch /\ SeedersTellTruth
  BY AttemptsAssumption
     DEF Init, RunsLeft, SeedersHold, SizesMatch, SeedersTellTruth, Off, NewRun, Client
<1> QED BY <1>3, <1>4 DEF StoreInv

LEMMA InvStep == StoreInv /\ [Next]_vars => StoreInv'
<1> SUFFICES ASSUME StoreInv, [Next]_vars  PROVE StoreInv'
  OBVIOUS
<1>1. CASE UNCHANGED vars
  BY <1>1 DEF vars, store, StoreInv, TypeOK, RunsLeft, SeedersHold, SizesMatch,
              SeedersTellTruth, Fits
<1> QED BY <1>1, ClientStep, RunStep DEF Next

(***************************************************************************)
(* Collection, points, processes, seed scripts and runs keep their types.  *)
(***************************************************************************)
THEOREM TypeCorrect == Spec => []TypeOK
<1>1. StoreInv => TypeOK
  BY DEF StoreInv
<1> QED BY <1>1, InvInit, InvStep, PTL DEF Spec

(***************************************************************************)
(* Vectors of two models are never stored beside or compared with each     *)
(* other: the size of the collection keeps them apart, through failovers   *)
(* of single embeddings in any order.                                      *)
(***************************************************************************)
THEOREM SpacesKeptApart == Spec => []NoMixedSpaces
<1>1. StoreInv => NoMixedSpaces
  <2> SUFFICES ASSUME StoreInv  PROVE NoMixedSpaces
    OBVIOUS
  <2> DEFINE V == Compared \ {"none"}
  <2>1. \A v \in V : v \in Space /\ Fits(v)
    BY DEF StoreInv, TypeOK, SizesMatch, Compared, RunState
  <2>2. \A v, w \in V : v = w
    BY <2>1, FitsOneSpace
  <2>3. CASE V = {}
    BY <2>3, FS_EmptySet DEF NoMixedSpaces
  <2>4. CASE V # {}
    <3>1. PICK v \in V : V = {v}
      BY <2>2, <2>4
    <3>2. Cardinality(V) = 1
      BY <3>1, FS_Singleton
    <3> QED BY <3>2 DEF NoMixedSpaces
  <2> QED BY <2>3, <2>4
<1> QED BY <1>1, InvInit, InvStep, PTL DEF Spec

(***************************************************************************)
(* A collection is never recreated and no point removed, whichever         *)
(* processes provision at once and wherever they crash.                    *)
(***************************************************************************)
THEOREM StoreOnlyGrows == Spec => PointsStay
<1> DEFINE A == /\ collection # 0 => collection' = collection
                /\ \A d \in Doc : points[d] # "none" => points'[d] # "none"
<1>1. StoreInv /\ [Next]_vars => [A]_vars
  <2> SUFFICES ASSUME StoreInv, Next  PROVE A
    BY DEF vars
  <2>1. ASSUME UNCHANGED store  PROVE A
    BY <2>1 DEF store
  <2>2. ASSUME NEW c \in Client, client[c].pc = "upsert", UNCHANGED collection,
               points' = [d \in Doc |-> client[c].vector]
        PROVE  A
    <3>1. client[c].vector # "none"
      BY <2>2 DEF StoreInv, SeedersHold, Space
    <3> QED BY <2>2, <3>1
  <2>3. ASSUME NEW c \in Client,
               \/ Start(c) \/ CheckExists(c) \/ Create(c) \/ SeedEmbed(c) \/ SeedUpsert(c)
               \/ ClientCallFails(c) \/ Crash(c)
        PROVE  A
    <3>1. CASE Start(c) \/ CheckExists(c) \/ SeedEmbed(c) \/ Crash(c)
      BY <2>1, <3>1 DEF Start, CheckExists, SeedEmbed, Crash
    <3>2. CASE Create(c)
      BY <3>2 DEF Create
    <3>3. CASE SeedUpsert(c)
      BY <2>2, <3>3 DEF SeedUpsert
    <3>4. CASE ClientCallFails(c)
      BY <2>1, <2>2, <3>4 DEF ClientCallFails
    <3> QED BY <2>3, <3>1, <3>2, <3>3, <3>4
  <2>4. ASSUME NEW r \in Request,
               RunBegin(r) \/ RunEmbed(r) \/ RunSearch(r) \/ RunSearchFails(r)
        PROVE  A
    BY <2>1, <2>4 DEF RunBegin, RunEmbed, RunSearch, RunSearchFails
  <2> QED BY <2>3, <2>4 DEF Next
<1> QED BY <1>1, InvInit, InvStep, PTL DEF Spec, PointsStay

(***************************************************************************)
(* Once a seed script has reported success, a search that is answered sees *)
(* the whole corpus, whoever starts, fails or seeds meanwhile.             *)
(***************************************************************************)
THEOREM CorpusIsFound == Spec => SeededIsFound
<1> DEFINE A == \A r \in Request :
                  /\ \E c \in Seeder : client[c].pc = "up"
                  /\ run[r].pc = "search"
                  /\ run'[r].pc = "found"
                  => run'[r].hits = Doc
<1>1. StoreInv /\ [Next]_vars => [A]_vars
  <2> SUFFICES ASSUME StoreInv, Next, NEW r \in Request,
                      \E c \in Seeder : client[c].pc = "up",
                      run[r].pc = "search", run'[r].pc = "found"
               PROVE  run'[r].hits = Doc
    BY DEF vars
  <2>1. \A d \in Doc : points[d] # "none"
    BY DEF StoreInv, SeedersTellTruth
  <2>2. \A q \in Request : run[q] \in RunState
    BY DEF StoreInv, TypeOK
  <2>3. run' # run
    OBVIOUS
  <2>4. \A q \in Request : \A cause : Fails(q, cause) => run'[r].pc # "found"
    BY <2>2 DEF Fails, StoreInv, TypeOK, RunState
  <2>5. \A q \in Request : ~RunBegin(q) /\ ~RunEmbed(q) /\ ~RunSearchFails(q)
    BY <2>2, <2>4 DEF RunBegin, RunEmbed, RunSearchFails, StoreInv, TypeOK, RunState
  <2>6. PICK q \in Request : RunSearch(q)
    BY <2>3, <2>5 DEF Next, Start, CheckExists, Create, SeedEmbed, SeedUpsert,
                      ClientCallFails, Crash
  <2>7. q = r /\ run' = [run EXCEPT ![q].pc = "found",
                                    ![q].hits = {d \in Doc : points[d] # "none"}]
    BY <2>2, <2>4, <2>6 DEF RunSearch, StoreInv, TypeOK, RunState
  <2> QED BY <2>1, <2>2, <2>7 DEF StoreInv, TypeOK, RunState
<1> QED BY <1>1, InvInit, InvStep, PTL DEF Spec, SeededIsFound
=============================================================================
