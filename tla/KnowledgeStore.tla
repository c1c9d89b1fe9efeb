--------------------------- MODULE KnowledgeStore ---------------------------
(***************************************************************************)
(* The knowledge store in Qdrant (app/adapters/knowledge/qdrant_store.py)  *)
(* and its clients: API and worker processes that provision the collection *)
(* when they start and never again, seed scripts that provision it and     *)
(* write the corpus, and the retrieve node of runs.  Every action is one   *)
(* call of Qdrant or of the embedding chain; clients interleave freely.    *)
(*                                                                         *)
(* A vector is abstracted to the space it comes from: the embedding model  *)
(* of the provider, or the pseudo vectors of the sandbox model that ends   *)
(* the failover chain.  A collection takes vectors of one size only.       *)
(***************************************************************************)
EXTENDS Naturals, Sequences, FiniteSets

CONSTANTS
    Server,       \* API and worker processes
    Seeder,       \* runs of scripts/seed_knowledge.py
    Request,      \* requests whose run retrieves
    Doc,          \* the documents of SEED_DOCS
    ModelSize,    \* length of the provider's embeddings
    SandboxSize,  \* length of a pseudo vector (16)
    Deployments,  \* configurations of chain and size, see Deployment
    MaxAttempts,  \* settings.max_attempts, of a search and of a request
    Faults        \* what may go wrong, see FaultKinds

(***************************************************************************)
(* "llm"     the embedding provider times out or is unavailable for a call *)
(* "refused" the provider refuses a call for good (a 4xx)                  *)
(* "qdrant"  a Qdrant call fails, before or after it took effect           *)
(* "crash"   a process ends                                                *)
(***************************************************************************)
FaultKinds == {"llm", "refused", "qdrant", "crash"}

Space == {"model", "pseudo"}
Size == [s \in Space |-> IF s = "model" THEN ModelSize ELSE SandboxSize]

\* chain: the links of _build_llm; size: settings.qdrant_vector_size.
Deployment == [chain : {<<"model", "pseudo">>, <<"pseudo">>},
               size : {ModelSize, SandboxSize}]

ASSUME SizeAssumption == /\ ModelSize \in Nat \ {0}
                         /\ SandboxSize \in Nat \ {0}
                         /\ ModelSize # SandboxSize
ASSUME ClientAssumption == Server \cap Seeder = {}
ASSUME DeploymentAssumption == Deployments \subseteq Deployment
ASSUME AttemptsAssumption == MaxAttempts \in Nat \ {0}
ASSUME FaultAssumption == Faults \subseteq FaultKinds

VARIABLES
    deployment,  \* the configuration every process is started with
    collection,  \* size of the vectors of the collection, 0 if there is none
    points,      \* the space of the vector stored for a document, or "none"
    client,      \* what a server or seeder is doing
    run          \* the retrieve node of the current run of a request

store == <<collection, points>>
vars == <<deployment, store, client, run>>

Client == Server \cup Seeder

\* pc "up" is a server that serves, or a seeder that reported success; a seeder
\* holds the vectors it is about to write.
ClientState == [pc : {"off", "check", "create", "embed", "upsert", "up", "failed"},
                vector : Space \cup {"none"}]

\* tries: calls of the current run; runs: runs begun.  cause says why a run
\* ended the request as failed, hits what the search found.
RunState == [pc : {"new", "embed", "search", "found", "failed"},
             vector : Space \cup {"none"},
             tries : 0 .. MaxAttempts, runs : 0 .. MaxAttempts,
             cause : {"none", "exhausted", "refused", "absent", "size"},
             hits : SUBSET Doc]

Off == [pc |-> "off", vector |-> "none"]
NewRun == [pc |-> "new", vector |-> "none", tries |-> 0, runs |-> 0,
           cause |-> "none", hits |-> {}]

TypeOK ==
    /\ deployment \in Deployments
    /\ collection \in {0, ModelSize, SandboxSize}
    /\ points \in [Doc -> Space \cup {"none"}]
    /\ client \in [Client -> ClientState]
    /\ run \in [Request -> RunState]

\* A new installation: Qdrant is empty, nothing runs.
Init ==
    /\ deployment \in Deployments
    /\ collection = 0
    /\ points = [d \in Doc |-> "none"]
    /\ client = [c \in Client |-> Off]
    /\ run = [r \in Request |-> NewRun]

-----------------------------------------------------------------------------
(* The embedding chain and Qdrant.                                         *)

\* FailoverLlm.embed: the first link, or the next one when the links before it
\* fail transiently; the sandbox model at the end never fails.
Embeddings ==
    LET chain == deployment.chain IN
    {chain[i] : i \in {k \in DOMAIN chain : k = 1 \/ "llm" \in Faults}}

Refusable == "refused" \in Faults /\ deployment.chain[1] = "model"

\* Mutant: the sandbox model pads its vectors to the size of the collection.
FitsPadded(space) == space = "pseudo" \/ Size[space] = collection

Fits(space) == Size[space] = collection

Goto(c, pc) == client' = [client EXCEPT ![c] = [pc |-> pc, vector |-> "none"]]

-----------------------------------------------------------------------------
(* ensure_ready, in the lifespan of the API, in run_worker and in the seed  *)
(* script.                                                                  *)

\* A process starts; the operator runs a seed script, again if need be.
Start(c) ==
    /\ client[c].pc \in {"off", "failed"}
    /\ Goto(c, "check")
    /\ UNCHANGED <<deployment, store, run>>

Provisioned(c) == IF c \in Server THEN "up" ELSE "embed"

\* The error is suppressed by a server and ends a seed script.
NotProvisioned(c) == IF c \in Server THEN "up" ELSE "failed"

\* collection_exists: whether to create is decided here.
CheckExists(c) ==
    /\ client[c].pc = "check"
    /\ Goto(c, IF collection = 0 THEN "create" ELSE Provisioned(c))
    /\ UNCHANGED <<deployment, store, run>>

\* Mutant: recreate_collection, which drops what is there.
CreateAnew(c) ==
    /\ client[c].pc = "create"
    /\ collection' = deployment.size
    /\ points' = [d \in Doc |-> "none"]
    /\ Goto(c, Provisioned(c))
    /\ UNCHANGED <<deployment, run>>

\* create_collection: a conflict when another client was faster, which
\* _translate makes a permanent error.
Create(c) ==
    /\ client[c].pc = "create"
    /\ IF collection = 0
       THEN collection' = deployment.size /\ Goto(c, Provisioned(c))
       ELSE UNCHANGED collection /\ Goto(c, NotProvisioned(c))
    /\ UNCHANGED <<deployment, points, run>>

-----------------------------------------------------------------------------
(* The seed script: upsert of the whole corpus.                            *)

SeedEmbed(c) ==
    /\ client[c].pc = "embed"
    /\ \/ \E space \in Embeddings :
            client' = [client EXCEPT ![c] = [pc |-> "upsert", vector |-> space]]
       \/ Refusable /\ Goto(c, "failed")
    /\ UNCHANGED <<deployment, store, run>>

\* Mutant: an error of upsert is suppressed like those of ensure_ready.
SeedUpsertSuppressed(c) ==
    /\ client[c].pc = "upsert"
    /\ LET space == client[c].vector IN
        points' = IF Fits(space) THEN [d \in Doc |-> space] ELSE points
    /\ Goto(c, "up")
    /\ UNCHANGED <<deployment, collection, run>>

\* One call writes all points, under ids derived from those of the documents;
\* vectors of another size are refused as a whole.
SeedUpsert(c) ==
    /\ client[c].pc = "upsert"
    /\ LET space == client[c].vector IN
        IF Fits(space)
        THEN points' = [d \in Doc |-> space] /\ Goto(c, "up")
        ELSE UNCHANGED points /\ Goto(c, "failed")
    /\ UNCHANGED <<deployment, collection, run>>

-----------------------------------------------------------------------------
(* The retrieve node of a run.                                             *)

\* A worker that serves begins a run of the request.
RunBegin(r) ==
    /\ run[r].pc = "new"
    /\ \E s \in Server : client[s].pc = "up"
    /\ run' = [run EXCEPT ![r].pc = "embed", ![r].tries = 1, ![r].runs = @ + 1]
    /\ UNCHANGED <<deployment, store, client>>

\* A permanent error is not retried by anyone: the request has failed.
Fails(r, cause) ==
    run' = [run EXCEPT ![r].pc = "failed", ![r].vector = "none", ![r].cause = cause]

RunEmbed(r) ==
    /\ run[r].pc = "embed"
    /\ \/ \E space \in Embeddings :
            run' = [run EXCEPT ![r].pc = "search", ![r].vector = space]
       \/ Refusable /\ Fails(r, "refused")
    /\ UNCHANGED <<deployment, store, client>>

\* The search is answered from the points of the collection, or refused when
\* there is none or the vector is of another size.
RunSearch(r) ==
    /\ run[r].pc = "search"
    /\ IF collection = 0 THEN Fails(r, "absent")
       ELSE IF ~Fits(run[r].vector) THEN Fails(r, "size")
       ELSE run' = [run EXCEPT ![r].pc = "found",
                               ![r].hits = {d \in Doc : points[d] # "none"}]
    /\ UNCHANGED <<deployment, store, client>>

\* Mutant: one try more than the setting allows.
RunSearchFailsLate(r) ==
    /\ "qdrant" \in Faults
    /\ run[r].pc = "search"
    /\ IF run[r].tries <= MaxAttempts
       THEN run' = [run EXCEPT ![r].pc = "embed", ![r].vector = "none",
                               ![r].tries = @ + 1]
       ELSE Fails(r, "exhausted")
    /\ UNCHANGED <<deployment, store, client>>

\* A search that fails transiently: retry_async calls it again, embedding
\* included; then the request is queued for another run; then it has failed.
RunSearchFails(r) ==
    /\ "qdrant" \in Faults
    /\ run[r].pc = "search"
    /\ IF run[r].tries < MaxAttempts
       THEN run' = [run EXCEPT ![r].pc = "embed", ![r].vector = "none",
                               ![r].tries = @ + 1]
       ELSE IF run[r].runs < MaxAttempts
       THEN run' = [run EXCEPT ![r].pc = "new", ![r].vector = "none", ![r].tries = 0]
       ELSE Fails(r, "exhausted")
    /\ UNCHANGED <<deployment, store, client>>

-----------------------------------------------------------------------------
(* Faults of the clients' calls.                                           *)

\* A call of ensure_ready or upsert that fails, undone or with its answer lost.
ClientCallFails(c) ==
    /\ "qdrant" \in Faults
    /\ client[c].pc \in {"check", "create", "upsert"}
    /\ \/ UNCHANGED store
       \/ /\ client[c].pc = "create"
          /\ collection = 0
          /\ collection' = deployment.size
          /\ UNCHANGED points
       \/ /\ client[c].pc = "upsert"
          /\ Fits(client[c].vector)
          /\ points' = [d \in Doc |-> client[c].vector]
          /\ UNCHANGED collection
    /\ Goto(c, NotProvisioned(c))
    /\ UNCHANGED <<deployment, run>>

Crash(c) ==
    /\ "crash" \in Faults
    /\ client[c].pc \notin {"off", "failed"}
    /\ c \in Server \/ client[c].pc # "up"
    /\ Goto(c, "off")
    /\ UNCHANGED <<deployment, store, run>>

Next ==
    \/ \E c \in Client :
        \/ Start(c) \/ CheckExists(c) \/ Create(c) \/ SeedEmbed(c) \/ SeedUpsert(c)
        \/ ClientCallFails(c) \/ Crash(c)
    \/ \E r \in Request :
        RunBegin(r) \/ RunEmbed(r) \/ RunSearch(r) \/ RunSearchFails(r)

Spec == Init /\ [][Next]_vars

-----------------------------------------------------------------------------
(* Properties.                                                             *)

(***************************************************************************)
(* The store is never emptied by processes that start at the same time, or *)
(* again after a crash: what a seeder wrote stays.  (ensure_ready asks,    *)
(* creates and is refused, it never recreates)                             *)
(***************************************************************************)
PointsStay ==
    [][/\ collection # 0 => collection' = collection
       /\ \A d \in Doc : points[d] # "none" => points'[d] # "none"]_vars

(***************************************************************************)
(* Stored documents and the queries that were answered from them come from *)
(* one space, through failovers of single calls in any order: a score      *)
(* never compares vectors of two models.  (failover.py:49-58: every call   *)
(* chooses its own link; the size of the collection keeps them apart)      *)
(***************************************************************************)
Compared == {points[d] : d \in Doc} \cup {run[r].vector : r \in {q \in Request : run[q].pc = "found"}}
NoMixedSpaces == Cardinality(Compared \ {"none"}) <= 1

(***************************************************************************)
(* After a seed script has reported success every search that is answered  *)
(* sees the whole corpus, whoever else starts, fails or is seeding.        *)
(* (seed_knowledge.py: the report follows ensure_ready and upsert)         *)
(***************************************************************************)
SeededIsFound ==
    [][\A r \in Request :
        /\ \E c \in Seeder : client[c].pc = "up"
        /\ run[r].pc = "search"
        /\ run'[r].pc = "found"
        => run'[r].hits = Doc]_vars

(***************************************************************************)
(* deps.py:88-89: "when the paid provider has a bad moment, degrade to the *)
(* free sandbox model rather than failing the run": a run does not fail    *)
(* because the chain went on to another link.                              *)
(***************************************************************************)
FailoverKeepsRuns == \A r \in Request : run[r].cause # "size"
=============================================================================
