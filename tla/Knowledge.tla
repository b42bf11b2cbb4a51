------------------------------- MODULE Knowledge -------------------------------
(***************************************************************************)
(* The knowledge graph pipeline (knowledge/tasks.py and what it calls):    *)
(* an upload ingests its documents, cuts them into chunks, extracts        *)
(* entities and relations from each chunk through the gateway unless the   *)
(* cache already has the extraction, and materializes a graph.             *)
(*                                                                         *)
(* An upload runs in one request, and a request in one transaction         *)
(* (ATOMIC_REQUESTS): the others see its rows once it is over.  Until then *)
(* whoever writes a row with the same unique key, or updates the same row, *)
(* waits; uploads that wait for each other are a deadlock, which the       *)
(* database ends by failing one of them.  An exception that               *)
(* extract_and_generate catches commits what was written before it; one    *)
(* that has broken the transaction makes its handler fail as well, and the *)
(* request is rolled back.                                                 *)
(*                                                                         *)
(* Data: a document is its content hash; a chunk is its index; what the    *)
(* model finds in a chunk is one of a few sets of mentions [entity, sense] *)
(* (two mentions are similar enough to be merged when the sense agrees)    *)
(* and of relations between entities.  Each upload has a user of its own.  *)
(*                                                                         *)
(* Variants: see Gateway.                                                  *)
(***************************************************************************)
EXTENDS Gateway, SequencesExt

CONSTANTS
    Uploads,       \* uploads, each for a simulation of its own
    DocsOf,        \* the documents of each upload, in its order
    ChunkCount,    \* chunks of each document
    Found,         \* what an answer may say of a chunk: sets by <<document, index>>
    Ontology,      \* the entities whose type the ontology knows
    NoOne, Kept,   \* of a row that is not there, and of one that is committed
    Earlier,       \* how far an earlier upload of all documents may have come
    Others,        \* callers of the gateway outside the pipeline
    MaxAborts,     \* bound: uploads that end with an unexpected exception
    MaxAsks,       \* bound: completions of each other caller
    Apart          \* bound: the others ask only while no upload is under way

Docs == DOMAIN ChunkCount

ASSUME KnowledgeAssumption ==
    /\ Uploads \cup Others = Callers /\ Uploads \cap Others = {} /\ IsFiniteSet(Callers)
    /\ Docs \subseteq Nat /\ IsFiniteSet(Docs) /\ \A d \in Docs : ChunkCount[d] \in Nat \ {0}
    /\ \A u \in Uploads : DocsOf[u] \in Seq(Docs) /\ Len(DocsOf[u]) > 0
    /\ \A d \in Docs : \A i \in 1 .. ChunkCount[d] : <<d, i>> \in DOMAIN Found
    /\ \A x \in DOMAIN Found : \A f \in Found[x] :
        f = [mentions |-> f.mentions, relations |-> f.relations]
    /\ NoOne \notin Uploads /\ Kept \notin Uploads /\ NoOne # Kept
    /\ Earlier \subseteq {"nothing", "documents", "chunks", "extraction"}
    /\ MaxAborts \in Nat /\ MaxAsks \in Nat /\ Apart \in BOOLEAN

VARIABLES
    job,       \* where each upload is, and what it has read
    documents, \* KnowledgeDocument rows: whose they are
    access,    \* KnowledgeDocumentAccess rows
    chunked,   \* whose the KnowledgeChunk rows of each document are
    cache,     \* ExtractionCache rows by key
    graph,     \* the KnowledgeGraph of each upload's simulation
    doomed,    \* the cache rows that the cleanup has chosen
    swept,     \* history: the cleanup has deleted a row
    asks,      \* history: completions of the others
    aborts     \* history: unexpected exceptions

rows == <<documents, access, chunked, cache, graph>>
cleanup == <<doomed, swept>>
knowledgeVars == <<job, rows, cleanup, asks, aborts>>
vars == <<gatewayVars, knowledgeVars>>

Steps == {"start", "ingest", "chunk", "split", "check", "hit", "extract", "persist",
          "graph", "report", "done", "failed"}
Over(u) == job[u].step \in {"done", "failed"}

\* A row is not there (NoOne), written by an upload that goes on, or committed.
Owners == Uploads \cup {NoOne, Kept}
\* What an upload sees.
Sees(u, owner) == owner \in {u, Kept}

\* compute_cache_key: the order of the documents does not count, a document
\* uploaded twice does.
Key(u) == SortSeq(DocsOf[u], LAMBDA x, y : x < y)
CacheKeys == {Key(u) : u \in Uploads}

\* What a chunk or an extraction amounts to.
Nothing == [mentions |-> {}, relations |-> {}]
Findings == {Nothing} \cup UNION {Found[x] : x \in DOMAIN Found}
Extraction == [mentions : SUBSET UNION {f.mentions : f \in Findings},
               relations : SUBSET UNION {f.relations : f \in Findings}]
Both(f, g) == [mentions |-> f.mentions \cup g.mentions, relations |-> f.relations \cup g.relations]

\* doc: the position of the document it is at; todo: chunks it has still to
\* extract from; data: what it has extracted, or read in the cache; hits:
\* hit_count as it has read it.
NewJob == [step |-> "start", doc |-> 1, todo |-> << >>, data |-> Nothing, hits |-> 0]
\* hitBy: the upload that has counted a hit, and keeps the row locked.
NoEntry == [by |-> NoOne, hitBy |-> NoOne, data |-> Nothing, hits |-> 0, old |-> FALSE]
NoGraph == [status |-> "none", data |-> Nothing]

\* An earlier upload of the same documents may have failed on its way, or its
\* simulation may be gone: its rows are there, its extraction found nothing
\* and is a month old.
Init ==
    /\ GatewayInit
    /\ job = [u \in Uploads |-> NewJob]
    /\ \E far \in Earlier :
        /\ documents = [d \in Docs |-> IF far = "nothing" THEN NoOne ELSE Kept]
        /\ chunked = [d \in Docs |-> IF far \in {"chunks", "extraction"} THEN Kept ELSE NoOne]
        /\ cache = [k \in CacheKeys |->
            IF far = "extraction" THEN [NoEntry EXCEPT !.by = Kept, !.old = TRUE] ELSE NoEntry]
    /\ access = {} /\ graph = [u \in Uploads |-> NoGraph]
    /\ doomed = {} /\ swept = FALSE
    /\ asks = [c \in Others |-> 0] /\ aborts = 0

-----------------------------------------------------------------------------
(* The end of an upload's transaction.                                       *)

At(u, step) == job[u].step = step
Goto(u, step) == job' = [job EXCEPT ![u].step = step]
Doc(u) == DocsOf[u][job[u].doc]
\* On to the next document, or to the next part of the pipeline.
NextDoc(u, here, next) ==
    job' = [job EXCEPT ![u] =
        IF job[u].doc < Len(DocsOf[u]) THEN [job[u] EXCEPT !.step = here, !.doc = job[u].doc + 1]
        ELSE [job[u] EXCEPT !.step = next, !.doc = 1]]

\* The upload another one waits for: the one that writes the same row.
Blocker(u) ==
    LET owner == CASE At(u, "ingest") -> documents[Doc(u)]
                   [] At(u, "split") -> chunked[Doc(u)]
                   [] At(u, "hit") -> cache[Key(u)].hitBy
                   [] At(u, "persist") -> cache[Key(u)].by
                   [] OTHER -> NoOne
    IN IF owner \in Uploads \ {u} THEN owner ELSE NoOne
Ready(u, step) == At(u, step) /\ Blocker(u) = NoOne

\* The rows of u are kept, or as if it had never written them.
Settled(u, owner, keep) == IF owner # u THEN owner ELSE IF keep THEN Kept ELSE NoOne
Settle(u, keep) ==
    /\ documents' = [d \in Docs |-> Settled(u, documents[d], keep)]
    /\ chunked' = [d \in Docs |-> Settled(u, chunked[d], keep)]
    /\ access' = {a \in access : keep \/ a[1] # u}
    /\ cache' = [k \in CacheKeys |->
        IF cache[k].by = u THEN (IF keep THEN [cache[k] EXCEPT !.by = Kept] ELSE NoEntry)
        ELSE IF cache[k].hitBy = u
             THEN [cache[k] EXCEPT !.hitBy = NoOne, !.hits = IF keep THEN job[u].hits + 1 ELSE @]
             ELSE cache[k]]

\* An exception reaches extract_and_generate: it marks the graph of the
\* simulation, which is there when the pipeline is all but through, and what
\* was written is committed with the answer.
Fail(u) ==
    /\ Goto(u, "failed") /\ Settle(u, TRUE)
    /\ graph' = [graph EXCEPT ![u].status = IF @ = "none" THEN "none" ELSE "failed"]

\* The exception has broken the transaction: the handler cannot query, the
\* request fails.
RollBack(u) ==
    /\ Goto(u, "failed") /\ Settle(u, FALSE)
    /\ graph' = [graph EXCEPT ![u] = NoGraph]

-----------------------------------------------------------------------------
(* Ingestion and chunks.                                                     *)

Start(u) ==
    /\ At(u, "start") /\ Goto(u, "ingest")
    /\ Apart => \A c \in Others : call[c].state = "idle"
    /\ UNCHANGED <<rows, cleanup, asks, aborts, gatewayVars>>

\* Whoever comes second finds the row of the first, or writes it when the
\* first was rolled back.
IngestDocument(u) ==
    /\ Ready(u, "ingest") /\ NextDoc(u, "ingest", "chunk")
    /\ documents' = [documents EXCEPT ![Doc(u)] = IF Sees(u, @) THEN @ ELSE u]
    /\ access' = access \cup {<<u, Doc(u)>>}
    /\ UNCHANGED <<chunked, cache, graph, cleanup, asks, aborts, gatewayVars>>

\* A document that has a chunk is taken to have them all.
Chunk(u) ==
    /\ At(u, "chunk")
    /\ IF Sees(u, chunked[Doc(u)]) THEN NextDoc(u, "chunk", "check") ELSE Goto(u, "split")
    /\ UNCHANGED <<rows, cleanup, asks, aborts, gatewayVars>>

\* Document and index are unique together; the first index decides.
CreateChunks(u) ==
    /\ Ready(u, "split")
    /\ \/ chunked[Doc(u)] = Kept /\ RollBack(u)
       \/ /\ chunked[Doc(u)] # Kept /\ NextDoc(u, "chunk", "check")
          /\ chunked' = [chunked EXCEPT ![Doc(u)] = u]
          /\ UNCHANGED <<documents, access, cache, graph>>
    /\ UNCHANGED <<cleanup, asks, aborts, gatewayVars>>

-----------------------------------------------------------------------------
(* The cache and the extraction.                                             *)

\* The chunks of its documents, in the order of document and index: each at
\* the place that the number of those up to it gives.
ChunksOf(u) == UNION {{d} \X (1 .. ChunkCount[d]) : d \in ToSet(DocsOf[u])}
UpTo(u, x) == {y \in ChunksOf(u) : y[1] < x[1] \/ (y[1] = x[1] /\ y[2] <= x[2])}
ChunkList(u) ==
    [i \in 1 .. Cardinality(ChunksOf(u)) |->
        CHOOSE x \in ChunksOf(u) : Cardinality(UpTo(u, x)) = i]

CheckCache(u) ==
    /\ At(u, "check")
    /\ LET entry == cache[Key(u)] IN
        job' = [job EXCEPT ![u] =
            IF Sees(u, entry.by)
            THEN [job[u] EXCEPT !.step = "hit", !.data = entry.data, !.hits = entry.hits]
            ELSE [job[u] EXCEPT !.step = "extract", !.todo = ChunkList(u)]]
    /\ UNCHANGED <<rows, cleanup, asks, aborts, gatewayVars>>

\* The count as it was read, plus one, to whatever row has the key by now; a
\* row that is gone cannot be saved.
SaveHit(u) ==
    /\ Ready(u, "hit")
    /\ \/ ~Sees(u, cache[Key(u)].by) /\ RollBack(u)
       \/ /\ Sees(u, cache[Key(u)].by) /\ Goto(u, "graph")
          /\ cache' = [cache EXCEPT ![Key(u)].hitBy = u]
          /\ UNCHANGED <<documents, access, chunked, graph>>
    /\ UNCHANGED <<cleanup, asks, aborts, gatewayVars>>

AskModel(u) ==
    /\ At(u, "extract") /\ Ask(u)
    /\ UNCHANGED knowledgeVars

\* Variant: a chunk that got no answer is kept for another attempt.
KeptForAnother(u) == IF call[u].state = "raised" THEN job[u].todo ELSE Tail(job[u].todo)
\* The chunks that are left once this one is through.
Rest(u) == Tail(job[u].todo)

\* Entities of another type are set aside; relations are not, whatever their ends.
Validated(f) == [f EXCEPT !.mentions = {m \in @ : m[1] \in Ontology}]

\* No answer and an answer that is not JSON count as a chunk without findings.
ExtractFromChunk(u) ==
    /\ At(u, "extract") /\ call[u].state \in {"answered", "raised"} /\ Done(u)
    /\ \E f \in {Nothing} \cup IF call[u].state = "answered" THEN Found[Head(job[u].todo)] ELSE {} :
        job' = [job EXCEPT ![u].todo = Rest(u), ![u].data = Both(@, Validated(f)),
                           ![u].step = IF Rest(u) = << >> THEN "persist" ELSE @]
    /\ UNCHANGED <<rows, cleanup, asks, aborts>>

\* Variant: the extraction that comes last is kept.
Replaced(u) == FALSE
\* The row of an upload that was quicker is in the way.
EntryInTheWay(u) == cache[Key(u)].by = Kept

PersistCache(u) ==
    /\ Ready(u, "persist")
    /\ \/ EntryInTheWay(u) /\ RollBack(u)
       \/ /\ ~EntryInTheWay(u) /\ Goto(u, "graph")
          /\ cache' = [cache EXCEPT ![Key(u)] = [NoEntry EXCEPT !.by = u, !.data = job[u].data]]
          /\ UNCHANGED <<documents, access, chunked, graph>>
    /\ UNCHANGED <<cleanup, asks, aborts, gatewayVars>>

-----------------------------------------------------------------------------
(* The graph, behind a savepoint of its own.                                 *)

Entities(data) == {m[1] : m \in data.mentions}
\* Mentions of one entity that were not alike enough to be merged come out as
\* two nodes, which the unique constraint of a graph does not allow.
Ambiguous(data) == Cardinality(Entities(data)) # Cardinality(data.mentions)
\* Relations with an unknown end are dropped.
Resolved(data) == {r \in data.relations : r[1] \in Entities(data) /\ r[2] \in Entities(data)}

MaterializeGraph(u) ==
    /\ At(u, "graph")
    /\ \/ Ambiguous(job[u].data) /\ Fail(u)
       \/ /\ ~Ambiguous(job[u].data) /\ Goto(u, "report")
          /\ graph' = [graph EXCEPT ![u] =
                [status |-> "ready",
                 data |-> [mentions |-> job[u].data.mentions, relations |-> Resolved(job[u].data)]]]
          /\ UNCHANGED <<documents, access, chunked, cache>>
    /\ UNCHANGED <<cleanup, asks, aborts, gatewayVars>>

\* What the explorer and its API show: a ready graph, nodes and the edges between them.
Shown(u) == IF graph[u].status = "ready" THEN graph[u].data ELSE Nothing

\* The answer is made, the request's transaction commits.
Report(u) ==
    /\ At(u, "report") /\ Goto(u, "done") /\ Settle(u, TRUE)
    /\ UNCHANGED <<graph, cleanup, asks, aborts, gatewayVars>>

\* Anything else that raises: a document that is too long, the embedding, the
\* answer's shape; the database itself.
Abort(u) ==
    /\ ~At(u, "start") /\ ~Over(u) /\ call[u].state = "idle" /\ aborts < MaxAborts
    /\ (Blocker(u) = NoOne /\ Fail(u)) \/ RollBack(u)
    /\ aborts' = aborts + 1
    /\ UNCHANGED <<cleanup, asks, gatewayVars>>

\* Uploads that wait for each other in a circle: the database fails one of
\* them.  A document is created behind a savepoint, the other rows are not.
Deadlock(u) ==
    /\ \E circle \in SUBSET Uploads : u \in circle /\ {Blocker(v) : v \in circle} = circle
    /\ \/ At(u, "ingest") /\ Fail(u)
       \/ ~At(u, "ingest") /\ RollBack(u)
    /\ UNCHANGED <<cleanup, asks, aborts, gatewayVars>>

-----------------------------------------------------------------------------
(* cleanup_extraction_cache, and the others.                                 *)

\* A month goes by; no upload takes that long.
Age(k) ==
    /\ cache[k].by = Kept /\ ~cache[k].old
    /\ \A u \in Uploads : At(u, "start") \/ Over(u)
    /\ cache' = [cache EXCEPT ![k].old = TRUE]
    /\ UNCHANGED <<job, documents, access, chunked, graph, cleanup, asks, aborts, gatewayVars>>

Referenced(k) == \E u \in Uploads : Key(u) = k /\ Over(u) /\ graph[u].status # "none"

\* The rows are chosen by one query and deleted by another.
ChooseCandidates ==
    /\ doomed = {}
    /\ doomed' = {k \in CacheKeys : /\ cache[k].by = Kept /\ cache[k].old /\ cache[k].hits = 0
                                    /\ ~Referenced(k)}
    /\ doomed' # {}
    /\ UNCHANGED <<job, rows, swept, asks, aborts, gatewayVars>>

\* The second waits for whoever has a row locked; nothing is deleted when a
\* graph refers to one of them by now.
DeleteCandidates ==
    /\ doomed # {} /\ \A k \in doomed : cache[k].hitBy = NoOne
    /\ doomed' = {}
    /\ LET gone == IF \E k \in doomed : Referenced(k) THEN {} ELSE doomed IN
        /\ cache' = [k \in CacheKeys |-> IF k \in gone THEN NoEntry ELSE cache[k]]
        /\ swept' = (swept \/ gone # {})
    /\ UNCHANGED <<job, documents, access, chunked, graph, asks, aborts, gatewayVars>>

\* Whoever else asks: a turn, the chat with its fallback; the group chat asks
\* for one agent after the other with the same client.
AskOther(c) ==
    /\ asks[c] < MaxAsks
    /\ Apart => \A u \in Uploads : At(u, "start") \/ Over(u)
    /\ Ask(c) \/ (asks[c] > 0 /\ AskAgain(c))
    /\ asks' = [asks EXCEPT ![c] = @ + 1]
    /\ UNCHANGED <<job, rows, cleanup, aborts>>
CollectOther(c) ==
    call[c].state \in {"answered", "raised"} /\ Done(c) /\ UNCHANGED knowledgeVars

UploadStep(u) ==
    \/ IngestDocument(u) \/ Chunk(u) \/ CreateChunks(u)
    \/ CheckCache(u) \/ SaveHit(u)
    \/ AskModel(u) \/ ExtractFromChunk(u) \/ PersistCache(u)
    \/ MaterializeGraph(u) \/ Report(u)
Asked(c) == GatewayStep(c) /\ UNCHANGED knowledgeVars

Next ==
    \/ \E u \in Uploads : Start(u) \/ UploadStep(u) \/ Abort(u) \/ Deadlock(u)
    \/ \E c \in Callers : Asked(c)
    \/ \E c \in Others : AskOther(c) \/ CollectOther(c)
    \/ ChooseCandidates \/ DeleteCandidates
    \/ \E k \in CacheKeys : Age(k)

\* A request that has begun goes on unless it waits for another, the API answers
\* or refuses, and the database looks for deadlocks.
Fairness ==
    /\ \A u \in Uploads : WF_vars(UploadStep(u)) /\ WF_vars(Deadlock(u))
    /\ \A c \in Callers : WF_vars(Asked(c))

Spec == Init /\ [][Next]_vars /\ Fairness

-----------------------------------------------------------------------------

TypeOK ==
    /\ GatewayTypeOK
    /\ \A u \in Uploads :
        /\ job[u].step \in Steps /\ job[u].doc \in DOMAIN DocsOf[u] /\ job[u].data \in Extraction
        /\ job[u].todo \in Seq(DOMAIN Found) /\ job[u].hits \in 0 .. Cardinality(Uploads)
        /\ graph[u].status \in {"none", "ready", "failed"} /\ graph[u].data \in Extraction
    /\ access \subseteq Uploads \X Docs
    /\ \A a \in access : Sees(a[1], documents[a[2]])
    /\ \A d \in Docs : documents[d] \in Owners /\ chunked[d] \in Owners
    /\ \A k \in CacheKeys :
        /\ cache[k].by \in Owners /\ cache[k].hitBy \in Uploads \cup {NoOne}
        /\ cache[k].data \in Extraction /\ cache[k].hits \in 0 .. Cardinality(Uploads)
    /\ doomed \subseteq CacheKeys

\* A graph refers to a cache row that is there, for good: the cleanup leaves it
\* alone and a rolled back upload takes none away.  And what is shown agrees
\* with that extraction, so that uploads of the same documents share one,
\* whatever their order and whoever was first, and no edge lacks an end; unless
\* the cleanup has deleted a row, for a hit may then have been counted on
\* another row than was read.
GraphsRestOnCache ==
    \A u \in Uploads :
        /\ graph[u].status # "none" => Sees(u, cache[Key(u)].by)
        /\ graph[u].status = "ready" /\ ~swept =>
            /\ Shown(u).mentions = cache[Key(u)].data.mentions
            /\ Shown(u).relations = Resolved(cache[Key(u)].data)

\* An upload that has begun ends, with a graph or with a failure, whoever it
\* waits for and whoever waits for it.
UploadsEnd == \A u \in Uploads : At(u, "ingest") ~> Over(u)

=============================================================================
