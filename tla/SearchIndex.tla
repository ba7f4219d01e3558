----------------------------- MODULE SearchIndex -----------------------------
(* The two indexes the query engine searches, the points in Qdrant and the  *)
(* BM25 keys in Redis, and those who change them: the second half of        *)
(* ingest_document, the task delete_document_vectors (both in               *)
(* ingestion-worker/tasks.py), Redis, which evicts keys when it is full,    *)
(* and, so it looks, DELETE /{document_id} of the gateway.  Documents are   *)
(* versions of one file or files of one name in several departments.        *)
(*                                                                          *)
(* A step is one call to a store.  The passages of a document are one       *)
(* batch; what happens between batches is in IngestionPipeline.             *)
(*                                                                          *)
(* Definitions marked "Mutant" are not part of the model: each is a wrong   *)
(* form of the definition after it that one of the properties rejects.      *)
EXTENDS Naturals, FiniteSets

CONSTANTS
    Docs,
    NoDoc,          \* the document of the task before there is a task
    NumPassages,    \* passages of a document
    MaxCopies,      \* bound: runs of ingest_document for a document
    ScrollLimit,    \* 1000
    MaxEvents,      \* bound: ingestions, deletions and evictions that start
    Faults          \* subset of {"qdrant", "redis", "ollama"}

ASSUME IndexAssumption ==
    /\ IsFiniteSet(Docs)
    /\ NoDoc \notin Docs
    /\ NumPassages \in Nat \ {0}
    /\ MaxCopies \in Nat \ {0}
    /\ {ScrollLimit, MaxEvents} \subseteq Nat
    /\ Faults \subseteq {"qdrant", "redis", "ollama"}

VARIABLES
    points,         \* points of the collection "documents"
    keys,           \* the BM25 keys <<"tokens" or "chunks", document>> in Redis
    hidden,         \* documents whose DELETE was answered
    writer,         \* writer[d]: the step of the run that ingests d
    task,           \* the delete_document_vectors task
    events          \* ingestions, deletions and evictions so far

indexVars == <<points, keys, hidden, writer, task, events>>

Passages == 1..NumPassages
Point == [doc : Docs, n : Passages, copy : 1..MaxCopies]
Keys == {"tokens", "chunks"} \X Docs

PointsOf(d) == {p \in points : p.doc = d}

\* found, deleted and raised: what the scroll returned, what the task returns,
\* and whether Redis raised; alone: no run ingested the document meanwhile.
Task == [pc : {"none", "scroll", "delete", "tokens", "chunks", "done"},
         doc : Docs \cup {NoDoc}, found : SUBSET Point, deleted : BOOLEAN, raised : BOOLEAN,
         before : SUBSET Point, alone : BOOLEAN]

IndexTypeOK ==
    /\ points \subseteq Point
    /\ keys \subseteq Keys
    /\ hidden \subseteq Docs
    /\ writer \in [Docs -> {"idle", "upsert", "tokens", "chunks"}]
    /\ task \in Task
    /\ events \in 0..MaxEvents

Event == events < MaxEvents /\ events' = events + 1

NoTask == [pc |-> "none", doc |-> NoDoc, found |-> {},
           deleted |-> FALSE, raised |-> FALSE, before |-> {}, alone |-> TRUE]

\* Some documents have been ingested.
IndexInit ==
    /\ \E D \in SUBSET Docs :
         /\ points = [doc : D, n : Passages, copy : {1}]
         /\ keys = {"tokens", "chunks"} \X D
    /\ hidden = {}
    /\ writer = [d \in Docs |-> "idle"]
    /\ task = NoTask
    /\ events = 0

--------------------------------------------------------------------------
\* ingest_document, once the file is parsed

WriterAt(d, pc) == writer' = [writer EXCEPT ![d] = pc]

Unused(d) == {c \in 1..MaxCopies : \A p \in PointsOf(d) : p.copy # c}

\* Fresh ids: a run adds a copy of its own of every passage.
Batch(d) == [doc : {d}, n : Passages, copy : {CHOOSE c \in Unused(d) : TRUE}]

\* The file of a deleted document is gone.
StartIngestion(d) ==
    /\ d \notin hidden
    /\ writer[d] = "idle"
    /\ Unused(d) # {}
    /\ Event
    /\ WriterAt(d, "upsert")
    /\ task' = [task EXCEPT !.alone = @ /\ (task.pc \in {"none", "done"} \/ task.doc # d)]
    /\ UNCHANGED <<points, keys, hidden>>

UpsertPoints(d) ==
    /\ writer[d] = "upsert"
    /\ points' = points \cup Batch(d)
    /\ WriterAt(d, "tokens")
    /\ UNCHANGED <<keys, hidden, task, events>>

SetTokens(d) ==
    /\ writer[d] = "tokens"
    /\ keys' = keys \cup {<<"tokens", d>>}
    /\ WriterAt(d, "chunks")
    /\ UNCHANGED <<points, hidden, task, events>>

SetChunks(d) ==
    /\ writer[d] = "chunks"
    /\ keys' = keys \cup {<<"chunks", d>>}
    /\ WriterAt(d, "idle")
    /\ UNCHANGED <<points, hidden, task, events>>

\* A call raises or answers something else than 200, carried out or not: the run
\* ends here, or, if it was a BM25 key, goes on without the rest of them.
WriterFails(d) ==
    /\ \/ /\ "qdrant" \in Faults
          /\ writer[d] = "upsert"
          /\ points' \in {points, points \cup Batch(d)}
          /\ UNCHANGED keys
       \/ /\ "redis" \in Faults
          /\ writer[d] \in {"tokens", "chunks"}
          /\ keys' \in {keys, keys \cup {<<writer[d], d>>}}
          /\ UNCHANGED points
    /\ WriterAt(d, "idle")
    /\ UNCHANGED <<hidden, task, events>>

--------------------------------------------------------------------------
\* DELETE /{document_id}: the query engine, asked for DELETE /vectors/<id>, has
\* no such route, and its 404 is not looked at.

HideDocument(d) ==
    /\ d \notin hidden
    /\ hidden' = hidden \cup {d}
    /\ UNCHANGED <<points, keys, writer, task, events>>

--------------------------------------------------------------------------
\* delete_document_vectors.  Nothing in the repository sends this task; an
\* operator can, for a document that is off the list.

SendDeletion(d) ==
    /\ d \in hidden
    /\ task.pc \in {"none", "done"}
    /\ Event
    /\ task' = [NoTask EXCEPT !.pc = "scroll", !.doc = d, !.alone = writer[d] = "idle"]
    /\ UNCHANGED <<points, keys, hidden, writer>>

\* One page of at most ScrollLimit points, whatever is behind it.
Scroll ==
    /\ task.pc = "scroll"
    /\ \/ \E found \in SUBSET PointsOf(task.doc) :
            /\ \/ Cardinality(found) = ScrollLimit
               \/ Cardinality(found) < ScrollLimit /\ found = PointsOf(task.doc)
            /\ task' = [task EXCEPT
                 !.pc = IF found = {} THEN "tokens" ELSE "delete",
                 !.deleted = found = {},
                 !.found = found,
                 !.before = PointsOf(task.doc)]
       \/ "qdrant" \in Faults /\ task' = [task EXCEPT !.pc = "tokens"]
    /\ UNCHANGED <<points, keys, hidden, writer, events>>

\* Mutant: the answer of the second call is not looked at.
DeletePoints_Unchecked ==
    /\ task.pc = "delete"
    /\ \/ points' = points \ task.found
       \/ "qdrant" \in Faults /\ UNCHANGED points
    /\ task' = [task EXCEPT !.pc = "tokens", !.deleted = TRUE]
    /\ UNCHANGED <<keys, hidden, writer, events>>

\* A call without an answer of 200 may still have been carried out.
DeletePoints ==
    /\ task.pc = "delete"
    /\ \/ /\ points' = points \ task.found
          /\ task' = [task EXCEPT !.pc = "tokens", !.deleted = TRUE]
       \/ /\ "qdrant" \in Faults
          /\ points' \in {points, points \ task.found}
          /\ task' = [task EXCEPT !.pc = "tokens"]
    /\ UNCHANGED <<keys, hidden, writer, events>>

DeleteKey(key, next) ==
    /\ task.pc = key
    /\ \/ /\ keys' = keys \ {<<key, task.doc>>}
          /\ task' = [task EXCEPT !.pc = next]
       \/ /\ "redis" \in Faults
          /\ task' = [task EXCEPT !.pc = "done", !.raised = TRUE]
          /\ keys' \in {keys, keys \ {<<key, task.doc>>}}
    /\ UNCHANGED <<points, hidden, writer, events>>

DeletionStep ==
    \/ Scroll
    \/ DeletePoints
    \/ DeleteKey("tokens", "chunks")
    \/ DeleteKey("chunks", "done")

--------------------------------------------------------------------------
\* Redis at its limit (allkeys-lru)

Evict ==
    /\ Event
    /\ \E k \in keys : keys' = keys \ {k}
    /\ UNCHANGED <<points, hidden, writer, task>>

IndexStep ==
    \/ \E d \in Docs :
         \/ StartIngestion(d)
         \/ UpsertPoints(d)
         \/ SetTokens(d)
         \/ SetChunks(d)
         \/ WriterFails(d)
         \/ HideDocument(d)
         \/ SendDeletion(d)
    \/ DeletionStep
    \/ Evict

--------------------------------------------------------------------------
\* Properties

\* A deletion that returns deleted = TRUE, of a document whose points fit on the
\* one page it scrolls and that no ingestion overlapped, has removed all its points,
\* and the keyword index unless Redis raised, whatever else was ingested, evicted or
\* failed meanwhile (tasks.py:128-162, 405-431).
DeletionIsComplete ==
    /\ task.pc = "done" /\ task.deleted /\ task.alone
    /\ Cardinality(task.before) <= ScrollLimit
    =>
    /\ PointsOf(task.doc) = {}
    /\ task.raised \/ {<<"tokens", task.doc>>, <<"chunks", task.doc>>} \cap keys = {}
=============================================================================
