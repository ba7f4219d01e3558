-------------------------- MODULE IngestionPipeline --------------------------
(* How an uploaded document becomes searchable: the tail of POST /ingest in *)
(* the API gateway (api-gateway/routers/documents.py), the Celery queue     *)
(* "ingestion" in Redis, and the task ingest_document of the ingestion      *)
(* worker (ingestion-worker/tasks.py), with the stores they write: the      *)
(* documents table, Qdrant, the BM25 keys in Redis and the MinIO bucket.    *)
(*                                                                          *)
(* A step is one call to a store or to the broker.  What goes wrong is      *)
(* chosen from Faults, so an instance says which parts of the deployment    *)
(* may fail; nothing else about timing is assumed.  The broker is what the  *)
(* code configures Celery to be: late acknowledgement (tasks.py:37), so a   *)
(* container that dies has its messages delivered again, and time limits    *)
(* (39-40), whose hard one kills the run and acknowledges the message.      *)
(* The delay before a retry and the prefetched messages are not             *)
(* distinguished from waiting in the queue.                                 *)
(*                                                                          *)
(* Definitions marked "Mutant" are not part of the model: each is a wrong   *)
(* form of the definition after it that one of the properties rejects.      *)
EXTENDS Naturals, FiniteSets

CONSTANTS
    Docs,           \* rows of the documents table, one for each upload
    Workers,        \* worker processes (--concurrency=2)
    NumBatches,     \* upsert batches of a document (100 points each)
    MaxRetries,     \* tasks.py:67
    NoDoc,          \* the document of an idle worker
    Faults,         \* what may fail in this instance
    MaxCrashes      \* bound: crashes of the worker container

FaultKinds ==
    {"disk",        \* the gateway cannot write the file
     "gateway",     \* the gateway process dies during a request
     "broker",      \* publishing a message raises
     "database",    \* a statement raises, before or after it took effect
     "embedding",   \* Ollama does not embed some chunk
     "qdrant",      \* an upsert answers something other than 200
     "redis",       \* setting a BM25 key raises
     "minio",       \* the upload of the original fails
     "timelimit",   \* a run reaches the soft, then the hard time limit
     "evict",       \* Redis, full, evicts a BM25 key (docker-compose.yml:101)
     "crash"}       \* the worker container dies

\* What the history of a document may hold against it: that something cost it
\* real vectors, a key or its original, or broke its chain of attempts (the
\* gateway died, a statement raised, a retry was lost, a time limit struck).
Troubles == {"vectors", "tokens", "chunks", "original", "chain"}

ASSUME PipelineAssumption ==
    /\ IsFiniteSet(Workers)
    /\ NumBatches \in Nat \ {0}
    /\ MaxRetries \in Nat \ {0}
    /\ NoDoc \notin Docs
    /\ Faults \subseteq FaultKinds
    /\ MaxCrashes \in Nat

Batches == 1..NumBatches
Attempts == 0..MaxRetries

VARIABLES
    gateway,        \* gateway[d]: where the request that inserted d is
    readable,       \* readable[d]: parsing and chunking d yields chunks
    status,         \* documents.status, "none" before the INSERT
    retryCount,     \* documents.retry_count
    queue,          \* queue[d][k]: messages <d, retries = k> not delivered
    worker,         \* worker[w]: the run w executes
    points,         \* points[d][b]: copies of batch b of d in Qdrant
    embedded,       \* embedded[d]: batches with a copy free of zero vectors
    bm25,           \* bm25[d]: which of the two keys of d Redis holds
    minio,          \* minio[d]: the original is in the bucket
    alert,          \* alert[d]: level of the last alert about d
    runs,           \* runs[d]: runs of the task started for d (history)
    trouble,        \* trouble[d]: what went wrong for d (history)
    crashes         \* crashes of the worker container so far (history)

stores == <<points, embedded, bm25, minio>>
table == <<status, retryCount>>
vars == <<gateway, readable, status, retryCount, queue, worker, points,
          embedded, bm25, minio, alert, runs, trouble, crashes>>

GatewayPC == {"new", "save", "saveError", "send", "job", "sendError",
              "accepted", "refused", "gone"}

\* The steps of ingest_document, then those of its except clause.
Body == {"parse", "embed", "upsert", "tokens", "chunks", "minio", "mark"}
Handler == {"fail", "alert", "retry"}

RunPC == {"idle", "ack"} \cup Body \cup Handler

Run == [pc : RunPC,
        doc : Docs \cup {NoDoc},
        retries : Attempts,
        batch : 1..(NumBatches + 1),        \* next batch to upsert
        blank : SUBSET Batches,             \* batches with a zero vector
        soft : BOOLEAN]                     \* the soft limit has passed

Idle == [pc |-> "idle", doc |-> NoDoc, retries |-> 0, batch |-> 1,
         blank |-> {}, soft |-> FALSE]

TableTypeOK ==
    /\ status \in [Docs -> {"none", "queued", "failed", "indexed"}]
    /\ retryCount \in [Docs -> Nat]

WorkerTypeOK ==
    /\ worker \in [Workers -> Run]
    /\ \A w \in Workers : worker[w].pc # "idle" => worker[w].doc \in Docs

StoreTypeOK ==
    /\ points \in [Docs -> [Batches -> Nat]]
    /\ embedded \in [Docs -> SUBSET Batches]
    /\ bm25 \in [Docs -> SUBSET {"tokens", "chunks"}]
    /\ minio \in [Docs -> BOOLEAN]

TypeOK ==
    /\ gateway \in [Docs -> GatewayPC]
    /\ readable \in [Docs -> BOOLEAN]
    /\ TableTypeOK
    /\ queue \in [Docs -> [Attempts -> Nat]]
    /\ WorkerTypeOK
    /\ StoreTypeOK
    /\ alert \in [Docs -> {"none", "warning", "critical"}]
    /\ runs \in [Docs -> Nat]
    /\ trouble \in [Docs -> SUBSET Troubles]
    /\ crashes \in 0..MaxCrashes

Init ==
    /\ gateway = [d \in Docs |-> "new"]
    /\ readable \in [Docs -> BOOLEAN]
    /\ status = [d \in Docs |-> "none"]
    /\ retryCount = [d \in Docs |-> 0]
    /\ queue = [d \in Docs |-> [k \in Attempts |-> 0]]
    /\ worker = [w \in Workers |-> Idle]
    /\ points = [d \in Docs |-> [b \in Batches |-> 0]]
    /\ embedded = [d \in Docs |-> {}]
    /\ bm25 = [d \in Docs |-> {}]
    /\ minio = [d \in Docs |-> FALSE]
    /\ alert = [d \in Docs |-> "none"]
    /\ runs = [d \in Docs |-> 0]
    /\ trouble = [d \in Docs |-> {}]
    /\ crashes = 0

--------------------------------------------------------------------------
\* The gateway, from the INSERT on (documents.py:137-212)

Answer(d, pc) == gateway' = [gateway EXCEPT ![d] = pc]

Publish(d, k) == queue' = [queue EXCEPT ![d][k] = @ + 1]

Trouble(d, what) == trouble' = [trouble EXCEPT ![d] = @ \cup what]

\* Mutant: the row is inserted with a status the schema's readers do not know.
InsertRow_Processing(d) ==
    /\ gateway[d] = "new"
    /\ status' = [status EXCEPT ![d] = "processing"]
    /\ Answer(d, "save")
    /\ UNCHANGED <<readable, retryCount, queue, worker, stores, alert, runs, trouble, crashes>>

InsertRow(d) ==
    /\ gateway[d] = "new"
    /\ status' = [status EXCEPT ![d] = "queued"]
    /\ Answer(d, "save")
    /\ UNCHANGED <<readable, retryCount, queue, worker, stores, alert, runs, trouble, crashes>>

SaveFile(d) ==
    /\ gateway[d] = "save"
    /\ \/ Answer(d, "send")
       \/ "disk" \in Faults /\ Answer(d, "saveError")
    /\ UNCHANGED <<readable, table, queue, worker, stores, alert, runs, trouble, crashes>>

\* A publish that raises may still have reached the broker.
SendTask(d) ==
    /\ gateway[d] = "send"
    /\ \/ Publish(d, 0) /\ Answer(d, "job")
       \/ /\ "broker" \in Faults
          /\ Publish(d, 0) \/ UNCHANGED queue
          /\ Answer(d, "sendError")
    /\ UNCHANGED <<readable, table, worker, stores, alert, runs, trouble, crashes>>

\* Mutant: the status is set to queued only once the task was sent.
InsertJob_SetsQueued(d) ==
    /\ gateway[d] = "job"
    /\ status' = [status EXCEPT ![d] = "queued"]
    /\ Answer(d, "accepted")
    /\ UNCHANGED <<readable, retryCount, queue, worker, stores, alert, runs, trouble, crashes>>

\* The ingestion_jobs row is never read or updated: "accepted" implies it.
InsertJob(d) ==
    /\ gateway[d] = "job"
    /\ \/ Answer(d, "accepted")
       \/ "database" \in Faults /\ Answer(d, "sendError")
    /\ UNCHANGED <<readable, table, queue, worker, stores, alert, runs, trouble, crashes>>

\* Both except clauses set the status and answer 500; if the UPDATE raises,
\* the answer is a 500 as well.
ReportError(d) ==
    /\ gateway[d] \in {"saveError", "sendError"}
    /\ \/ status' = [status EXCEPT ![d] = "failed"] /\ UNCHANGED trouble
       \/ "database" \in Faults /\ UNCHANGED status /\ Trouble(d, {"chain"})
    /\ Answer(d, "refused")
    /\ UNCHANGED <<readable, retryCount, queue, worker, stores, alert, runs, crashes>>

GatewayDies(d) ==
    /\ "gateway" \in Faults
    /\ gateway[d] \in {"save", "saveError", "send", "job", "sendError"}
    /\ Answer(d, "gone")
    /\ Trouble(d, {"chain"})
    /\ UNCHANGED <<readable, table, queue, worker, stores, alert, runs, crashes>>

GatewayStep(d) ==
    \/ InsertRow(d)
    \/ SaveFile(d)
    \/ SendTask(d)
    \/ InsertJob(d)
    \/ ReportError(d)

--------------------------------------------------------------------------
\* The body of ingest_document (tasks.py:199-332)

Goto(w, pc) == worker' = [worker EXCEPT ![w].pc = pc]

\* A message stays unacknowledged in worker[w] until Acknowledge.
TakeMessage(w) ==
    /\ worker[w].pc = "idle"
    /\ \E d \in Docs, k \in Attempts :
         /\ queue[d][k] > 0
         /\ queue' = [queue EXCEPT ![d][k] = @ - 1]
         /\ worker' = [worker EXCEPT
              ![w] = [Idle EXCEPT !.pc = "parse", !.doc = d, !.retries = k]]
         /\ runs' = [runs EXCEPT ![d] = @ + 1]
    /\ UNCHANGED <<gateway, readable, table, stores, alert, trouble, crashes>>

\* Mutant: an unreadable file is waited for.
ParseAndChunk_Waits(w) ==
    /\ worker[w].pc = "parse"
    /\ readable[worker[w].doc]
    /\ Goto(w, "embed")
    /\ UNCHANGED <<gateway, readable, table, queue, stores, alert, runs, trouble, crashes>>

\* No sections or no chunks: ValueError.
ParseAndChunk(w) ==
    /\ worker[w].pc = "parse"
    /\ Goto(w, IF readable[worker[w].doc] THEN "embed" ELSE "fail")
    /\ UNCHANGED <<gateway, readable, table, queue, stores, alert, runs, trouble, crashes>>

Blanked(zero) == IF zero = {} THEN {} ELSE {"vectors"}

\* A chunk that cannot be embedded gets the zero vector.
Embed(w) ==
    /\ worker[w].pc = "embed"
    /\ \E zero \in IF "embedding" \in Faults THEN SUBSET Batches ELSE {{}} :
         /\ worker' = [worker EXCEPT ![w].pc = "upsert", ![w].blank = @ \cup zero]
         /\ Trouble(worker[w].doc, Blanked(zero))
    /\ UNCHANGED <<gateway, readable, table, queue, stores, alert, runs, crashes>>

\* Fresh uuid4 ids: a batch sent again is a second copy.
StoreBatch(d, b, zero) ==
    /\ points' = [points EXCEPT ![d][b] = @ + 1]
    /\ embedded' = [embedded EXCEPT ![d] = IF zero THEN @ ELSE @ \cup {b}]

\* Mutant: a failed batch is logged and skipped.
UpsertBatch_SkipsFailed(w) ==
    LET d == worker[w].doc
        b == worker[w].batch
    IN  /\ worker[w].pc = "upsert"
        /\ b \in Batches
        /\ \/ StoreBatch(d, b, b \in worker[w].blank)
           \/ "qdrant" \in Faults /\ UNCHANGED <<points, embedded>>
        /\ worker' = [worker EXCEPT
             ![w].batch = b + 1,
             ![w].pc = IF b = NumBatches THEN "tokens" ELSE "upsert"]
        /\ UNCHANGED <<gateway, readable, table, queue, bm25, minio, alert, runs, trouble, crashes>>

\* Mutant: an upsert whose answer is lost is sent again in place.
UpsertBatch_SentAgain(w) ==
    LET d == worker[w].doc
        b == worker[w].batch
    IN  /\ worker[w].pc = "upsert"
        /\ b \in Batches
        /\ StoreBatch(d, b, b \in worker[w].blank)
        /\ \/ worker' = [worker EXCEPT
                ![w].batch = b + 1,
                ![w].pc = IF b = NumBatches THEN "tokens" ELSE "upsert"]
           \/ "qdrant" \in Faults /\ points[d][b] <= runs[d] /\ UNCHANGED worker
        /\ UNCHANGED <<gateway, readable, table, queue, bm25, minio, alert, runs, trouble, crashes>>

\* One iteration of the loop over the batches, which the last one leaves.  An
\* upsert without an answer of 200 in time may still have been applied.
UpsertBatch(w) ==
    LET d == worker[w].doc
        b == worker[w].batch
    IN  /\ worker[w].pc = "upsert"
        /\ b \in Batches
        /\ \/ /\ StoreBatch(d, b, b \in worker[w].blank)
              /\ worker' = [worker EXCEPT
                   ![w].batch = b + 1,
                   ![w].pc = IF b = NumBatches THEN "tokens" ELSE "upsert"]
           \/ /\ "qdrant" \in Faults
              /\ Goto(w, "fail")
              /\ \/ StoreBatch(d, b, b \in worker[w].blank)
                 \/ UNCHANGED <<points, embedded>>
        /\ UNCHANGED <<gateway, readable, table, queue, bm25, minio, alert, runs, trouble, crashes>>

Skipped(key) == IF key = "tokens" THEN {"tokens", "chunks"} ELSE {"chunks"}

\* The two keys are set by two commands; an error in either skips the rest.
SetBm25Key(w, key, next) ==
    /\ worker[w].pc = key
    /\ \/ /\ bm25' = [bm25 EXCEPT ![worker[w].doc] = @ \cup {key}]
          /\ Goto(w, next)
          /\ UNCHANGED trouble
       \/ /\ "redis" \in Faults
          /\ Goto(w, "minio")
          /\ Trouble(worker[w].doc, Skipped(key))
          /\ UNCHANGED bm25
    /\ UNCHANGED <<gateway, readable, table, queue, points, embedded, minio, alert, runs, crashes>>

\* Mutant: the rest is skipped once the first key is set.
BuildBm25_OneKey(w) == SetBm25Key(w, "tokens", "minio")

BuildBm25(w) == SetBm25Key(w, "tokens", "chunks") \/ SetBm25Key(w, "chunks", "minio")

\* upload_to_minio answers False on failure; the caller does not look.
UploadOriginal(w) ==
    /\ worker[w].pc = "minio"
    /\ \/ minio' = [minio EXCEPT ![worker[w].doc] = TRUE] /\ UNCHANGED trouble
       \/ "minio" \in Faults /\ UNCHANGED minio /\ Trouble(worker[w].doc, {"original"})
    /\ Goto(w, "mark")
    /\ UNCHANGED <<gateway, readable, table, queue, points, embedded, bm25, alert, runs, crashes>>

MarkIndexed(w) ==
    LET written == [status EXCEPT ![worker[w].doc] = "indexed"]
    IN  /\ worker[w].pc = "mark"
        /\ \/ status' = written /\ Goto(w, "ack") /\ UNCHANGED trouble
           \/ /\ "database" \in Faults
              /\ status' \in {status, written}
              /\ Goto(w, "fail")
              /\ Trouble(worker[w].doc, {"chain"})
        /\ UNCHANGED <<gateway, readable, retryCount, queue, stores, alert, runs, crashes>>

--------------------------------------------------------------------------
\* The except clause (tasks.py:334-365) and what Celery makes of it

RecordFailure(d) ==
    /\ status' = [status EXCEPT ![d] = "failed"]
    /\ retryCount' = [retryCount EXCEPT ![d] = @ + 1]

\* If the UPDATE raises, the exception leaves the clause: no alert, no retry.
MarkFailed(w) ==
    /\ worker[w].pc = "fail"
    /\ \/ RecordFailure(worker[w].doc) /\ Goto(w, "alert") /\ UNCHANGED trouble
       \/ /\ "database" \in Faults
          /\ RecordFailure(worker[w].doc) \/ UNCHANGED table
          /\ Goto(w, "ack")
          /\ Trouble(worker[w].doc, {"chain"})
    /\ UNCHANGED <<gateway, readable, queue, stores, alert, runs, crashes>>

\* send_alert never raises.
SendAlert(w) ==
    /\ worker[w].pc = "alert"
    /\ alert' = [alert EXCEPT ![worker[w].doc] =
          IF worker[w].retries >= MaxRetries - 1 THEN "critical" ELSE "warning"]
    /\ Goto(w, "retry")
    /\ UNCHANGED <<gateway, readable, table, queue, stores, runs, trouble, crashes>>

\* Mutant: the task is sent again by send_task, which starts from retries 0.
Retry_FromZero(w) ==
    /\ worker[w].pc = "retry"
    /\ Publish(worker[w].doc, 0)
    /\ Goto(w, "ack")
    /\ UNCHANGED <<gateway, readable, table, stores, alert, runs, trouble, crashes>>

\* self.retry publishes the next attempt and raises Retry; past max_retries it
\* raises exc; if publishing raises it rejects the message without requeueing.
Retry(w) ==
    LET next == worker[w].retries + 1
    IN  /\ worker[w].pc = "retry"
        /\ \/ next <= MaxRetries /\ Publish(worker[w].doc, next) /\ UNCHANGED trouble
           \/ next > MaxRetries /\ UNCHANGED <<queue, trouble>>
           \/ /\ next <= MaxRetries /\ "broker" \in Faults
              /\ Trouble(worker[w].doc, {"chain"})
              /\ UNCHANGED queue
        /\ Goto(w, "ack")
        /\ UNCHANGED <<gateway, readable, table, stores, alert, runs, crashes>>

Acknowledge(w) ==
    /\ worker[w].pc = "ack"
    /\ worker' = [worker EXCEPT ![w] = Idle]
    /\ UNCHANGED <<gateway, readable, table, queue, stores, alert, runs, trouble, crashes>>

WorkerStep(w) ==
    \/ TakeMessage(w)
    \/ ParseAndChunk(w)
    \/ Embed(w)
    \/ UpsertBatch(w)
    \/ BuildBm25(w)
    \/ UploadOriginal(w)
    \/ MarkIndexed(w)
    \/ MarkFailed(w)
    \/ SendAlert(w)
    \/ Retry(w)
    \/ Acknowledge(w)

--------------------------------------------------------------------------
\* Time limits and crashes

\* SoftTimeLimitExceeded is an Exception: the except clauses inside the task
\* swallow it and the run goes on (an embedding becomes a zero vector, a BM25
\* key or the original is skipped, an alert is lost); elsewhere in the body it
\* leads to the except clause of the task, and inside that clause out of it.
AfterSoftLimit(pc) ==
    CASE pc = "embed" -> "embed"
      [] pc \in {"tokens", "chunks"} -> "minio"
      [] pc = "minio" -> "mark"
      [] pc = "alert" -> "retry"
      [] pc \in {"parse", "upsert", "mark"} -> "fail"
      [] pc \in {"fail", "retry"} -> "ack"

\* What a run does without when the limit interrupts it at pc.
Missed(pc, zero) ==
    CASE pc = "embed" -> Blanked(zero)
      [] pc \in {"tokens", "chunks"} -> Skipped(pc)
      [] pc = "minio" -> {"original"}
      [] OTHER -> {}

\* The call it interrupts may have taken effect; only where the run then goes
\* elsewhere than after that call is this more than the limit one step later.
SoftLimit(w) ==
    LET run == worker[w]
    IN  /\ "timelimit" \in Faults
        /\ run.pc \in Body \cup Handler
        /\ ~run.soft
        /\ \E zero \in IF run.pc = "embed" THEN SUBSET Batches ELSE {{}} :
             /\ worker' = [worker EXCEPT
                  ![w].pc = AfterSoftLimit(run.pc),
                  ![w].blank = @ \cup zero,
                  ![w].soft = TRUE]
             /\ Trouble(run.doc, {"chain"} \cup Missed(run.pc, zero))
        /\ \/ UNCHANGED <<table, points, embedded>>
           \/ /\ run.pc = "upsert" /\ run.batch \in Batches
              /\ StoreBatch(run.doc, run.batch, run.batch \in run.blank)
              /\ UNCHANGED table
           \/ /\ run.pc = "mark"
              /\ status' = [status EXCEPT ![run.doc] = "indexed"]
              /\ UNCHANGED <<retryCount, points, embedded>>
           \/ run.pc = "fail" /\ RecordFailure(run.doc) /\ UNCHANGED <<points, embedded>>
        /\ UNCHANGED <<gateway, readable, queue, bm25, minio, alert, runs, crashes>>

\* The child process is killed; task_acks_on_failure_or_timeout is left at its
\* default, so the message is acknowledged.
HardLimit(w) ==
    /\ worker[w].soft
    /\ worker[w].pc \in Body \cup Handler
    /\ worker' = [worker EXCEPT ![w] = Idle]
    /\ UNCHANGED <<gateway, readable, table, queue, stores, alert, runs, trouble, crashes>>

Unacknowledged(d, k) ==
    {w \in Workers : /\ worker[w].pc # "idle"
                     /\ worker[w].doc = d
                     /\ worker[w].retries = k}

\* Mutant: early acknowledgement (task_acks_late = False).
CrashContainer_AcksEarly ==
    /\ "crash" \in Faults
    /\ crashes < MaxCrashes
    /\ \E w \in Workers : worker[w].pc # "idle"
    /\ worker' = [w \in Workers |-> Idle]
    /\ crashes' = crashes + 1
    /\ UNCHANGED <<gateway, readable, table, queue, stores, alert, runs, trouble>>

\* Every unacknowledged message of the container is delivered again.
CrashContainer ==
    /\ "crash" \in Faults
    /\ crashes < MaxCrashes
    /\ \E w \in Workers : worker[w].pc # "idle"
    /\ queue' = [d \in Docs |-> [k \in Attempts |->
          queue[d][k] + Cardinality(Unacknowledged(d, k))]]
    /\ worker' = [w \in Workers |-> Idle]
    /\ crashes' = crashes + 1
    /\ UNCHANGED <<gateway, readable, table, stores, alert, runs, trouble>>

\* Redis is full and drops a key of its choice (allkeys-lru).
Evict(d) ==
    /\ "evict" \in Faults
    /\ \E key \in bm25[d] :
         /\ bm25' = [bm25 EXCEPT ![d] = @ \ {key}]
         /\ Trouble(d, {key})
    /\ UNCHANGED <<gateway, readable, table, queue, worker, points, embedded, minio, alert, runs,
                   crashes>>

Next ==
    \/ \E d \in Docs : GatewayStep(d) \/ GatewayDies(d) \/ Evict(d)
    \/ \E w \in Workers : WorkerStep(w) \/ SoftLimit(w) \/ HardLimit(w)
    \/ CrashContainer

\* A request that started goes on unless its process dies, and an idle worker
\* takes what is queued; no fault has to happen.
Fairness ==
    /\ \A d \in Docs : WF_vars(GatewayStep(d))
    /\ \A w \in Workers : WF_vars(WorkerStep(w))

Spec == Init /\ [][Next]_vars /\ Fairness

--------------------------------------------------------------------------
\* Safety under every fault

\* A document reported as indexed has every one of its passages in Qdrant,
\* whatever runs of it failed, were repeated or were killed half way
\* (tasks.py:280-288 before 318): a failed batch, a crash between two batches
\* or a late second run never leaves an indexed document with a hole.
IndexedMeansStored ==
    \A d \in Docs : status[d] = "indexed" =>
        \A b \in Batches : points[d][b] > 0

\* max_retries bounds the work a document can cause: late acknowledgement
\* repeats at most one chain of attempts for each process of a crashed
\* container.  One chain a crash would be too few: a retry is published before
\* its predecessor is acknowledged, so both can be running when the container
\* dies (tasks.py:37, 67, 183, 365).
AttemptsBounded ==
    \A d \in Docs :
        runs[d] <= (MaxRetries + 1) * (1 + crashes * Cardinality(Workers))

\* A passage is in Qdrant at most once for each run started: no run sends a
\* batch twice, and nothing but a run adds points (tasks.py:280-288).
CopiesBoundedByRuns ==
    \A d \in Docs, b \in Batches : points[d][b] <= runs[d]

\* An indexed document has a real vector for every passage, both keys the
\* keyword search reads and its original in the bucket, except for what its
\* history explains: a failed embedding, a key that could not be set, was
\* skipped or was evicted, an upload that failed (tasks.py:240, 306, 314,
\* docker-compose.yml:101).  So nothing else leaves a hole in it: no crash, no
\* failing statement or upsert, no retry that begins in the middle, no run
\* that is killed while another one finishes.
IndexedMeansComplete ==
    \A d \in Docs : status[d] = "indexed" =>
        /\ embedded[d] = Batches \/ "vectors" \in trouble[d]
        /\ {"tokens", "chunks"} \subseteq bm25[d] \cup trouble[d]
        /\ minio[d] \/ "original" \in trouble[d]

--------------------------------------------------------------------------
\* What becomes of a document whose chain of attempts was not broken

Broken(d) == "chain" \in trouble[d]

Pending(d) ==
    \/ gateway[d] \in {"save", "saveError", "send", "job", "sendError"}
    \/ \E k \in Attempts : queue[d][k] > 0
    \/ \E w \in Workers : worker[w].pc # "idle" /\ worker[w].doc = d

\* No accepted upload is forgotten: once nothing is pending for it, it is
\* indexed, or it is failed and MaxRetries + 1 attempts were recorded, even if
\* the worker container crashed at any point (tasks.py:334-365).
FailedOnlyWhenExhausted ==
    \A d \in Docs : gateway[d] = "accepted" /\ ~Pending(d) /\ ~Broken(d) =>
        \/ status[d] = "indexed"
        \/ status[d] = "failed" /\ retryCount[d] >= MaxRetries + 1

\* Every accepted upload settles: its chain of attempts ends, with the status
\* set, however its runs interleave with one crash and its recovery.
AcceptedSettles ==
    \A d \in Docs : gateway[d] = "accepted" ~>
        Broken(d) \/ (status[d] \in {"indexed", "failed"} /\ ~Pending(d))

Lifecycle == INSTANCE DocumentLifecycle WITH
    stored <- [d \in Docs |-> \A b \in Batches : points[d][b] > 0],
    refused <- [d \in Docs |-> gateway[d] = "refused"],
    broken <- [d \in Docs |-> Broken(d)],
    redelivered <- crashes > 0

\* The pipeline implements the life cycle of DocumentLifecycle: no straggling
\* step of an earlier attempt takes an indexed document back or counts a half
\* stored one as indexed (tasks.py:318, 336), only a message delivered again
\* after a crash does (37).  The gateway does when it fails after it sent the
\* task (documents.py:193, 204-212), but then its client was told so, once.
\* And no document stays queued.
ImplementsLifecycle == Lifecycle!Spec

--------------------------------------------------------------------------
\* What the documents and comments of the repository say

\* "Send alert on final retry exhaustion" (tasks.py:340), with the title "all
\* .. retries exhausted": no attempt is to come after a critical alert.
CriticalMeansExhausted ==
    \A d \in Docs : alert[d] = "critical" =>
        \A k \in Attempts : queue[d][k] = 0

\* "On failure: status `failed`" (builder promt.txt:248) and "Timeout: 30 min."
\* (233): an accepted document does not stay queued for ever.
FailureIsRecorded ==
    \A d \in Docs : gateway[d] = "accepted" ~> status[d] \in {"indexed", "failed"}

===============================================================================
