# A TLA+ verification of the AI Knowledge Centre

The repository is a retrieval-augmented question answering system: administrators
upload documents through an API gateway, a Celery worker turns them into vectors
and keyword indices, and a query engine answers questions from them. This
directory holds TLA+ modules that model its parts, configurations with which TLC
checks them on small instances, and theorems proved with TLAPS for instances of
every size. All source references are to paths in the repository.

    tlc -workers 2 -config pipeline.cfg MCIngestionPipeline.tla
    tlc -workers 2 -config chunks.cfg MCExtraction.tla
    tlapm SessionsProofs.tla

`PROJECT.json` is the index: components, runs, the wrong variants ("mutants") each
property was seen to reject, the source lines of every definition, findings,
hazards and theorems.

## 1. Inventory

| Part | State it keeps | Operations | Talks to | Modelled in |
|---|---|---|---|---|
| Gateway, documents (`api-gateway/routers/documents.py`) | rows of `documents`, `ingestion_jobs`, files in the upload directory | list, ingest, delete | PostgreSQL, disk, Celery broker, query engine | `DocumentRegistry`, `IngestionPipeline` |
| Ingestion worker (`ingestion-worker/tasks.py`, `worker.py`) | none of its own; writes all stores | `ingest_document` with retries, `delete_document_vectors`, alerts | broker (Redis), Ollama, Qdrant, Redis, MinIO, PostgreSQL | `IngestionPipeline`, `SearchIndex` |
| Parsers, chunker (`parsers.py`, `chunker.py`) | none | file to sections, sections to chunks | - | `Parsers`, `Chunker`, `Extraction` |
| Rate limiter (`api-gateway/rate_limiter.py`) | one sorted set per key in Redis | check, get_remaining, reset | Redis | `RateLimiter` |
| Sessions (`api-gateway/auth.py`, `routers/auth.py`) | signed tokens in the hands of clients, blacklist in Redis | login, refresh, logout, check on every request | PostgreSQL, Redis | `Sessions` |
| Users (`admin-panel/app.py`) | rows of `users` | create, update, deactivate | PostgreSQL | `UserAccounts` |
| Query engine (`engine.py`, `hybrid_search.py`, `reranker.py`, `prompt_builder.py`) | answer cache in Redis, rows of `queries` | query | Ollama, Qdrant, Redis, PostgreSQL | `QueryService`, `HybridSearch`, `SearchIndex` |
| Backups (`tasks.py`) | objects in MinIO, files in `/tmp` | nightly dump, weekly snapshot, clean-up | PostgreSQL, Qdrant, MinIO, Celery beat | `Backups` |
| Gateway, queries (`routers/query.py`) | rows of `queries` | query | limiter, query engine | - |
| Evaluation, admin backup and restore, health pages | rows of `ragas_evaluations`, backup files | weekly evaluation, `pg_dump`, `psql` | PostgreSQL | - |

Components interact through the stores, never through shared memory: the gateway
and the worker only meet in the `documents` table and in the queue; the worker and
the query engine in Qdrant and in the `bm25_*` keys of Redis; the gateway's
processes in PostgreSQL and Redis. No statement runs in a transaction with another
one (asyncpg connections are in autocommit mode), so the atomic unit is one
statement, one Redis command or MULTI/EXEC block, or one HTTP request.

What is hard here, and what each part must guarantee:

- **Documents table.** Two uploads of one file interleave; a request dies between
  retiring the old version and inserting the new one; a deletion races an upload.
  Correct: the version history has no gap, a deleted row stays deleted, and, as
  long as requests come one at a time, a file has one current version.
- **Ingestion.** Tasks are acknowledged late, so a crash repeats them; a retry is
  published before its predecessor is acknowledged; time limits interrupt any
  call; every store may fail between two steps. Correct: `indexed` means that all
  passages are in Qdrant and nothing else is missing that the history of the document
  does not explain, work is bounded, and every accepted upload whose chain of attempts was
  not broken settles.
- **Limiter.** Concurrent checks count each other's entries before they know
  whether these stay; stamps collide; transactions run late; the second command
  of a rejection may be lost. Correct: a window holds no more than the limit,
  and nobody is denied for longer than a window without a cause.
- **Users and sessions.** Two creations of one name both find it free; a blacklist
  entry must outlive its token although both are cut to whole seconds; a refresh
  races a logout; a token carries a role that may have changed; Redis may be down
  or evict. Correct: a name leads to one account, a logout that was answered is
  seen by every later request, and no chain of refreshes changes its owner or
  its role.
- **Search indexes.** Qdrant and the two BM25 keys of a document are written,
  deleted and evicted call by call while a query reads them call by call.
  Correct: a deletion that says so leaves nothing of a document whose points fit on the one
  page it scrolls, and a keyword search misses no document that was there all the time and
  has a passage that scores.
- **Queries.** Two rankings with copies and ties are fused, cut, reordered and
  cited; an answer computed from a degraded search is cached. Correct: the
  fusion is the ranking by reciprocal ranks, every passage is cited, with a score it has, and what was
  wrong with an answer is gone after one time to live.
- **Chunker, parsers.** Nested loops that carry an overlap over, fall-backs behind
  exceptions nobody raises. Correct: nothing of the text is lost, reordered or
  repeated beyond the overlap.
- **Backups.** Nights that were missed run side by side on one date and one file;
  crashes leave files; the clean-up of one run sees the objects of the others.
  Correct: a success leaves a dump, and retention never deletes the last one.

## 2. What is modelled, and how it corresponds to the code

### DocumentRegistry (implements VersionHistory)

One document row per upload request. `SelectExisting`, `RetireExisting` and
`InsertDocument` are the three statements of `documents.py:121-149`;
`SelectForDeletion` and `HideDocument` those of `delete_document` (226-257), whose
two attempts in between (a request to an endpoint the query engine does not have,
and a file name comparison that never matches, since names carry a random prefix
and not the row's id) change nothing in the table. `AbortUpload`/`AbortDeletion` are a statement that raises or a
gateway process that dies. A request refused before its first statement (role, rate limit, no file)
has no effect on the table. `slot` is the pair of file name and department,
fixed per request; time stamps, sizes and checksums are left out, because no
decision depends on them.

`VersionHistory` is what a reader may rely on: one current version per file, replaced by its
successor in one step, as long as its requests do not overlap. The refinement mapping counts an upload that has
retired the old row and not yet inserted the new one as still showing the old
one.

### IngestionPipeline (implements DocumentLifecycle)

The gateway from its INSERT on (`InsertRow`, `SaveFile`, `SendTask`, `InsertJob`,
`ReportError`), the queue as a counter per document and attempt number, and in
each worker process the run of `ingest_document` it executes, one action per call
to a store: `ParseAndChunk`, `Embed`, `UpsertBatch`, `BuildBm25`,
`UploadOriginal`, `MarkIndexed`, and the except clause `MarkFailed`, `SendAlert`,
`Retry`. `Acknowledge`, `TakeMessage`, `SoftLimit`, `HardLimit` and
`CrashContainer` are Celery as `tasks.py:30-42` configures it; a crash is the death of the whole
container, not of one process of the pool, which Celery treats like a time limit. `Evict` is Redis, which drops
any key when it is full (`docker-compose.yml:101`). `Faults` says which
parts may fail in an instance. `trouble` is history: what went wrong for a document that explains what it lacks
(real vectors, a key, the original), or that its chain of attempts was broken: a statement that
raised, a retry that was not published, a time limit, the death of the gateway. A failed call may have taken effect: an upsert
without an answer, a statement whose connection broke, a publish that raised.

Left out: the delay before a retry and prefetching (both are waiting in the
queue), texts and vectors (a batch is stored or not, with a zero vector or
not), `chunk_count`, `minio_path` and time stamps, `error_msg`, the removal of the
legacy key `bm25:<id>`. The `ingestion_jobs` row is only inserted, never read:
the gateway's state `accepted` implies it. Whether a file can be parsed is fixed
per document (`readable`).

`DocumentLifecycle` is what the status column promises: queued once, leaves
`queued` at some time, is indexed only when everything is stored, then stays so
unless a message was delivered twice, the chain of attempts was broken, or the request itself fails
after it sent its task (`documents.py:193`, 204-212): then the gateway marks the document failed, once, in the same
step that answers 500, whatever a worker has made of it, and a run under way may index it again.

### RateLimiter

One key and the checks of it. `Begin` reads the clock, `Check` is the MULTI/EXEC
block with the comparison, `RemoveOwnEntry` the separate `zrem`. `CheckFails` and
`RemoveFails` are the fail-open paths, `GatewayDies` a process that dies between
the two commands, `GetRemaining` and `Reset` the other two methods; `Reset` is
also the eviction of the key (`docker-compose.yml` gives Redis the policy
allkeys-lru). Entries are named by their stamp, as in the code, so equal stamps
share an entry. The state `forgiven` is history: it marks requests allowed before
a reset.

### UserAccounts and Sessions

`UserAccounts` is the table `users`: `CheckName` and `InsertAccount` are the two
statements of a creation (`app.py:207-234`), with the UNIQUE constraints of
`init.sql` as the guard of the second, `UpdateAccount` and `DeactivateAccount` the
others. `Sessions` adds the tokens and the requests that carry them. A login is
`SelectUser`, `IssueLogin`; every other request begins with `VerifyHeader`,
`CheckHeader` (`get_current_user`), which lets it through when Redis does not
answer; a refresh goes on with `CheckBody`, `Renew`, a logout with
`PrepareLogout`, `SetBlacklist`. Between any two of them other requests move and
time passes. The clock has several ticks to a second, because the claim `exp` and the
time to live of a key are whole seconds and requests come at any time:
`WholeSeconds` and `TimeToLive` are where `auth.py` cuts. `root`, `out`, `loggedOut`
and `evicted` are history. The binds `:id::uuid` in the statements of an update and a deactivation probably make SQLAlchemy fail on them,
so that the model allows more than this code does. Passwords and signatures work; a client can send every token
ever issued and no other. The limit on logins is the rate limiter's.

### Parsers, Chunker and Extraction

`Parsers` says what each parser makes of what its library finds in a file, as
pure operators, with a recursive function of the number of iterations where the code has a
loop that carries state (`WithText`, `Reading`). Every parser swallows its own exceptions (`Swallowed`), which is why
the OCR branch of `ParseDocument` is never taken. `Chunker` is the control of
`chunker.py` with one step for one iteration of a loop: `NextSection`, `NextParagraph`,
`NextSentence`, and the ends of the loops; `Collect`, `SaveAndCarry` and `TooLarge` are the
three branches that the loops over paragraphs and over sentences share. A text is
the sequence of its words. `Extraction` composes them as `tasks.py:206-217` does and
defines what a reader sees of a file without using the parsers. `WellFormed` says what a file
is: its paragraphs are their sentences, and a word stands for its place, so that none occurs twice in
what may become one section. That is how the model tells the places of a text apart, not a demand on
files. `ExtractionSpec` begins with any such file; the run takes those of `MCExtraction`, and an ASSUME there
has TLC see that they are well formed.

### SearchIndex, HybridSearch and QueryService

`SearchIndex` is the shared state of two components: points in Qdrant, pairs of
BM25 keys in Redis, and those who change them call by call: the second half
of `ingest_document` (`StartIngestion` to `SetChunks`, a failed call in
`WriterFails`), the task `delete_document_vectors` (`Scroll`, `DeletePoints`,
`DeleteKey`), the gateway's deletion, which reaches neither (`HideDocument`), and
eviction. `HybridSearch` holds the pure parts of the engine, from `Fuse` to
`SourcesOf`, with a recursive function for each loop (`Merging`, `Citing`), and a reference definition
of reciprocal rank fusion (`IsRanking`) that does not use them. A passage has two numbers, as in the code: `score`, which the
search that found it gave it (cosine or BM25) and the reranker replaces by its own (`Rescored`), and `rrf`, the sum
the fusion sorts by. Sources cite the first. The fusion adds exact fractions, as whole numbers in units of `Scale`, as
long as no list is longer than `MaxRank`; the floating-point rounding of the code is left out.
`QueryService` composes both into `POST /api/query`: cache, embedding, vector search, the calls of
`SCAN`, the two `GET`s of each document, fusion, reranking, answer, log and cache. One `ScanCall` is one call: until the
last one has answered, keys come and go, what was there all the time (`always`) is returned at least once, and any key may be
returned again. A document gives the passages with a score above zero (`Hits`), which may be none: `relevant` are the
documents that have one for this question, any set of them; but BM25Okapi gives none to a document of one or two
chunks (`Scorable`). The engine is one asyncio process whose calls to Redis, Qdrant and the reranker
block, so between `VectorSearch` and `Rerank` no other request of the engine moves
(`LoopFree`), while workers and Redis do (`OthersStep`). The order Qdrant and `SCAN`
return, BM25 scores above zero and relevance are any.

### Backups

Celery beat (`Send`), the two worker processes with one run each, the file
`/tmp/pg_backup_<date>` all runs of a date share, and the bucket. A run is one action
for each of its calls: `Start` (which fixes the date), `Dump`, `Write`, `CheckSize`, `Put`,
`List`, `Delete`, `Remove`, `Ack`; `Raise` and `CleanupFails` are the except clauses,
`CrashContainer` delivers unacknowledged messages again. Opening the file truncates
it under whoever writes it (`mixed`), and removing it leaves a writer with an
unlinked file (`linked`). `alone`, `now` and `cleaned` are history.

### Seen on the way and not stated as a property

- The gateway posts queries to `/query` (`routers/query.py:55`), the engine serves `/api/query`:
  every question through the gateway ends as a 502. The models take the
  engine as its own clients see it.
- The package `models` that the routers import is not in the repository;
  `docker-compose.yml` gives the worker a `postgresql+asyncpg` URL, which it passes to
  `asyncpg`; the binds `:sources::jsonb` and `:id::uuid` in SQLAlchemy text may not be recognised;
  the worker posts to a Qdrant path (`points/upsert`) of its own. The models take each call by
  the role it has in this code, not by what a given release answers.
- A request whose `ingestion_jobs` INSERT raises is answered "Failed to enqueue"
  although its task was sent (`documents.py:193`, 212).
- An indexed document may have zero vectors (`tasks.py:240`), lack a BM25 key (308) or
  its original (314), and Redis may evict a key later: `IndexedMeansComplete` says that nothing else is
  the cause when something is missing.
- `delete_document_vectors` scrolls one page of 1000 points (`tasks.py:143`): of a longer document it leaves the
  rest and still returns `deleted: True`, although its docstrings (129, 406) say "all Qdrant points".
- `delete_document_vectors` returns `deleted: True` even when the BM25 keys could not be
  deleted, and nothing sends it. Vectors of earlier versions of a file are
  never deleted (`builder promt.txt:236`, 360).
- The keyword search ignores the department filter (`builder promt.txt:355`) and ranks
  documents by the order of the scan; the two keys of a document may be read from two
  different ingestions. Copies of a point, from a redelivered ingestion, and passages
  of a key that `SCAN` returned twice (51-52) count as often as they are found in the fusion (208).
- A document of one or two chunks is never found by the keyword search: no word has a positive weight in so
  small a corpus, and only scores above zero count (`hybrid_search.py:165-173`).
- The scores of the sources of one answer may be of different scales, cosine and BM25, when nothing was reranked
  (`prompt_builder.py:92`).
- A logged-out token is accepted again in its last second (`auth.py:70` cuts the
  remaining time), and a refresh is granted at any time, not only near
  expiry (`builder promt.txt:214`).
- Chunks may exceed `chunk_size`, by at most one paragraph and the overlap
  (`chunker.py:106-122`).
- Two dumps of one date that overlap may leave only a truncated object, and both
  report success; the status of the download of a snapshot is not looked at, so an error
  body may be stored over a good snapshot (`tasks.py:175`, 772, `builder promt.txt:339`).
- The restore of the admin panel gives bytes to a process in text mode and always
  fails; its backup decodes a binary dump as text.

## 3. Runs

Every configuration gives values to constants and nothing else. Model values stand
for requests, documents, files, tokens and workers; `Symmetry` (permutations of them) is
used where a run checks invariants and action properties, never where it checks
liveness or a refinement. `CHECK_DEADLOCK FALSE` is set everywhere: the
number of requests is bounded, so every instance comes to rest when they
are answered.

| Run | Instance | What it shows |
|---|---|---|
| `registry_races` | 4 uploads, 2 deletions of 2 files, 3 in flight, 2 stopped | `SuccessorReplaces`, `DeletedStaysHidden` in every interleaving; for the files whose requests did not overlap `AtMostOneLatest`, `ListedAtItsVersion` and the refinement of `VersionHistory` |
| `registry_version_clash` | 2 uploads of a file at once | finding 1 |
| `pipeline` | 1 document of 2 batches, 2 workers, 2 attempts, 1 crash, every fault, one kind of trouble | `IndexedMeansStored`, `IndexedMeansComplete`, `FailedOnlyWhenExhausted`, `AttemptsBounded`, `CopiesBoundedByRuns`, `AcceptedSettles`, and the refinement of `DocumentLifecycle`, liveness included |
| `pipeline_early_alert` | 1 document, 1 worker, 4 attempts as in the code, Qdrant faults | finding 2 |
| `pipeline_stuck_queued` | the same, a file that can be read, a time limit that strikes while it is embedded | finding 3 |
| `limiter` | 4 checks, limit 2, window 4, delay 1, clock to 6 | `JudgedWithinLimit`, `DenialHasCause`, `WindowLimit` |
| `sessions` | 2 creations, 3 addresses, 2 names, 3 tokens, 3 requests in flight, 4 requests in all, 2 ticks a second, tokens of 2 seconds, clock to 5 | `NamesIdentify`, `RevokedUntilLastSecond`, `LogoutIsSeen`, `SessionKeepsIdentity`, `SessionsFrozen` |
| `chunks` | chunk sizes 2 and 4, overlaps 0, 1, 3; texts of up to 3 paragraphs of 2 sentences of 3 words, 4 lines of a Word document, 2 elements of a PDF, 2 sheets | `SectionsKeepBody`, `TitleIsLastHeading`, `ChunksCoverSection`, `OversizedIsOnePiece` |
| `chunks_ocr` | the PDFs of `chunks` | finding 4 |
| `queries` | 2 documents of 3 passages, 2 copies, 2 events, `SCAN` returning up to 3 keys, all faults; any two lists of up to 3 results | `DeletionIsComplete`, `KeywordSearchMissesNothing`, `FusedIsRanking`, `PassagesAreCited`, `AnswersAge` |
| `queries_deleted` | 2 documents of 1 passage, no faults | finding 5 |
| `backups` | 2 workers, 1 tick a day, week of 2 days, retention 1 day, 1 crash, days 2 and 3 | `SuccessMeansStored`, `NothingExpiredIsLeft`, `LastBackupStays` |

Why the bounds are enough to see the interesting cases:

- *Registry.* A gap in the history needs a row with a version above 1, a second
  upload of the same file and one statement of a third request between two of
  theirs; four uploads on two files leave room for two such triples, and for a
  file touched by an upload of the other one (the mutant `AnyDepartment`). Two
  stopped requests allow one stop at each of the two gaps between statements.
- *Pipeline.* Two batches are needed to stop between them; two workers and one
  crash are needed for a retry that runs beside its unacknowledged predecessor
  and for both to be delivered again. The bound of `AttemptsBounded` counts one
  chain for each worker and crash: with one chain for each crash TLC refutes it.
  Two attempts make a first and a last one. Every fault
  is there, but (`Narrow` in `MCIngestionPipeline`) a document meets one kind of trouble, after which the
  two processes take turns, and trouble with the chain of attempts or with vectors is not combined with a crash.
  Faults that leave no trouble, a failed upsert above all, combine with each other and with all of them. The
  properties excuse each kind of trouble separately, so one kind is what can tell them apart; the theorems hold for any.
- *Limiter.* `Window - MaxDelay = 3` instants are more than `Max = 2`, so a window
  has room for a third request with a stamp of its own; a fourth request collides
  with one of them. The clock goes past the end of the first window.
- *Sessions.* A life of two seconds with half-second ticks has a last second and one
  before it, and tokens are issued on whole and on half seconds; the clock goes
  past the expiry of the first token. Three tokens are two sessions, one of them with
  a refresh; four requests are a login, a logout and two more (a refresh that races it,
  or a change of the account between a login and a refresh); requests of
  administration count among them.
- *Chunks.* Every loop starts empty, with something carried over, and with a piece that does
  not fit; an overlap of 3 with sizes 2 (excluded by `Configs`) and 4 covers overlaps
  almost as large as the chunk. The properties of coverage need words that do not repeat,
  so a word is its place.
- *Queries.* One document is enough to delete and to reingest, the other to be
  found meanwhile. The run has behaviours of two kinds (`MCQueryService`), because
  what a search does with the indexes and what is done with its results share only the two lists.
  In the first, the indexes change under the keyword search, and a run ends with its list;
  it is followed for an empty vector result and for the first passage of each document, which
  the keyword search does not tell apart from others. In the second the indexes are at rest, and the query
  begins at the fusion with any two lists of up to three results each; time passes, so
  the cache is used and expires. Steps that touch only the run that
  takes them go first (`LocalFirst`); they commute with all others, and no
  property speaks of the stores in the states this leaves out. Documents have three passages, the fewest with which
  the keyword search can find one; six points, two copies of each, fit on the page of the deletion; with three keys from
  `SCAN` two documents leave room for a repetition.
  `TopKVector`, `TopKBm25`, `TopK` and `FinalKs` are small enough that each cut cuts
  something. One request at a time suffices for these properties: requests share only
  the cache, whose entries `AnswersAge` bounds wherever they come from.
- *Backups.* The bucket begins empty or with all earlier nights. With a retention of a day, day 2 is the first on
  which one of them can have expired, and on day 3 the next has; what the run itself stores does not expire in it, but is
  what must be there when they go. Two processes and a queue of two hold a missed night, a repeated one and
  a weekly snapshot side by side.

The bounds named in the modules are `MaxInFlight` and `MaxAborted` (registry),
`MaxRetries` (the code's own, smaller) and `MaxCrashes` (pipeline), `MaxDelay` and
`MaxTime` (limiter), `MaxRequests`, `Tokens`, `Requests`, `MaxTime` (sessions), `MaxParagraphs`,
`MaxSentences`, `MaxWords` (files), `MaxCopies`, `MaxEvents`, `MaxRank`, `Runs`, `MaxRun`, `MaxScanned`,
`MaxList` (queries), `MaxClock`, `MaxQueue`, `MaxCrashes` (backups).

Some properties hold only under conditions, which the formulas or the instances
state, and which are there because TLC refutes the property without them:

- `AtMostOneLatest`, `ListedAtItsVersion` and the refinement of `VersionHistory` speak of
  files on which no two requests overlapped: finding 1 is what happens otherwise.
- `FailedOnlyWhenExhausted`, `AcceptedSettles` and the liveness of `DocumentLifecycle` speak of documents whose chain of
  attempts was not broken (`Broken`): a statement that raises inside the except clause of the task
  (`tasks.py:336`), a retry that is not published or a time limit loses the retry.
- `DocumentLifecycle` lets an indexed document relapse after a redelivery: a message
  delivered again does take it back to failed when its batches fail. It also lets the gateway take it back with
  the answer 500, once.
- `IndexedMeansComplete` excuses each loss by its own cause: a failed embedding, a key that could not be set or was
  evicted, an upload that failed.
- `WindowLimit` speaks of a window shorter by `MaxDelay` and of requests that
  share their stamp with no other. With the full window, a transaction that runs
  late adds an entry older than the window of those already counted; with shared
  stamps, a rejection removes the entry of an allowed request. TLC refutes
  both stronger forms.

- `RevokedUntilLastSecond` and `LogoutIsSeen` stop one second before the token expires,
  because the time to live is cut to whole seconds; the key must not have been
  evicted, and a request that Redis did not answer is let through by the code.
- `SessionsFrozen` leaves the refreshes a deactivated account had: the code never
  looks at `is_active` again (`routers/auth.py:92-110`).
- `DeletionIsComplete` speaks of deletions that no ingestion of the document overlapped,
  and of documents whose points fit on one page.
- `KeywordSearchMissesNothing` speaks of documents with a passage that scores above zero.
- `SectionsKeepBody` speaks of files that can be read; a PDF that cannot is finding 4.
- `SuccessMeansStored` speaks of runs that no other run of their date overlapped.

For each property of a passing run, `PROJECT.json` names a mutant: a definition of
the model changed the way a slip in the code would change it (the operators marked
"Mutant" in the modules), under which TLC finds the property violated.

## 4. Fairness

`Spec` of IngestionPipeline assumes weak fairness of `GatewayStep(d)` for each request
and of `WorkerStep(w)` for each worker process, which includes taking a message from a
non-empty queue. The code's justification is its scheduling: a handler that is not
blocked for ever runs on (every HTTP call in `tasks.py` has a time-out), and an idle
Celery process of `worker.py` consumes from the queue it is configured with. No fault
has to happen: failures, time limits, crashes and dying gateways are outside the
fair actions, but the outcomes of a call that has failed are part of its step. The other
modules state safety only; a request or task there may stop for ever anywhere.

## 5. Proofs

The theorems hold for every number of requests, files, documents, batches, retries,
tokens, queries and workers, every clock grain, life time and retention, every set of faults,
documents of any shape and every value of the bounds. They assume the ASSUMEs of the modules, which
TLC evaluates in the runs, and what the third column names. None of these hypotheses is for convenience:
what happens without them is said at the end of section 2, in section 3, or below.

| Theorem | Statement | Where |
|---|---|---|
| `DocumentRegistryProofs!TypeCorrect` | `Spec => []TypeOK` | |
| `DocumentRegistryProofs!HistoryHasNoGap` | `Spec => []SuccessorReplaces` | |
| `DocumentRegistryProofs!DeletionIsFinal` | `Spec => []DeletedStaysHidden` | |
| `DocumentRegistryProofs!OneLatest` | `Spec => []AtMostOneLatest` |  |
| `DocumentRegistryProofs!ListedAtCount` | `Spec => []ListedAtItsVersion` |  |
| `DocumentRegistryProofs!HistoryIsImplemented` | `Spec => ImplementsVersionHistory` |  |
| `IngestionPipelineProofs!TypeCorrect` | `Spec => []TypeOK` | |
| `IngestionPipelineProofs!IndexedIsStored` | `Spec => []IndexedMeansStored` | |
| `IngestionPipelineProofs!CopiesAreBounded` | `Spec => []CopiesBoundedByRuns` |  |
| `IngestionPipelineProofs!AttemptsAreBounded` | `Spec => []AttemptsBounded` |  |
| `IngestionPipelineProofs!FailureIsExhaustion` | `Spec => []FailedOnlyWhenExhausted` | |
| `IngestionPipelineProofs!IndexedIsComplete` | `Spec => []IndexedMeansComplete` | |
| `IngestionPipelineProofs!ImplementsLifecycleSteps` | `Spec => Lifecycle!Init /\ [][Lifecycle!Next]_(Lifecycle!vars)` | |
| `RateLimiterProofs!TypeCorrect` | `Spec => []TypeOK` | |
| `RateLimiterProofs!LimitIsKept` | `Spec => []JudgedWithinLimit` | |
| `RateLimiterProofs!DenialsAreCaused` | `Spec => []DenialHasCause` |  |
| `RateLimiterProofs!WindowIsLimited` | `Spec => []WindowLimit` |  |
| `SessionsProofs!TypeCorrect` | `Spec => []TypeOK` | |
| `SessionsProofs!NamesAreUnique` | `Spec => []NamesIdentify` | |
| `SessionsProofs!LogoutLasts` | `Spec => []RevokedUntilLastSecond` | |
| `SessionsProofs!LogoutsAreSeen` | `Spec => []LogoutIsSeen` | |
| `SessionsProofs!IdentityIsKept` | `Spec => []SessionKeepsIdentity` | |
| `SessionsProofs!NoSessionAfterDeactivation` | `Spec => SessionsFrozen` | |
| `BackupsProofs!TypeCorrect` | `Spec => []TypeOK` | |
| `BackupsProofs!CleanupIsComplete` | `Spec => []NothingExpiredIsLeft` | |
| `BackupsProofs!LastBackupIsKept` | `Spec => LastBackupStays` | |
| `BackupsProofs!SuccessIsStored` | `Spec => []SuccessMeansStored` | two worker processes |
| `ChunkerProofs!TypeCorrect` | `Spec => []TypeOK` | |
| `ChunkerProofs!OversizedIsBounded` | `Spec => []OversizedIsOnePiece` | |
| `ChunkerProofs!SectionsAreCovered` | `Spec /\ AllWhole => []ChunksCoverSection` | sections that are whole |
| `ChunkerProofs!FilesAreCovered` | `ExtractionSpec => []ChunksCoverSection` | |
| `ChunkerProofs!BodyIsKept` | `ExtractionSpec => []SectionsKeepBody` | |
| `ChunkerProofs!TitlesAreRight` | `ExtractionSpec => []TitleIsLastHeading` | |
| `QueryServiceProofs!QueryTypesAreCorrect` | `Spec => []TypeOK` | |
| `QueryServiceProofs!FusionIsRanking` | `Spec => []FusedIsRanking` | |
| `QueryServiceProofs!AnswersAreCited` | `Spec => []PassagesAreCited` | |
| `QueryServiceProofs!DeletionCompletesBesideQueries` | `Spec => []DeletionIsComplete` | |
| `QueryServiceProofs!AnswersAreYoung` | `Spec => []AnswersAge` | |
| `QueryServiceProofs!NothingIsMissed` | `Spec => []KeywordSearchMissesNothing` | |

**Registry.** `SuccessorReplaces` and `DeletedStaysHidden` speak of rows only; they are
not inductive, because nothing in them says that the row an upload is about to number
its successor after is there, has the version the upload remembers, and is no
longer the latest. `RegistryInv` adds that, as `UploadInv` and `DeletionInv`. The
argument has one idea: no statement changes the version of a row that is there
or gives it `is_latest` back (`RowsKept`). The lemma `KeptStays` shows that under it
only the request that moves and the row that is new have to be looked at;
`UploadStep` and `DeletionStep` do that for each action.

The properties of files whose requests did not overlap are about a whole history. `FileInv` says of such a
file that at most one request for it is between its first and its last statement, that there
is at most one row marked latest, that an upload about to retire a row has found that one, and that there is
none while an upload is about to insert (`SerialInv`); and that, unless something was deleted or stopped, the
number of rows is the version of the latest row or the one the upload about to insert remembers (`LastVersion`).
The count needs that a file has finitely many rows, which every INSERT keeps. A request for another file leaves all of that alone (`FileKept`, `OtherFilesKept`): the slot of a row
never changes. The refinement follows: what `VersionHistory` shows of a file is `Shown`, the latest
row or the one being replaced; a statement leaves it as it is, an INSERT moves it to the successor, a deletion
takes it off the list, and the first statement of a second request is `Withdraw`.

**Pipeline.** `IndexedMeansStored` says nothing of a run on its way to `MarkIndexed`.
`StoredBy(w)` does: the batches before the one the run of `w` is at are in Qdrant.
`StoredStays` shows that points never disappear (nothing in the model deletes them,
because nothing in the repository sends `delete_document_vectors`), so a step of
one run keeps what the others have stored. The gateway, worker and interrupt steps
each have a lemma.

`CopiesBoundedByRuns` is a balance: a run that may still send a batch has been counted and has not yet
used its share, so the copies in Qdrant and the runs that may still store the batch (`Storers`) are together
no more than `runs[d]`. `AttemptsBounded` is one too. Every message stands for the attempts from its own to
the last, every run for those that would follow it, an upload not yet sent for a whole chain; with `runs[d]`
they stay within the bound (`AttemptsInv`). The attempts are counted as finite sets of pairs, because a sum over an
arbitrary number of messages would be a recursion: publishing, taking and acknowledging move or remove
one block of pairs, and a crash delivers what the processes held, which maps one to one into processes
times attempts and is paid by the growth of `crashes`.

`FailedOnlyWhenExhausted` speaks of documents nothing is left of. `ChainInv` says what holds on the way, of every document whose
chain is not broken: a run of attempt `k`
comes after at least `k` failures recorded in `retry_count`, so does a message of attempt `k`, and an
accepted document is indexed, exhausted, or has a message or a run (`Open`) that goes on. A step that breaks a chain says so in
`trouble`, and that is never taken back (`TroubleStays`); `UnbrokenMoves` is what is left for the steps that do not.
`IndexedMeansComplete` rests on `CompleteBy(w)`: what a run of `w` has passed, it has stored, or its loss is
in `trouble`; nothing but an eviction empties these stores, and it is recorded (`StoresGrow` counts both), so a repeated run
keeps what was complete.

`ImplementsLifecycleSteps` is the step simulation of `ImplementsLifecycle`. The abstract life cycle does
not know of messages. What makes a concrete step an abstract one is `LifeInv`: the status is `none` or `queued`
until the request has sent its task (`RequestInv`), and as long as no container died and the chain is whole there is one attempt
at most, a message or a run (`OneAttempt`), and none for an indexed document; so no straggler takes back what another run
did, and the gateway does only in `Refuse`. Each lemma names the abstract action its
step maps to, or that the status and the stores a reader sees stay as they are.

**Limiter.** `JudgedWithinLimit` is inductive together with `TypeOK`. A check that is
judged found fewer than `Max` entries of any kind (`CountAdded`); any other step only
removes entries or moves requests into `Unjudged` (`NoNewJudged`).

`DenialHasCause` relates a count of entries to a number of requests. `StampInv` says that every entry is the stamp
of a request that has run its transaction, that finitely many requests have begun, and that a request about to
check is at most `MaxDelay` behind the clock; then the entries a denied request counted map one to one into
other requests that began in its window (`StampsCount`), and these never stop having begun. `WindowLimit` needs to
know how long an entry counts. `WindowInv` says that the entry of an allowed request that shares its stamp with nobody
stays in the set, and the key with it, until the clock is a window past its stamp: a transaction drops
only what is older than a window before its own stamp, a rejection removes the entry of another, and the
key's time to live begins anew with each entry. The last of the requests allowed in a window shorter by
`MaxDelay` is judged at most `MaxDelay` after its stamp, and so counted all the others.

**Sessions.** `RevokedUntilLastSecond` needs to know that a logout under way has computed a time
to live that still reaches far enough, however long ago it did (`LogoutsUnderWay`), and that the
arithmetic of whole seconds loses less than one second (`SecondsCut`, `TimeToLiveCovers`).
`LogoutIsSeen` adds that what a request remembers in `out` was logged out when
it came (`OutIsLoggedOut`), and that a check passed is a check passed for good (`SeesBoth`): issued
tokens keep their claims, the clock goes forward (`StepKeeps`). `SessionKeepsIdentity` is
inductive together with the types and with `TokensIssued`.

**Backups.** `RetentionInv` says that a run began on its date (`BeganOnDate`), that from its upload on
there is an object under its key not older than the run itself (`HasObject`), and that its list
of keys contains what it should and only what had expired (`ListIsRight`). The heart is
`OwnKeyIsSafe`: an object younger than the run, and so than the time limit, cannot have expired when
the list was taken, so no list contains the key of a run of a day recent enough; the object
that deletion leaves is therefore later than any it removes. The assumption
`TimeLimit + DayTicks <= Retention * DayTicks + 1` (one hour and a day against thirty days) is what this rests on.

`SuccessMeansStored` needs the story of a run nobody of its date overlapped (`AloneInv`). Until it ends it has no rival (`Rivals`): the
other process is not at a run of the same kind and date, so the file it opened is the one it finds, whole once its
dump is through (`OwnFile`), and the object it put is under its key (`Stored`). When it ends with
success the other process may begin the same backup again, and then is itself alone until another comes:
what it puts in the place of the object is whole as well. `OwnKeyIsSafe` keeps the object from every clean-up.
This is where the number of processes counts: with three, two later runs that overlap each other
could replace the object of the first by a mixed dump. `worker.py` starts two.

The theorems are about `Spec`, which begins with an empty bucket at time 0; the run begins later.

**Chunker.** Slices are texts no longer than the chunk size, and an overlap is not longer than
configured (`SlicesAreShort`, `OverlapIsShort`); `PieceTaken` treats the iteration that both loops share once.
`OversizedIsOnePiece` speaks of finished chunks; `PieceInv` says the same of what the two
loops are collecting, and that what they have still to read are parts of the section.

`ChunksCoverSection` is proved for documents whose sections are whole (`Whole`): paragraphs and sentences cut
the text of a section without loss, and no word occurs twice, which is how the model tells the places of a
text apart; `FilesAreCovered`, below, does without the hypothesis for the sections the parsers make. `Cover` states what "cut without loss" means by places between the parts, without a recursion; its
lemmas take the first part off (`CoverFirst`) and carry a cover of a paragraph over to the section
(`CoverOfStretch`). The invariant `CoverInv` relates three things in each loop: the saved chunks form a
chain that reaches some place of the section (`Reaches`); what the loop holds is a stretch that
begins there, or an overlap before it, and ends at the place it has read up to (`Held`); what is still to be
read covers the section from that place on. `CutsExtend` is the one lemma about adding chunks to a chain; saving a chunk
(`SavedReaches`) and the slices of a long sentence (`SlicesReach`, the only place with products)
are cases of it, `TakenIsHeld` treats the iteration of either loop, and each of the six actions has a lemma.

**Loops as functions.** What a loop of the parsers or of the fusion computes for a list of any length is an
induction. `RecursionProofs` has what it needs without an operator as a parameter. `LeastNumber`, a set of numbers
that is not empty has a least one, follows from the library's `WFMin` and `NatLessThanWellFounded`; `CountUp` is
induction up to a number for a set instead of a predicate. `IteratesExist` builds the function of a recursion
(a CHOOSE says nothing until something is there to be chosen), so that `Product`, `Merging`, `Citing`,
`Sums`, `WithText` and `Reading` are what their definitions say, and `IteratesKeepTo` gives their types.

**Parsers.** `FlattenSeq` is laid out by places: `Laid` says which list, and which place in it, each
place of the flat text comes from, and `Spread` the same of the words of paragraphs or sections. With that the
sections of a PDF, a text and a sheet are whole and hold the body. For a DOCX there are two loop
invariants over the paragraphs read so far: the words of the saved sections and of the one that is open are
those of the lines read, in order; and every line has a section of its own heading (`Owns`), the one that is open
if no heading was read since (`Holds`). The sheets are counted: a cell gives two words, so the words of a
row, a sheet and the file are twice the number of the cells, and none is there that should not be.
The document never changes after `Parse` (`ParsedStays`), which makes `SectionsKeepBody` and `TitleIsLastHeading`
invariants; and as the parsed sections are whole (`ParsedAreWhole`) and `ExtractionSpec` implies `Spec`
(`ExtractionIsChunking`), `SectionsAreCovered` gives `FilesAreCovered`.

**Indexes and queries.** `QueryServiceProofs` proves `DeletionIsComplete` first of the indexes alone
(`IndexSpec`, `DeletionCompletes`) and then of `Spec`, since no request writes an index (`IndexesAreShared`). The
property speaks of the end of a task; `DeletionInv` says what each call before has
established, above all that the points the scroll saw are all there are when the
next call deletes them. It holds because the document is off the list when the task is sent, so
that no ingestion of it can start unless one was under way, and then `alone` is
false; `OthersKeepDeletion` treats all steps of others at once, `PageIsGone` counts.
`AnswersAge` needs that the age of a cache entry and the time it has left never exceed
one time to live and one run together (`EntryKept`): time moves from one to the other, and a hit
changes neither. `KeywordSearchMissesNothing` follows from `SearchKept`: once the last call of `SCAN` has answered, a document that has kept
its keys and has a passage that scores (`Wanted`) was read or is on the list still, however often it is on it, and a
request that saw its tokens goes on to its chunks.

`FusedIsRanking` compares two ways to the same list. `Represents` is what the two loops of the fusion
leave, shown result by result: the dict has every key once, in the order of the first occurrences,
with that occurrence and with the sum of its shares. `Sorted` returns a permutation (each rank is
taken by exactly one place, which is a count of finite sets), so the list cut at `top_k` is the ranking the
definition asks for. The order of equal scores is part of it: a stable sort of a dict in insertion order is what
makes `Precedes` a strict order. `PassagesAreCited` is the same kind of invariant for `extract_sources`.
`TypeOK` rests on the types those loops keep and on a reranked prompt being taken from the fused one;
it needs a request to have some `final_k` (`FinalKs # {}` in `QueryAssumption`; the code gives it a default).

Only model-checked, because the prover cannot reach it:

- `AcceptedSettles` and the fairness part of `ImplementsLifecycle`: liveness needs `ENABLED`.
- The findings: a violation is one behaviour, and TLC shows it.

Every invariant and every action property of a passing run is a theorem.

## 6. Where the code disagrees with what is said of it

1. `registry_version_clash`: two uploads of one file that overlap insert the same
   version number, although the test says that re-uploading increments it
   (`documents.py:121`, `tests/test_document_versioning.py:21`).
2. `pipeline_early_alert`: the alert "all retries exhausted" is sent one attempt early
   (`tasks.py:341` against its comment in 340).
3. `pipeline_stuck_queued`: the soft time limit, striking while a readable file is embedded, is swallowed by the clause around
   one embedding, the hard one ends the run without a trace, and the document stays queued
   (`tasks.py:241`, `builder promt.txt:233` and 248).
4. `chunks_ocr`: a PDF that Unstructured cannot read gives no section, because `_parse_pdf` swallows the exception
   that would lead to the OCR (`parsers.py:64-67` against 3 and 38-41).
5. `queries_deleted`: the deletion of a document relies on a route the query engine does not have, so
   its points and BM25 keys stay and are searched (`documents.py:238` against its docstring in 222).

## 7. Not modelled, and what is left

Not modelled, because no state a decision depends on is in them, or because they cannot run:

- *Document list*: two reads whose moments may differ; nothing is decided on the answer.
- *Query router of the gateway*: it posts to a path the engine does not serve, so the
  log row and the answer behind the call cannot be reached at this commit.
- *RAGAS evaluation*: a weekly read, a computation by a library, an INSERT nobody reads.
- *Admin panel*: its own backups are files nobody else touches, its restore always fails,
  health and statistics are reads, a change of password changes nothing modelled.
- *Prompt text, metrics, HTML, start-up, settings, proxying, monitoring.*

Left to prove: liveness, when a prover can reach `ENABLED`; and the invariants of `SearchIndex` could be
stated for any number of pages of a scroll.
