---------------------------- MODULE QueryService ----------------------------
(* POST /api/query of the query engine (query-engine/engine.py): the cache  *)
(* of answers, the hybrid search over the indexes of SearchIndex, the       *)
(* choice of passages, the answer and its sources.  Questions differ in the *)
(* department they are about; a run is one request.                         *)
(*                                                                          *)
(* The engine is one asyncio process (uvicorn --workers 1) and calls Redis, *)
(* Qdrant and the reranker synchronously: another run gets its turn only    *)
(* where a run awaits the embedding, the model or the database.  The        *)
(* workers that change the indexes are other processes and run meanwhile.   *)
(* Definitions marked "Mutant" are, as in SearchIndex, no part of the model. *)
EXTENDS SearchIndex, HybridSearch

CONSTANTS
    Runs,           \* bound: requests at a time
    Alike,          \* passages that begin alike in all documents
    Scopes,         \* the sets of documents a filter lets pass
    TopKVector,
    TopKBm25,
    TopK,           \* top_k of a request
    FinalKs,        \* final_k of the requests
    CacheTTL,       \* QUERY_CACHE_TTL, in ticks
    MaxRun,         \* bound: the ticks a run takes, given its time-outs
    MaxScanned      \* bound: the keys a loop over SCAN returns, copies included

ASSUME QueryAssumption ==
    /\ Scopes \subseteq SUBSET Docs
    /\ Alike \subseteq Nat
    /\ {TopKVector, TopKBm25, TopK, CacheTTL} \cup FinalKs \subseteq Nat \ {0}
    /\ FinalKs # {}
    /\ {MaxRun, MaxScanned} \subseteq Nat

VARIABLES
    run,            \* run[q]: the request q
    cache           \* cache[s]: the answer to the question about s

vars == <<indexVars, run, cache>>

Ages == 0..(CacheTTL + MaxRun)

\* A score of Qdrant or of BM25 stands for the number that search computes for the
\* passage; the two are of different scales and nothing compares them.
Relevances == {1, 2}
Score == ({"cosine", "bm25"} \X Docs \X Passages) \cup ({"relevance"} \X Relevances)

Key == Passages \X SUBSET Docs
Result == [doc : Docs, n : Passages, key : Key, place : Passages, score : Score]
Chunk == [result : Result, key : Key, rrf : Nat]

ResultOf(search, d, n) ==
    [doc |-> d, n |-> n, key |-> <<n, IF n \in Alike THEN {} ELSE {d}>>, place |-> n,
     score |-> <<search, d, n>>]

\* relevant: the documents some passage of which scores above zero for the question;
\* always: the BM25 keys that have been there since the first SCAN; offList: the
\* documents deleted when the question was asked (history).
Idle == [pc |-> "idle", scope |-> {}, age |-> 0, vector |-> <<>>, pending |-> <<>>,
         tokens |-> FALSE, keyword |-> <<>>, prompt |-> <<>>, sources |-> <<>>,
         relevant |-> {}, always |-> {}, offList |-> {}]

Waiting == {"embed", "generate", "log", "store"}
Reading == {"scanning", "tokens", "chunks"}
Searching == {"search", "scan", "rank", "rerank"} \cup Reading

NoEntry == [left |-> 0, age |-> 0]

TypeOK ==
    /\ IndexTypeOK
    /\ \A q \in Runs :
         /\ run[q].pc \in {"idle", "answered", "failed"} \cup Waiting \cup Searching
         /\ run[q].scope \in Scopes \cup {{}}
         /\ run[q].age \in Ages
         /\ {run[q].vector, run[q].keyword} \subseteq Seq(Result)
         /\ run[q].pending \in Seq(Docs)
         /\ run[q].prompt \in Seq(Chunk)
         /\ run[q].pc \notin {"rank", "rerank"} => \E k \in FinalKs : Len(run[q].prompt) <= k
         /\ run[q].relevant \cup run[q].offList \subseteq Docs
         /\ run[q].always \subseteq Keys
    /\ cache \in [Scopes -> [left : 0..CacheTTL, age : Ages]]

Init ==
    /\ IndexInit
    /\ run = [q \in Runs |-> Idle]
    /\ cache = [s \in Scopes |-> NoEntry]

--------------------------------------------------------------------------
\* One request

Become(q, r) == run' = [run EXCEPT ![q] = r]

LoopFree(q) == \A other \in Runs \ {q} : run[other].pc \notin Searching

Asked(scope) == [Idle EXCEPT !.pc = "embed", !.scope = scope, !.offList = hidden]

\* Mutant: a hit gives the entry its full time to live again.
LookUp_Renews(q, scope) ==
    /\ \/ /\ cache[scope].left > 0
          /\ Become(q, [Idle EXCEPT !.pc = "answered", !.age = cache[scope].age])
          /\ cache' = [cache EXCEPT ![scope].left = CacheTTL]
       \/ cache[scope].left = 0 /\ Become(q, Asked(scope)) /\ UNCHANGED cache
       \/ "redis" \in Faults /\ Become(q, [Idle EXCEPT !.pc = "failed"])
                             /\ UNCHANGED cache

LookUp(q, scope) ==
    /\ \/ /\ cache[scope].left > 0
          /\ Become(q, [Idle EXCEPT !.pc = "answered", !.age = cache[scope].age])
       \/ cache[scope].left = 0 /\ Become(q, Asked(scope))
       \/ "redis" \in Faults /\ Become(q, [Idle EXCEPT !.pc = "failed"])
    /\ UNCHANGED cache

Ask(q) ==
    /\ run[q].pc = "idle"
    /\ LoopFree(q)
    /\ \E scope \in Scopes : LookUp(q, scope)
    /\ UNCHANGED indexVars

\* Without an embedding the vector is zero, and Qdrant's order means nothing; it
\* means nothing to the rest of the model either.
Embed(q) ==
    /\ run[q].pc = "embed"
    /\ LoopFree(q)
    /\ Become(q, [run[q] EXCEPT !.pc = "search"])
    /\ UNCHANGED <<indexVars, cache>>

Orders(S, k) ==
    LET n == IF Cardinality(S) < k THEN Cardinality(S) ELSE k
    IN  {f \in [1..n -> S] : \A i, j \in 1..n : f[i] = f[j] => i = j}

\* The nearest points that pass the filter, in any order; an error is no point.
VectorSearch(q) ==
    /\ run[q].pc = "search"
    /\ \E hits \in Orders({p \in points : p.doc \in run[q].scope}, TopKVector)
                     \cup (IF "qdrant" \in Faults THEN {<<>>} ELSE {}) :
         Become(q, [run[q] EXCEPT
           !.pc = "scan",
           !.vector = [i \in DOMAIN hits |-> ResultOf("cosine", hits[i].doc, hits[i].n)]])
    /\ UNCHANGED <<indexVars, cache>>

TokenDocs(K) == {d \in Docs : <<"tokens", d>> \in K}
WholeIndex(K) == {d \in Docs : {<<"tokens", d>>, <<"chunks", d>>} \subseteq K}

\* BM25Okapi gives no word a weight above zero in a corpus of one or two passages.
Scorable == IF NumPassages >= 3 THEN Docs ELSE {}

\* One call of SCAN, by the request r.  With the call that answers cursor 0 every key
\* has been returned that was there since the first; of those that came or went in
\* between it returns some, and any key it may return again.  An error ends the
\* keyword search without a result.  No filter: every department is searched.
ScanCall(q, r) ==
    \/ \E batch \in SeqOf(TokenDocs(keys), MaxScanned - Len(r.pending)) :
         LET found == r.pending \o batch
         IN  \/ Become(q, [r EXCEPT !.pc = "scanning", !.pending = found])
             \/ /\ TokenDocs(r.always) \subseteq {found[i] : i \in DOMAIN found}
                /\ Become(q, [r EXCEPT !.pc = "tokens", !.pending = found])
    \/ /\ "redis" \in Faults
       /\ Become(q, [r EXCEPT !.pc = "tokens", !.pending = <<>>, !.always = {}])

Scan(q) ==
    /\ \/ /\ run[q].pc = "scan"
          /\ \E relevant \in SUBSET Scorable :
               ScanCall(q, [run[q] EXCEPT !.relevant = relevant, !.always = keys])
       \/ run[q].pc = "scanning" /\ ScanCall(q, run[q])
    /\ UNCHANGED <<indexVars, cache>>

\* An error while one document is read skips that document.
SkipDoc(q) ==
    "redis" \in Faults /\
    Become(q, [run[q] EXCEPT !.pc = "tokens", !.pending = Tail(@), !.tokens = FALSE,
                             !.always = @ \ ({"tokens", "chunks"} \X {Head(run[q].pending)})])

GetTokens(q) ==
    /\ run[q].pc = "tokens"
    /\ run[q].pending # <<>>
    /\ \/ Become(q, [run[q] EXCEPT
            !.pc = "chunks", !.tokens = <<"tokens", Head(run[q].pending)>> \in keys])
       \/ SkipDoc(q)
    /\ UNCHANGED <<indexVars, cache>>

\* The passages with a score above zero, the best first.
Hits(q, d) ==
    IF d \in run[q].relevant
    THEN {[i \in DOMAIN f |-> ResultOf("bm25", d, f[i])] :
            f \in UNION {Orders(S, TopKBm25) : S \in (SUBSET Passages) \ {{}}}}
    ELSE {<<>>}

\* Mutant: a document without its pair of keys ends the search.
GetChunks_Breaks(q) ==
    LET d == Head(run[q].pending)
    IN  /\ run[q].pc = "chunks"
        /\ \/ /\ run[q].tokens /\ <<"chunks", d>> \in keys
              /\ \E hits \in Hits(q, d) : Become(q, [run[q] EXCEPT
                   !.pc = "tokens", !.pending = Tail(@), !.tokens = FALSE,
                   !.keyword = @ \o hits])
           \/ /\ ~run[q].tokens \/ <<"chunks", d>> \notin keys
              /\ Become(q, [run[q] EXCEPT !.pc = "tokens", !.pending = <<>>, !.tokens = FALSE])
           \/ SkipDoc(q)
        /\ UNCHANGED <<indexVars, cache>>

GetChunks(q) ==
    LET d == Head(run[q].pending)
    IN  /\ run[q].pc = "chunks"
        /\ \/ /\ run[q].tokens /\ <<"chunks", d>> \in keys
              /\ \E hits \in Hits(q, d) : Become(q, [run[q] EXCEPT
                   !.pc = "tokens", !.pending = Tail(@), !.tokens = FALSE,
                   !.keyword = @ \o hits])
           \/ /\ ~run[q].tokens \/ <<"chunks", d>> \notin keys
              /\ Become(q, [run[q] EXCEPT !.pc = "tokens", !.pending = Tail(@), !.tokens = FALSE])
           \/ SkipDoc(q)
        /\ UNCHANGED <<indexVars, cache>>

EndOfScan(q) ==
    /\ run[q].pc = "tokens"
    /\ run[q].pending = <<>>
    /\ Become(q, [run[q] EXCEPT !.pc = "rank"])
    /\ UNCHANGED <<indexVars, cache>>

Rank(q) ==
    /\ run[q].pc = "rank"
    /\ Become(q, [run[q] EXCEPT
         !.pc = "rerank", !.relevant = {}, !.always = {},
         !.prompt = Ranked(run[q].vector, run[q].keyword, TopK)])
    /\ UNCHANGED <<indexVars, cache>>

\* Here the engine looks at final_k for the first time.
Rerank(q) ==
    LET ranked == run[q].prompt
    IN  /\ run[q].pc = "rerank"
        /\ \E finalK \in FinalKs, loaded \in BOOLEAN, relevance \in [DOMAIN ranked -> Relevances] :
             Become(q, [run[q] EXCEPT
               !.pc = "generate", !.vector = <<>>, !.keyword = <<>>,
               !.prompt = Reranked(ranked, finalK, loaded, relevance)])
        /\ UNCHANGED <<indexVars, cache>>

Generate(q) ==
    /\ run[q].pc = "generate"
    /\ LoopFree(q)
    /\ \/ Become(q, [run[q] EXCEPT
            !.pc = "log", !.sources = SourcesOf(run[q].prompt), !.offList = {}])
       \/ "ollama" \in Faults /\ Become(q, [run[q] EXCEPT !.pc = "failed"])
    /\ UNCHANGED <<indexVars, cache>>

\* _log_query swallows its errors, and nobody reads the row here.
Log(q) ==
    /\ run[q].pc = "log"
    /\ LoopFree(q)
    /\ Become(q, [run[q] EXCEPT !.pc = "store", !.prompt = <<>>, !.sources = <<>>])
    /\ UNCHANGED <<indexVars, cache>>

\* If setex raises, the answer is lost as well; the key may have been set.
Store(q) ==
    LET stored == [cache EXCEPT ![run[q].scope] =
                     [left |-> CacheTTL, age |-> run[q].age]]
    IN  /\ run[q].pc = "store"
        /\ LoopFree(q)
        /\ \/ cache' = stored /\ Become(q, [run[q] EXCEPT !.pc = "answered"])
           \/ /\ "redis" \in Faults
              /\ cache' \in {cache, stored}
              /\ Become(q, [run[q] EXCEPT !.pc = "failed"])
        /\ UNCHANGED indexVars

Leave(q) ==
    /\ run[q].pc \in {"answered", "failed"}
    /\ Become(q, Idle)
    /\ UNCHANGED <<indexVars, cache>>

QueryStep(q) ==
    \/ Ask(q)
    \/ Embed(q)
    \/ VectorSearch(q)
    \/ Scan(q)
    \/ GetTokens(q)
    \/ GetChunks(q)
    \/ EndOfScan(q)
    \/ Rank(q)
    \/ Rerank(q)
    \/ Generate(q)
    \/ Log(q)
    \/ Store(q)
    \/ Leave(q)

--------------------------------------------------------------------------
\* The others, and time

\* always follows the keys a run is reading.
OthersStep ==
    /\ IndexStep
    /\ run' = [q \in Runs |->
         IF run[q].pc \in Reading THEN [run[q] EXCEPT !.always = @ \cap keys']
         ELSE run[q]]
    /\ UNCHANGED cache

Active(q) == run[q].pc \in Waiting \cup Searching

Older(entry) ==
    IF entry.left <= 1 THEN NoEntry
    ELSE [entry EXCEPT !.left = @ - 1, !.age = @ + 1]

Tick ==
    /\ \A q \in Runs : run[q].pc \notin {"answered", "failed"}
    /\ \A q \in Runs : Active(q) => run[q].age < MaxRun
    /\ run' = [q \in Runs |-> IF Active(q) THEN [run[q] EXCEPT !.age = @ + 1] ELSE run[q]]
    /\ cache' = [s \in Scopes |-> Older(cache[s])]
    /\ UNCHANGED indexVars

Next ==
    \/ \E q \in Runs : QueryStep(q)
    \/ OthersStep
    \/ Tick

Spec == Init /\ [][Next]_vars

--------------------------------------------------------------------------
\* Properties

\* The result of the fusion, written out over lists with copies, ties and
\* passages both searches found, is the ranking by the sum of the shares
\* (hybrid_search.py:65-69, 196-228).
FusedIsRanking ==
    \A q \in Runs : run[q].pc = "rerank" =>
        IsRanking(run[q].prompt, run[q].vector, run[q].keyword, TopK)

\* A keyword search lists the keys by several calls of SCAN and reads them one by
\* one, while workers write and delete them and Redis evicts them: no document is
\* missed that has a passage which scores above zero, whose pair of keys was there
\* all the time and could be read (hybrid_search.py:43-55, 154-191).
KeywordSearchMissesNothing ==
    \A q \in Runs : run[q].pc = "rank" =>
        WholeIndex(run[q].always) \cap run[q].relevant
          \subseteq {run[q].keyword[i].doc : i \in DOMAIN run[q].keyword}

\* An answer names the place of every passage it was made from, once, with the
\* score of the first of them: what the cross-encoder gave it, or, when nothing
\* was reranked, the cosine or BM25 score of the search that found it first
\* (prompt_builder.py:69-96, reranker.py:47-85, hybrid_search.py:107, 183, 212).
PassagesAreCited ==
    \A q \in Runs : run[q].pc = "log" => CitesPrompt(run[q].sources, run[q].prompt)

\* What was wrong when an answer was made, a service that did not answer, a
\* document since deleted, is out of all answers one time to live and one run
\* later, however many hits and repetitions of the question there are
\* (engine.py:222-230, 343).
AnswersAge ==
    \A q \in Runs : run[q].pc = "answered" => run[q].age < CacheTTL + MaxRun

--------------------------------------------------------------------------
\* What the comments of the repository say

\* "Delete a document and its vectors" (api-gateway/routers/documents.py:222):
\* once the DELETE was answered, no search that starts finds the document.
AnswersOmitDeleted ==
    \A q \in Runs : run[q].pc = "generate" =>
        \A i \in DOMAIN run[q].prompt : run[q].prompt[i].result.doc \notin run[q].offList
=============================================================================
