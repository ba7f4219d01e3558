---------------------------- MODULE HybridSearch ----------------------------
(* What the query engine does with the two lists of passages it finds:      *)
(* reciprocal rank fusion (query-engine/hybrid_search.py), the choice of    *)
(* the reranker (reranker.py) and the sources of the answer                 *)
(* (prompt_builder.py).  A result is [doc, n, key, place, score]: the       *)
(* passage n of document doc, what _result_key makes of it (the beginning   *)
(* of its text, file name and page), what extract_sources tells apart (file *)
(* name, page and section) and the number its search gave it, which the     *)
(* fusion does not look at: it keeps one of its own, rrf (rrf_score).       *)
(*                                                                          *)
(* Definitions marked "Mutant" are not part of the model: each is a wrong   *)
(* form of the definition after it that one of the properties rejects.      *)
EXTENDS Naturals, Sequences, SequencesExt

CONSTANTS
    RRF_K,          \* 60
    MaxRank         \* bound: the longest list of results, for Scale

ASSUME FusionAssumption == RRF_K \in Nat /\ MaxRank \in Nat \ {0}

\* 1.0 / (RRF_K + rank + 1) with the rank counted from 0, here from 1, and in
\* units small enough to make every share up to rank MaxRank a whole number.
Product[rank \in 0..MaxRank] ==
    IF rank = 0 THEN 1 ELSE Product[rank - 1] * (RRF_K + rank)

Scale == Product[MaxRank]

Share(rank) == Scale \div (RRF_K + rank)

Take(list, k) == SubSeq(list, 1, IF k < Len(list) THEN k ELSE Len(list))

\* Mutant: a passage both searches found keeps the score of the first.
AddShare_FirstOnly(merged, result, rank) ==
    IF \E i \in DOMAIN merged : merged[i].key = result.key THEN merged
    ELSE Append(merged, [result |-> result, key |-> result.key, rrf |-> Share(rank)])

\* One iteration of the loops of _reciprocal_rank_fusion.  A dict keeps its keys
\* in the order of their insertion.
AddShare(merged, result, rank) ==
    IF \E i \in DOMAIN merged : merged[i].key = result.key
    THEN [i \in DOMAIN merged |->
            IF merged[i].key = result.key
            THEN [merged[i] EXCEPT !.rrf = @ + Share(rank)]
            ELSE merged[i]]
    ELSE Append(merged, [result |-> result, key |-> result.key, rrf |-> Share(rank)])

\* The dict after each iteration of the loop over a list, and at its end.
Merging(merged, list) ==
    LET after[rank \in 0..Len(list)] ==
          IF rank = 0 THEN merged ELSE AddShare(after[rank - 1], list[rank], rank)
    IN  after

AddAll(merged, list) == Merging(merged, list)[Len(list)]

Fuse(vector, keyword) == AddAll(AddAll(<<>>, vector), keyword)

\* list.sort(key, reverse=True): the highest first, equal ones in their order.
Sorted(list, score) ==
    LET before(i, j) == \/ score[i] > score[j]
                        \/ score[i] = score[j] /\ i < j
        rank(i) == Cardinality({j \in DOMAIN list : before(j, i)}) + 1
    IN  [k \in DOMAIN list |-> list[CHOOSE i \in DOMAIN list : rank(i) = k]]

\* The end of HybridSearch.search.
Ranked(vector, keyword, topK) ==
    LET merged == Fuse(vector, keyword)
    IN  Take(Sorted(merged, [i \in DOMAIN merged |-> merged[i].rrf]), topK)

\* The number of the cross-encoder takes the place of the one of the search.
Rescored(chunk, relevance) == [chunk EXCEPT !.result.score = <<"relevance", relevance>>]

\* Without a model the results keep their order and their scores; the engine calls
\* the reranker only when it has more than finalK of them.
Reranked(ranked, finalK, loaded, relevance) ==
    IF Len(ranked) <= finalK THEN ranked
    ELSE IF ~loaded THEN Take(ranked, finalK)
    ELSE Take(Sorted([i \in DOMAIN ranked |-> Rescored(ranked[i], relevance[i])],
                     relevance), finalK)

\* Mutant: a place is named again for every passage but the one before it.
AddSource_Neighbours(sources, chunk) ==
    IF sources # <<>> /\ Last(sources).place = chunk.result.place THEN sources
    ELSE Append(sources, [place |-> chunk.result.place, score |-> chunk.result.score])

AddSource(sources, chunk) ==
    IF \E i \in DOMAIN sources : sources[i].place = chunk.result.place THEN sources
    ELSE Append(sources, [place |-> chunk.result.place, score |-> chunk.result.score])

\* The sources after each iteration of extract_sources.
Citing(prompt) ==
    LET after[i \in 0..Len(prompt)] ==
          IF i = 0 THEN <<>> ELSE AddSource(after[i - 1], prompt[i])
    IN  after

SourcesOf(prompt) == Citing(prompt)[Len(prompt)]

--------------------------------------------------------------------------
\* Reciprocal rank fusion as the papers define it: the score of a key is the
\* sum of its shares, and a key is represented by the first result that has it.

Occurrences(list, key) == {rank \in DOMAIN list : list[rank].key = key}

\* The sum of the shares a key has up to each rank, and of all of them.
Sums(list, key) ==
    LET sum[rank \in 0..Len(list)] ==
          IF rank = 0 THEN 0
          ELSE sum[rank - 1] + (IF rank \in Occurrences(list, key) THEN Share(rank) ELSE 0)
    IN  sum

Shares(list, key) == Sums(list, key)[Len(list)]

ScoreOf(vector, keyword, key) == Shares(vector, key) + Shares(keyword, key)

KeysOf(list) == {list[rank].key : rank \in DOMAIN list}

First(vector, keyword, key) ==
    LET all == vector \o keyword
    IN  Min(Occurrences(all, key))

\* x comes before y in a ranking of the two lists.
Precedes(vector, keyword, x, y) ==
    \/ ScoreOf(vector, keyword, x) > ScoreOf(vector, keyword, y)
    \/ /\ ScoreOf(vector, keyword, x) = ScoreOf(vector, keyword, y)
       /\ First(vector, keyword, x) < First(vector, keyword, y)

IsRanking(ranked, vector, keyword, topK) ==
    LET keys == KeysOf(vector) \cup KeysOf(keyword)
        shown == KeysOf(ranked)
    IN  /\ Len(ranked) = (IF topK < Cardinality(keys) THEN topK ELSE Cardinality(keys))
        /\ Cardinality(shown) = Len(ranked)
        /\ \A i \in DOMAIN ranked :
             /\ ranked[i].rrf = ScoreOf(vector, keyword, ranked[i].key)
             /\ ranked[i].result = (vector \o keyword)[First(vector, keyword, ranked[i].key)]
             /\ \A j \in 1..(i - 1) : Precedes(vector, keyword, ranked[j].key, ranked[i].key)
             /\ \A x \in keys \ shown : Precedes(vector, keyword, ranked[i].key, x)

\* Every passage of the prompt has exactly one source, and a source has the score
\* of the first passage from its place.
CitesPrompt(sources, prompt) ==
    /\ \A i \in DOMAIN prompt :
         Cardinality({k \in DOMAIN sources : sources[k].place = prompt[i].result.place}) = 1
    /\ \A k \in DOMAIN sources : \E i \in DOMAIN prompt :
         /\ sources[k] = [place |-> prompt[i].result.place, score |-> prompt[i].result.score]
         /\ \A j \in 1..(i - 1) : prompt[j].result.place # sources[k].place
=============================================================================
