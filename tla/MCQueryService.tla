--------------------------- MODULE MCQueryService ---------------------------
(* Runs of two kinds.  Some begin with indexes that workers then change.    *)
(* Others begin at the fusion, with any two lists of at most MaxList results *)
(* of the vector search and as many of the keyword search: longer lists,    *)
(* with more copies and ties, than small indexes give.                      *)
EXTENDS QueryService, TLC

CONSTANTS
    MaxList,        \* bound: results of a search a run begins with
    FusedPassages   \* passages they are of

Results(search) == {ResultOf(search, d, n) : d \in Docs, n \in FusedPassages}

\* Points have copies, and a document may be read more than once.
VectorLists == SeqOf(Results("cosine"), MaxList)
KeywordLists == SeqOf(Results("bm25"), MaxList)

\* Nothing is left to happen to the indexes.
Quiet == points = {} /\ keys = {} /\ hidden = Docs /\ events = MaxEvents

FusionInit ==
    /\ Quiet
    /\ writer = [d \in Docs |-> "idle"]
    /\ task = NoTask
    /\ \E v \in VectorLists, w \in KeywordLists, s \in Scopes :
         run = [q \in Runs |->
                  IF q = CHOOSE r \in Runs : TRUE
                  THEN [Idle EXCEPT !.pc = "rank", !.scope = s, !.vector = v, !.keyword = w]
                  ELSE Idle]
    /\ cache = [s \in Scopes |-> NoEntry]

\* Steps that read and change nothing but the run that takes them commute with
\* all others, and go first here.
Local(q) ==
    \/ run[q].pc \in {"embed", "search", "rank", "rerank", "answered", "failed"}
    \/ run[q].pc = "tokens" /\ run[q].pending = <<>>

LocalFirst == (\E q \in Runs : Local(q)) => \E q \in Runs : Local(q) /\ QueryStep(q)

\* The keyword search does not look at what the vector search found, at the clock or
\* at the passages it finds, and what follows it does not look at the indexes: a run
\* of the first kind asks before anything happens to them and ends with its keyword
\* list, of first passages, without vector results; time passes in those of the
\* second kind.
FirstKind(q) ==
    /\ run[q].pc \notin {"rank", "rerank", "generate", "log", "store"}
    /\ run[q].vector = <<>>

FirstPassages(q) == \A i \in DOMAIN run[q].keyword : run[q].keyword[i].n = 1

MCNext ==
    /\ Quiet \/ \A q \in Runs : FirstKind(q)
    /\ Next
    /\ Quiet \/ \A q \in Runs : FirstPassages(q)'
    /\ LocalFirst
    /\ Tick => Quiet
    /\ (\E q \in Runs : Ask(q)) => Quiet \/ (events = 0 /\ hidden = {})

MCSpec == (Init \/ FusionInit) /\ [][MCNext]_vars

Symmetry == Permutations(Docs)
=============================================================================
