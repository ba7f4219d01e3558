------------------------ MODULE MCIngestionPipeline ------------------------
(* Instances of IngestionPipeline for TLC.                                  *)
EXTENDS IngestionPipeline

Busy == {w \in Workers : worker[w].pc # "idle"}

\* Bounds: a document meets one kind of trouble, after which the processes
\* take turns; a chain that is broken is not multiplied by a crash as well, nor
\* a failing embedding.
Narrow ==
    /\ \A d \in Docs :
         /\ trouble'[d] = trouble[d] \/ trouble[d] = {}
         /\ crashes' > 0 => {"chain", "vectors"} \cap trouble'[d] = {}
    /\ (\A d \in Docs : trouble'[d] = {}) \/ Cardinality(Busy') <= 1

\* A file that can be read and a time limit that strikes while it is embedded.
SlowEmbedding ==
    /\ Init
    /\ \A d \in Docs : readable[d]
    /\ [][Next /\ \A w \in Workers : worker'[w].soft =>
                     worker[w].soft \/ worker[w].pc = "embed"]_vars
    /\ Fairness

NarrowSpec == Init /\ [][Next /\ Narrow]_vars /\ Fairness
=============================================================================
