-------------------------- MODULE DocumentLifecycle --------------------------
(* What ingestion promises to somebody who watches the status column: a     *)
(* document is queued once, leaves "queued" sooner or later, may fail       *)
(* several times, is "indexed" only after all of it was stored, and stays   *)
(* indexed, with three exceptions.  If the queue delivered a message twice, *)
(* another run may still report a failure.  If the upload is refused with a *)
(* 500, that very answer marks it failed, even after it was indexed; a run  *)
(* that is under way may index it afterwards.  And of a document whose      *)
(* chain of attempts was broken, by a statement that raised, a lost         *)
(* message, a time limit or the death of the gateway, nothing but the order *)
(* of storing and indexing is promised.  IngestionPipeline is the mechanism.*)
CONSTANT Docs

VARIABLES
    status,         \* status[d]: the column documents.status
    stored,         \* stored[d]: every passage of d is in the vector store
    refused,        \* refused[d]: the upload of d was answered with a 500
    broken,         \* broken[d]: the chain of attempts of d was broken
    redelivered     \* some message was delivered a second time

vars == <<status, stored, refused, broken, redelivered>>

Init ==
    /\ status = [d \in Docs |-> "none"]
    /\ stored = [d \in Docs |-> FALSE]
    /\ refused = [d \in Docs |-> FALSE]
    /\ broken = [d \in Docs |-> FALSE]
    /\ redelivered = FALSE

\* Whatever happens to a document may at the same time break its chain.
MayBreak(d) == broken' \in {broken, [broken EXCEPT ![d] = TRUE]}

Become(d, new) ==
    /\ status' = [status EXCEPT ![d] = new]
    /\ MayBreak(d)
    /\ UNCHANGED <<stored, refused, redelivered>>

Accept(d) == status[d] = "none" /\ Become(d, "queued")

Store(d) ==
    /\ status[d] # "none"
    /\ stored' = [stored EXCEPT ![d] = TRUE]
    /\ MayBreak(d)
    /\ UNCHANGED <<status, refused, redelivered>>

Fail(d) == status[d] \in {"queued", "failed"} /\ Become(d, "failed")

Index(d) ==
    /\ status[d] \in {"queued", "failed"}
    /\ stored[d]
    /\ Become(d, "indexed")

Relapse(d) ==
    /\ redelivered \/ broken[d]
    /\ status[d] = "indexed"
    /\ Become(d, "failed")

\* Once, and the status follows unless the UPDATE raises.
Refuse(d) ==
    /\ status[d] # "none" /\ ~refused[d]
    /\ refused' = [refused EXCEPT ![d] = TRUE]
    /\ \/ status' = [status EXCEPT ![d] = "failed"] /\ UNCHANGED broken
       \/ broken' = [broken EXCEPT ![d] = TRUE] /\ UNCHANGED status
    /\ UNCHANGED <<stored, redelivered>>

Break(d) == status[d] # "none" /\ Become(d, status[d])

Redeliver == redelivered' = TRUE /\ UNCHANGED <<status, stored, refused, broken>>

Settle(d) ==
    /\ status[d] = "queued" /\ ~broken[d]
    /\ Fail(d) \/ Index(d) \/ Refuse(d)

Next ==
    \/ \E d \in Docs : \/ Accept(d) \/ Store(d) \/ Fail(d) \/ Index(d)
                      \/ Relapse(d) \/ Refuse(d) \/ Break(d)
    \/ Redeliver

Spec == Init /\ [][Next]_vars /\ \A d \in Docs : WF_vars(Settle(d))
=============================================================================
