---------------------- MODULE IngestionPipelineProofs ----------------------
(* Theorems of IngestionPipeline for every number of documents, worker      *)
(* processes, batches and retries, and every choice of faults.              *)
EXTENDS IngestionPipeline, FiniteSetTheorems, TLAPS

--------------------------------------------------------------------------
\* Types of the parts of the state that several actions update the same way

\* A run that moves on keeps the types of the workers.
LEMMA RunUpdate ==
    ASSUME WorkerTypeOK, NEW w \in Workers,
           NEW r \in Run, r.pc # "idle" => r.doc \in Docs,
           worker' = [worker EXCEPT ![w] = r]
    PROVE  WorkerTypeOK'
BY DEF WorkerTypeOK

\* Changing only where a run is keeps the types of the workers.
LEMMA GotoTypes ==
    ASSUME WorkerTypeOK, NEW w \in Workers, worker[w].pc # "idle",
           NEW pc \in RunPC, Goto(w, pc)
    PROVE  WorkerTypeOK'
<1> DEFINE r == [worker[w] EXCEPT !.pc = pc]
<1>1. worker[w] \in Run /\ worker[w].doc \in Docs
  BY DEF WorkerTypeOK
<1>2. r \in Run /\ r.doc \in Docs
  BY <1>1 DEF Run
<1>3. worker' = [worker EXCEPT ![w] = r]
  BY DEF Goto
<1> QED BY <1>2, <1>3, RunUpdate

\* A process that drops its run keeps the types of the workers.
LEMMA IdleTypes == Idle \in Run
BY PipelineAssumption DEF Idle, Run, RunPC, Attempts, Batches

\* Publishing a message keeps the type of the queue.
LEMMA PublishTypes ==
    ASSUME queue \in [Docs -> [Attempts -> Nat]],
           NEW d \in Docs, NEW k \in Attempts, Publish(d, k)
    PROVE  queue' \in [Docs -> [Attempts -> Nat]]
<1> DEFINE q == [queue[d] EXCEPT ![k] = @ + 1]
<1>1. q \in [Attempts -> Nat]
  OBVIOUS
<1>2. queue' = [queue EXCEPT ![d] = q]
  BY DEF Publish
<1> QED BY <1>1, <1>2

\* Recording a failure keeps the types of the table.
LEMMA RecordFailureTypes ==
    ASSUME TableTypeOK, NEW d \in Docs, RecordFailure(d)
    PROVE  TableTypeOK'
BY DEF TableTypeOK, RecordFailure

\* A batch that is stored adds one copy and keeps the types of the stores.
LEMMA StoreBatchTypes ==
    ASSUME StoreTypeOK, NEW d \in Docs, NEW b \in Batches, NEW zero,
           StoreBatch(d, b, zero), UNCHANGED <<bm25, minio>>
    PROVE  /\ StoreTypeOK'
           /\ points'[d][b] > 0
           /\ \A e \in Docs, c \in Batches : points'[e][c] >= points[e][c]
<1>1. [points[d] EXCEPT ![b] = @ + 1] \in [Batches -> Nat]
  BY DEF StoreTypeOK
<1>2. points' = [points EXCEPT ![d] = [points[d] EXCEPT ![b] = @ + 1]]
  BY DEF StoreBatch
<1>3. points' \in [Docs -> [Batches -> Nat]]
  BY <1>1, <1>2 DEF StoreTypeOK
<1>4. embedded' \in [Docs -> SUBSET Batches]
  BY DEF StoreBatch, StoreTypeOK
<1>5. points'[d][b] > 0
  BY <1>2 DEF StoreTypeOK
<1>6. \A e \in Docs, c \in Batches : points'[e][c] >= points[e][c]
  BY <1>2 DEF StoreTypeOK
<1> QED BY <1>3, <1>4, <1>5, <1>6 DEF StoreTypeOK

\* What a step holds against one document leaves the others alone.
LEMMA TroubleOfOne ==
    ASSUME TypeOK, NEW d \in Docs, NEW t \in SUBSET Troubles, Trouble(d, t)
    PROVE  /\ trouble' \in [Docs -> SUBSET Troubles]
           /\ trouble'[d] = trouble[d] \cup t
           /\ \A e \in Docs : e # d => trouble'[e] = trouble[e]
BY DEF Trouble, TypeOK

\* A step holds something only against the document it is about, and what it
\* holds stays.
TroubleAbout(d) ==
    /\ trouble' \in [Docs -> SUBSET Troubles]
    /\ trouble[d] \subseteq trouble'[d]
    /\ \A e \in Docs : e # d => trouble'[e] = trouble[e]

\* The steps of the gateway and of Redis.
LEMMA TroubleGateway ==
    ASSUME TypeOK, NEW d \in Docs, GatewayStep(d) \/ GatewayDies(d) \/ Evict(d)
    PROVE  TroubleAbout(d)
<1>1. CASE UNCHANGED trouble
  BY <1>1 DEF TypeOK, TroubleAbout
<1>2. CASE \E t \in SUBSET Troubles : Trouble(d, t)
  BY <1>2, TroubleOfOne DEF TroubleAbout
<1>3. CASE GatewayStep(d) \/ GatewayDies(d)
  <2>1. UNCHANGED trouble \/ Trouble(d, {"chain"})
    BY <1>3 DEF GatewayStep, InsertRow, SaveFile, SendTask, InsertJob, ReportError, GatewayDies
  <2>2. {"chain"} \in SUBSET Troubles
    BY DEF Troubles
  <2> QED BY <1>1, <1>2, <2>1, <2>2
<1>4. CASE Evict(d)
  <2>1. PICK key \in bm25[d] : Trouble(d, {key})
    BY <1>4 DEF Evict
  <2>2. {key} \in SUBSET Troubles
    BY <2>1 DEF Troubles, TypeOK, StoreTypeOK
  <2> QED BY <1>2, <2>1, <2>2
<1> QED BY <1>3, <1>4

\* The steps of a run.
LEMMA TroubleWorker ==
    ASSUME TypeOK, NEW w \in Workers, WorkerStep(w) \/ SoftLimit(w) \/ HardLimit(w),
           worker[w].pc # "idle"
    PROVE  worker[w].doc \in Docs /\ TroubleAbout(worker[w].doc)
<1>d. worker[w].doc \in Docs
  BY DEF TypeOK, WorkerTypeOK
<1>1. CASE UNCHANGED trouble
  BY <1>d, <1>1 DEF TypeOK, TroubleAbout
<1>2. CASE \E t \in SUBSET Troubles : Trouble(worker[w].doc, t)
  BY <1>d, <1>2, TroubleOfOne DEF TroubleAbout
<1>3. /\ \A zero : Blanked(zero) \in SUBSET Troubles
      /\ \A key : Skipped(key) \in SUBSET Troubles
      /\ {"original"} \in SUBSET Troubles /\ {"chain"} \in SUBSET Troubles
      /\ {} \in SUBSET Troubles
  BY DEF Blanked, Skipped, Troubles
<1>4. ASSUME NEW zero, NEW pc
      PROVE  {"chain"} \cup Missed(pc, zero) \in SUBSET Troubles
  <2>1. CASE pc \in {"embed", "tokens", "chunks", "minio"}
    BY <1>3, <2>1 DEF Missed
  <2>2. CASE pc \notin {"embed", "tokens", "chunks", "minio"}
    <3>1. Missed(pc, zero) = {}
      BY <2>2 DEF Missed
    <3> QED BY <1>3, <3>1
  <2> QED BY <2>1, <2>2
<1>5. CASE WorkerStep(w) \/ HardLimit(w)
  <2>1. CASE Embed(w)
    BY <1>2, <1>3, <2>1 DEF Embed
  <2>2. CASE BuildBm25(w)
    BY <1>1, <1>2, <1>3, <2>2 DEF BuildBm25, SetBm25Key
  <2>3. CASE WorkerStep(w) /\ ~Embed(w) /\ ~BuildBm25(w)
    <3>1. \/ UNCHANGED trouble
          \/ Trouble(worker[w].doc, {"original"})
          \/ Trouble(worker[w].doc, {"chain"})
      BY <2>3 DEF WorkerStep, TakeMessage, ParseAndChunk, UpsertBatch, UploadOriginal,
         MarkIndexed, MarkFailed, SendAlert, Retry, Acknowledge
    <3> QED BY <1>1, <1>2, <1>3, <3>1
  <2>4. CASE HardLimit(w)
    BY <1>1, <2>4 DEF HardLimit
  <2> QED BY <1>5, <2>1, <2>2, <2>3, <2>4
<1>6. CASE SoftLimit(w)
  <2>1. \E zero : Trouble(worker[w].doc, {"chain"} \cup Missed(worker[w].pc, zero))
    BY <1>6 DEF SoftLimit
  <2> QED BY <1>2, <1>4, <2>1
<1> QED BY <1>5, <1>6

\* Every step keeps the type of trouble.
LEMMA TroubleTypes ==
    ASSUME TypeOK, [Next]_vars
    PROVE  trouble' \in [Docs -> SUBSET Troubles]
<1>1. CASE UNCHANGED trouble
  BY <1>1 DEF TypeOK
<1>2. ASSUME NEW d \in Docs, GatewayStep(d) \/ GatewayDies(d) \/ Evict(d)
      PROVE  trouble' \in [Docs -> SUBSET Troubles]
  BY <1>2, TroubleGateway DEF TroubleAbout
<1>3. ASSUME NEW w \in Workers, WorkerStep(w) \/ SoftLimit(w) \/ HardLimit(w)
      PROVE  trouble' \in [Docs -> SUBSET Troubles]
  <2>1. CASE worker[w].pc = "idle"
    <3>1. UNCHANGED trouble
      BY <1>3, <2>1 DEF WorkerStep, TakeMessage, ParseAndChunk, Embed, UpsertBatch,
         BuildBm25, SetBm25Key, UploadOriginal, MarkIndexed, MarkFailed, SendAlert, Retry,
         Acknowledge, SoftLimit, HardLimit, Body, Handler
    <3> QED BY <1>1, <3>1
  <2>2. CASE worker[w].pc # "idle"
    BY <1>3, <2>2, TroubleWorker DEF TroubleAbout
  <2> QED BY <2>1, <2>2
<1>4. CASE CrashContainer
  BY <1>1, <1>4 DEF CrashContainer
<1> QED BY <1>1, <1>2, <1>3, <1>4 DEF Next, vars

\* The pipeline begins well typed.
LEMMA TypeOKInit == Init => TypeOK
<1> SUFFICES ASSUME Init PROVE TypeOK
  OBVIOUS
<1>1. TableTypeOK /\ StoreTypeOK
  BY DEF Init, TableTypeOK, StoreTypeOK
<1>2. WorkerTypeOK
  BY IdleTypes DEF Init, WorkerTypeOK, Idle
<1>3. crashes \in 0..MaxCrashes
  BY PipelineAssumption DEF Init
<1> QED BY <1>1, <1>2, <1>3 DEF Init, TypeOK, GatewayPC

\* The steps of the gateway keep the types.
LEMMA TypeOKGateway ==
    ASSUME TypeOK, NEW d \in Docs, GatewayStep(d) \/ GatewayDies(d)
    PROVE  TypeOK'
<1>u. trouble' \in [Docs -> SUBSET Troubles]
  BY TroubleGateway DEF TroubleAbout
<1> USE PipelineAssumption DEF TypeOK, Answer, stores, table
<1>0. UNCHANGED stores => StoreTypeOK'
  BY DEF StoreTypeOK
<1>1. UNCHANGED table => TableTypeOK'
  BY DEF TableTypeOK
<1>2. UNCHANGED worker => WorkerTypeOK'
  BY DEF WorkerTypeOK
<1>3. CASE InsertRow(d)
  BY <1>0, <1>2, <1>3 DEF InsertRow, GatewayPC, TableTypeOK
<1>4. CASE SaveFile(d)
  BY <1>0, <1>1, <1>2, <1>4 DEF SaveFile, GatewayPC
<1>5. CASE SendTask(d)
  <2>1. 0 \in Attempts
    BY DEF Attempts
  <2>2. Publish(d, 0) \/ UNCHANGED queue
    BY <1>5 DEF SendTask
  <2>3. queue' \in [Docs -> [Attempts -> Nat]]
    BY <2>1, <2>2, PublishTypes
  <2> QED BY <2>3, <1>0, <1>1, <1>2, <1>5 DEF SendTask, GatewayPC
<1>6. CASE InsertJob(d)
  BY <1>0, <1>1, <1>2, <1>6 DEF InsertJob, GatewayPC
<1>7. CASE ReportError(d)
  BY <1>u, <1>0, <1>2, <1>7 DEF ReportError, GatewayPC, TableTypeOK
<1>8. CASE GatewayDies(d)
  BY <1>u, <1>0, <1>1, <1>2, <1>8 DEF GatewayDies, GatewayPC
<1> QED BY <1>3, <1>4, <1>5, <1>6, <1>7, <1>8 DEF GatewayStep

\* The steps of a run keep the types.
LEMMA TypeOKWorker ==
    ASSUME TypeOK, NEW w \in Workers, WorkerStep(w)
    PROVE  TypeOK'
<1>u. trouble' \in [Docs -> SUBSET Troubles]
  BY TroubleTypes DEF Next
<1> USE PipelineAssumption DEF TypeOK, stores, table
<1>0. UNCHANGED stores => StoreTypeOK'
  BY DEF StoreTypeOK
<1>1. UNCHANGED table => TableTypeOK'
  BY DEF TableTypeOK
<1>2. worker[w] \in Run /\ (worker[w].pc # "idle" => worker[w].doc \in Docs)
  BY DEF WorkerTypeOK
<1>3. CASE TakeMessage(w)
  <2>1. PICK d \in Docs, k \in Attempts :
          /\ queue[d][k] > 0
          /\ queue' = [queue EXCEPT ![d][k] = @ - 1]
          /\ worker' = [worker EXCEPT
               ![w] = [Idle EXCEPT !.pc = "parse", !.doc = d, !.retries = k]]
          /\ runs' = [runs EXCEPT ![d] = @ + 1]
    BY <1>3 DEF TakeMessage
  <2>2. WorkerTypeOK'
    <3> DEFINE r == [Idle EXCEPT !.pc = "parse", !.doc = d, !.retries = k]
    <3>1. r \in Run /\ r.doc \in Docs
      BY IdleTypes DEF Run, RunPC, Body, Idle
    <3> QED BY <2>1, <3>1, RunUpdate
  <2>3. queue' \in [Docs -> [Attempts -> Nat]]
    <3>1. [queue[d] EXCEPT ![k] = @ - 1] \in [Attempts -> Nat]
      BY <2>1
    <3> QED BY <2>1, <3>1
  <2>4. runs' \in [Docs -> Nat]
    BY <2>1
  <2> QED BY <2>2, <2>3, <2>4, <1>0, <1>1, <1>3 DEF TakeMessage
<1>4. CASE ParseAndChunk(w)
  <2>1. PICK pc \in {"embed", "fail"} : Goto(w, pc)
    BY <1>4 DEF ParseAndChunk
  <2>2. WorkerTypeOK'
    BY <1>4, <2>1, GotoTypes DEF ParseAndChunk, RunPC, Body, Handler
  <2> QED BY <2>2, <1>0, <1>1, <1>4 DEF ParseAndChunk
<1>5. CASE Embed(w)
  <2>1. PICK zero \in SUBSET Batches :
          worker' = [worker EXCEPT ![w].pc = "upsert", ![w].blank = @ \cup zero]
    BY <1>5 DEF Embed
  <2>2. WorkerTypeOK'
    <3> DEFINE r == [worker[w] EXCEPT !.pc = "upsert", !.blank = @ \cup zero]
    <3>1. r \in Run /\ r.doc \in Docs
      BY <1>2, <1>5 DEF Embed, Run, RunPC, Body
    <3>2. worker' = [worker EXCEPT ![w] = r]
      BY <2>1
    <3> QED BY <3>1, <3>2, RunUpdate
  <2> QED BY <1>u, <2>2, <1>0, <1>1, <1>5 DEF Embed
<1>6. CASE UpsertBatch(w)
  <2> DEFINE d == worker[w].doc
             b == worker[w].batch
  <2>1. d \in Docs /\ b \in Batches
    BY <1>2, <1>6 DEF UpsertBatch
  <2>2. StoreTypeOK'
    <3>1. CASE UNCHANGED <<points, embedded>>
      BY <1>6, <3>1 DEF UpsertBatch, StoreTypeOK
    <3>2. CASE StoreBatch(d, b, b \in worker[w].blank)
      BY <1>6, <2>1, <3>2, StoreBatchTypes DEF UpsertBatch
    <3> QED BY <1>6, <3>1, <3>2 DEF UpsertBatch
  <2>3. CASE Goto(w, "fail")
    <3>1. WorkerTypeOK'
      BY <1>6, <2>3, GotoTypes DEF UpsertBatch, RunPC, Handler
    <3> QED BY <2>2, <3>1, <1>1, <1>6 DEF UpsertBatch
  <2>4. CASE worker' = [worker EXCEPT
               ![w].batch = b + 1,
               ![w].pc = IF b = NumBatches THEN "tokens" ELSE "upsert"]
    <3>1. WorkerTypeOK'
      <4> DEFINE r == [worker[w] EXCEPT
                        !.batch = b + 1,
                        !.pc = IF b = NumBatches THEN "tokens" ELSE "upsert"]
      <4>1. b + 1 \in 1..(NumBatches + 1)
        BY <2>1 DEF Batches
      <4>2. {"tokens", "upsert"} \subseteq RunPC
        BY DEF RunPC, Body
      <4>3. r \in Run /\ r.doc \in Docs
        BY <1>2, <2>1, <4>1, <4>2 DEF Run
      <4>4. worker' = [worker EXCEPT ![w] = r]
        BY <2>4
      <4>5. r.pc # "idle"
        BY <1>2 DEF Run
      <4> QED BY <4>3, <4>4, <4>5, RunUpdate
    <3> QED BY <2>2, <3>1, <1>1, <1>6 DEF UpsertBatch
  <2> QED BY <1>6, <2>3, <2>4 DEF UpsertBatch
<1>7. CASE BuildBm25(w)
  <2>1. PICK key \in {"tokens", "chunks"}, next \in {"chunks", "minio"} :
          SetBm25Key(w, key, next)
    BY <1>7 DEF BuildBm25
  <2>2. worker[w].doc \in Docs
    BY <1>2, <2>1 DEF SetBm25Key
  <2>3. PICK pc \in {"chunks", "minio"} : Goto(w, pc)
    BY <2>1 DEF SetBm25Key
  <2>4. WorkerTypeOK'
    BY <2>1, <2>3, GotoTypes DEF SetBm25Key, RunPC, Body
  <2>5. bm25' \in [Docs -> SUBSET {"tokens", "chunks"}]
    <3>1. bm25[worker[w].doc] \cup {key} \in SUBSET {"tokens", "chunks"}
      BY <2>2 DEF StoreTypeOK
    <3>2. \/ bm25' = [bm25 EXCEPT ![worker[w].doc] = @ \cup {key}]
          \/ bm25' = bm25
      BY <2>1 DEF SetBm25Key
    <3> QED BY <3>1, <3>2 DEF StoreTypeOK
  <2>6. StoreTypeOK'
    BY <2>1, <2>5 DEF SetBm25Key, StoreTypeOK
  <2> QED BY <1>u, <2>1, <2>4, <2>6, <1>1 DEF SetBm25Key
<1>8. CASE UploadOriginal(w)
  <2>1. WorkerTypeOK'
    BY <1>8, GotoTypes DEF UploadOriginal, RunPC, Body
  <2>2. StoreTypeOK'
    BY <1>2, <1>8 DEF UploadOriginal, StoreTypeOK
  <2> QED BY <1>u, <2>1, <2>2, <1>1, <1>8 DEF UploadOriginal
<1>9. CASE MarkIndexed(w)
  <2>1. PICK pc \in {"ack", "fail"} : Goto(w, pc)
    BY <1>9 DEF MarkIndexed
  <2>2. WorkerTypeOK'
    BY <1>9, <2>1, GotoTypes DEF MarkIndexed, RunPC, Handler
  <2>3. TableTypeOK'
    BY <1>2, <1>9 DEF MarkIndexed, TableTypeOK
  <2> QED BY <1>u, <2>2, <2>3, <1>0, <1>9 DEF MarkIndexed
<1>10. CASE MarkFailed(w)
  <2>1. PICK pc \in {"alert", "ack"} : Goto(w, pc)
    BY <1>10 DEF MarkFailed
  <2>2. WorkerTypeOK'
    BY <1>10, <2>1, GotoTypes DEF MarkFailed, RunPC, Handler
  <2>3. TableTypeOK'
    BY <1>1, <1>2, <1>10, RecordFailureTypes DEF MarkFailed
  <2> QED BY <1>u, <2>2, <2>3, <1>0, <1>10 DEF MarkFailed
<1>11. CASE SendAlert(w)
  <2>1. WorkerTypeOK'
    BY <1>11, GotoTypes DEF SendAlert, RunPC, Handler
  <2>2. alert' \in [Docs -> {"none", "warning", "critical"}]
    BY <1>2, <1>11 DEF SendAlert
  <2> QED BY <2>1, <2>2, <1>0, <1>1, <1>11 DEF SendAlert
<1>12. CASE Retry(w)
  <2> DEFINE next == worker[w].retries + 1
  <2>1. WorkerTypeOK'
    BY <1>12, GotoTypes DEF Retry, RunPC
  <2>2. queue' \in [Docs -> [Attempts -> Nat]]
    <3>1. CASE UNCHANGED queue
      BY <3>1
    <3>2. CASE next <= MaxRetries /\ Publish(worker[w].doc, next)
      <4>1. next \in Attempts /\ worker[w].doc \in Docs
        BY <1>2, <1>12, <3>2 DEF Retry, Run, Attempts
      <4> QED BY <3>2, <4>1, PublishTypes
    <3> QED BY <1>12, <3>1, <3>2 DEF Retry
  <2> QED BY <1>u, <2>1, <2>2, <1>0, <1>1, <1>12 DEF Retry
<1>13. CASE Acknowledge(w)
  <2>1. WorkerTypeOK'
    BY <1>13, IdleTypes DEF Acknowledge, WorkerTypeOK, Idle
  <2> QED BY <2>1, <1>0, <1>1, <1>13 DEF Acknowledge
<1> QED BY <1>3, <1>4, <1>5, <1>6, <1>7, <1>8, <1>9, <1>10, <1>11, <1>12, <1>13
        DEF WorkerStep

\* Time limits and crashes keep the types.
LEMMA TypeOKInterrupt ==
    ASSUME TypeOK,
           (\E w \in Workers : SoftLimit(w) \/ HardLimit(w)) \/ CrashContainer
    PROVE  TypeOK'
<1>u. trouble' \in [Docs -> SUBSET Troubles]
  BY TroubleTypes DEF Next
<1> USE PipelineAssumption DEF TypeOK, stores, table
<1>0. UNCHANGED stores => StoreTypeOK'
  BY DEF StoreTypeOK
<1>1. UNCHANGED table => TableTypeOK'
  BY DEF TableTypeOK
<1>2. ASSUME NEW w \in Workers, SoftLimit(w) PROVE TypeOK'
  <2> DEFINE run == worker[w]
             next == AfterSoftLimit(run.pc)
  <2>1. run \in Run /\ run.pc # "idle" /\ run.doc \in Docs
    BY <1>2 DEF SoftLimit, WorkerTypeOK, Body, Handler
  <2>2. next \in RunPC /\ next # "idle"
    BY <1>2 DEF SoftLimit, AfterSoftLimit, RunPC, Body, Handler
  <2>3. PICK zero \in SUBSET Batches :
          worker' = [worker EXCEPT ![w].pc = next, ![w].blank = @ \cup zero,
                                   ![w].soft = TRUE]
    BY <1>2 DEF SoftLimit
  <2>4. WorkerTypeOK'
    <3> DEFINE r == [run EXCEPT !.pc = next, !.blank = @ \cup zero, !.soft = TRUE]
    <3> HIDE DEF next
    <3>1. r \in Run /\ r.doc \in Docs /\ r.pc # "idle"
      BY <2>1, <2>2 DEF Run
    <3>2. worker' = [worker EXCEPT ![w] = r]
      BY <2>3
    <3> QED BY <3>1, <3>2, RunUpdate
  <2>5. TableTypeOK'
    <3>1. CASE RecordFailure(run.doc)
      BY <2>1, <3>1, RecordFailureTypes
    <3>2. CASE UNCHANGED table
      BY <1>1, <3>2
    <3>3. CASE status' = [status EXCEPT ![run.doc] = "indexed"] /\ UNCHANGED retryCount
      BY <2>1, <3>3 DEF TableTypeOK
    <3> QED BY <1>2, <3>1, <3>2, <3>3 DEF SoftLimit
  <2>6. StoreTypeOK'
    <3>1. CASE UNCHANGED <<points, embedded>>
      BY <1>2, <3>1 DEF SoftLimit, StoreTypeOK
    <3>2. CASE /\ run.batch \in Batches
               /\ StoreBatch(run.doc, run.batch, run.batch \in run.blank)
      BY <1>2, <2>1, <3>2, StoreBatchTypes DEF SoftLimit
    <3> QED BY <1>2, <3>1, <3>2 DEF SoftLimit
  <2> QED BY <1>u, <1>2, <2>4, <2>5, <2>6 DEF SoftLimit
<1>3. ASSUME NEW w \in Workers, HardLimit(w) PROVE TypeOK'
  <2>1. WorkerTypeOK'
    BY <1>3, IdleTypes DEF HardLimit, WorkerTypeOK, Idle
  <2> QED BY <2>1, <1>0, <1>1, <1>3 DEF HardLimit
<1>4. CASE CrashContainer
  <2>1. ASSUME NEW d \in Docs, NEW k \in Attempts
        PROVE  Cardinality(Unacknowledged(d, k)) \in Nat
    <3>1. Unacknowledged(d, k) \subseteq Workers
      BY DEF Unacknowledged
    <3> QED BY <3>1, FS_Subset, FS_CardinalityType
  <2>2. queue' \in [Docs -> [Attempts -> Nat]]
    BY <1>4, <2>1 DEF CrashContainer
  <2>3. WorkerTypeOK'
    BY <1>4, IdleTypes DEF CrashContainer, WorkerTypeOK, Idle
  <2>4. crashes' \in 0..MaxCrashes
    BY <1>4 DEF CrashContainer
  <2> QED BY <2>2, <2>3, <2>4, <1>0, <1>1, <1>4 DEF CrashContainer
<1> QED BY <1>2, <1>3, <1>4

\* An evicted key leaves fewer of them.
LEMMA TypeOKEvict ==
    ASSUME TypeOK, NEW d \in Docs, Evict(d)
    PROVE  TypeOK'
<1>1. trouble' \in [Docs -> SUBSET Troubles]
  BY TroubleGateway DEF TroubleAbout
<1>2. bm25' \in [Docs -> SUBSET {"tokens", "chunks"}]
  BY DEF Evict, TypeOK, StoreTypeOK
<1> QED BY <1>1, <1>2 DEF Evict, TypeOK, TableTypeOK, WorkerTypeOK, StoreTypeOK, table

\* A step that changes nothing keeps the types.
LEMMA TypeOKStutter == TypeOK /\ UNCHANGED vars => TypeOK'
BY DEF TypeOK, TableTypeOK, WorkerTypeOK, StoreTypeOK, vars

\* The model is well typed: no step of the gateway, of a run or of a failure
\* leaves the state the code works on.
THEOREM TypeCorrect == Spec => []TypeOK
<1>1. Init => TypeOK
  BY TypeOKInit
<1>2. TypeOK /\ [Next]_vars => TypeOK'
  <2> SUFFICES ASSUME TypeOK, [Next]_vars PROVE TypeOK'
    OBVIOUS
  <2>1. ASSUME NEW d \in Docs, GatewayStep(d) \/ GatewayDies(d) PROVE TypeOK'
    BY <2>1, TypeOKGateway
  <2>2. ASSUME NEW w \in Workers, WorkerStep(w) PROVE TypeOK'
    BY <2>2, TypeOKWorker
  <2>3. ASSUME NEW w \in Workers, SoftLimit(w) \/ HardLimit(w) PROVE TypeOK'
    BY <2>3, TypeOKInterrupt
  <2>4. CASE CrashContainer
    BY <2>4, TypeOKInterrupt
  <2>5. CASE UNCHANGED vars
    BY <2>5, TypeOKStutter
  <2>6. ASSUME NEW d \in Docs, Evict(d) PROVE TypeOK'
    BY <2>6, TypeOKEvict
  <2> QED BY <2>1, <2>2, <2>3, <2>4, <2>5, <2>6 DEF Next
<1> QED BY <1>1, <1>2, PTL DEF Spec

--------------------------------------------------------------------------
\* Indexed means stored

\* What a run has put into Qdrant when it is at a step: the batches before its
\* next one, and all of them once it left the loop.  IndexedMeansStored alone
\* is not inductive: nothing in it says that a run about to write "indexed"
\* got past every batch.
StoredBy(w) ==
    /\ worker[w].pc \in {"parse", "embed", "upsert"} =>
         \A b \in Batches : b < worker[w].batch => points[worker[w].doc][b] > 0
    /\ worker[w].pc \in {"tokens", "chunks", "minio", "mark"} =>
         \A b \in Batches : points[worker[w].doc][b] > 0

StoredInv == IndexedMeansStored /\ \A w \in Workers : StoredBy(w)

\* Points are only ever added, so what a run stored and what was indexed stays
\* stored whatever other runs do: only the run that moves and the document
\* whose status changes have to be looked at.
LEMMA StoredStays ==
    ASSUME TypeOK, TypeOK', StoredInv,
           \A d \in Docs, b \in Batches : points'[d][b] >= points[d][b],
           \A d \in Docs : status'[d] = "indexed" =>
               status[d] = "indexed" \/ \A b \in Batches : points'[d][b] > 0,
           \A w \in Workers : worker'[w] = worker[w] \/ StoredBy(w)'
    PROVE  StoredInv'
<1>1. \A d \in Docs, b \in Batches :
        /\ points[d][b] \in Nat /\ points'[d][b] \in Nat
        /\ points[d][b] > 0 => points'[d][b] > 0
  BY DEF TypeOK, StoreTypeOK
<1>2. IndexedMeansStored'
  BY <1>1 DEF StoredInv, IndexedMeansStored
<1>3. ASSUME NEW w \in Workers PROVE StoredBy(w)'
  <2>1. CASE worker'[w] = worker[w]
    <3>1. worker[w].pc # "idle" => worker[w].doc \in Docs
      BY DEF TypeOK, WorkerTypeOK
    <3> QED BY <1>1, <2>1, <3>1 DEF StoredInv, StoredBy
  <2> QED BY <2>1
<1> QED BY <1>2, <1>3 DEF StoredInv

\* A step of one run that touches neither Qdrant nor the status column has
\* only that run to answer for.
LEMMA StoredByMove ==
    ASSUME TypeOK, TypeOK', StoredInv, UNCHANGED <<points, status>>,
           NEW w \in Workers,
           \A v \in Workers \ {w} : worker'[v] = worker[v],
           StoredBy(w)'
    PROVE  StoredInv'
<1>1. \A d \in Docs, b \in Batches : points'[d][b] >= points[d][b]
  BY DEF TypeOK, StoreTypeOK
<1>2. \A v \in Workers : worker'[v] = worker[v] \/ StoredBy(v)'
  OBVIOUS
<1> QED BY <1>1, <1>2, StoredStays

\* Steps that leave Qdrant and the worker processes alone.
LEMMA StoredGateway ==
    ASSUME TypeOK, TypeOK', StoredInv, NEW d \in Docs,
           GatewayStep(d) \/ GatewayDies(d) \/ Evict(d)
    PROVE  StoredInv'
<1>1. UNCHANGED <<points, worker>>
  BY DEF GatewayStep, InsertRow, SaveFile, SendTask, InsertJob, ReportError,
         GatewayDies, Evict, stores
<1>2. \A e \in Docs, b \in Batches : points'[e][b] >= points[e][b]
  BY <1>1 DEF TypeOK, StoreTypeOK
<1>3. \A e \in Docs : status'[e] = "indexed" => status[e] = "indexed"
  BY DEF GatewayStep, InsertRow, SaveFile, SendTask, InsertJob, ReportError,
         GatewayDies, Evict, table, TypeOK, TableTypeOK
<1> QED BY <1>1, <1>2, <1>3, StoredStays

\* A step of a worker keeps what runs have stored.
LEMMA StoredWorker ==
    ASSUME TypeOK, TypeOK', StoredInv, NEW w \in Workers, WorkerStep(w)
    PROVE  StoredInv'
<1> DEFINE d == worker[w].doc
           b == worker[w].batch
<1>1. StoredBy(w) /\ worker[w] \in Run /\ worker \in [Workers -> Run]
  BY DEF StoredInv, TypeOK, WorkerTypeOK
<1>2. worker[w].pc # "idle" => d \in Docs
  BY DEF TypeOK, WorkerTypeOK
<1>3. CASE TakeMessage(w)
  <2>1. UNCHANGED <<points, status>>
    BY <1>3 DEF TakeMessage, stores, table
  <2>2. /\ \A v \in Workers \ {w} : worker'[v] = worker[v]
        /\ worker'[w].pc = "parse" /\ worker'[w].batch = 1
    BY <1>1, <1>3 DEF TakeMessage, Idle
  <2>3. StoredBy(w)'
    BY <2>2 DEF StoredBy, Batches
  <2> QED BY <2>1, <2>2, <2>3, StoredByMove
<1>4. CASE ParseAndChunk(w)
  <2>1. PICK pc \in {"embed", "fail"} : Goto(w, pc)
    BY <1>4 DEF ParseAndChunk
  <2>2. UNCHANGED <<points, status>> /\ worker[w].pc = "parse"
    BY <1>4 DEF ParseAndChunk, stores, table
  <2>3. /\ \A v \in Workers \ {w} : worker'[v] = worker[v]
        /\ worker'[w] = [worker[w] EXCEPT !.pc = pc]
    BY <1>1, <2>1 DEF Goto
  <2>4. StoredBy(w)'
    BY <1>1, <2>2, <2>3 DEF StoredBy, Run
  <2> QED BY <2>2, <2>3, <2>4, StoredByMove
<1>5. CASE Embed(w)
  <2>1. UNCHANGED <<points, status>> /\ worker[w].pc = "embed"
    BY <1>5 DEF Embed, stores, table
  <2>2. /\ \A v \in Workers \ {w} : worker'[v] = worker[v]
        /\ worker'[w].pc = "upsert" /\ worker'[w].doc = d /\ worker'[w].batch = b
    BY <1>1, <1>5 DEF Embed, Run
  <2>3. StoredBy(w)'
    BY <1>1, <2>1, <2>2 DEF StoredBy
  <2> QED BY <2>1, <2>2, <2>3, StoredByMove
<1>6. CASE UpsertBatch(w)
  <2>1. d \in Docs /\ b \in Batches /\ worker[w].pc = "upsert" /\ UNCHANGED status
    BY <1>2, <1>6 DEF UpsertBatch, table
  <2>2. \A e \in Docs, c \in Batches : points'[e][c] >= points[e][c]
    <3>1. CASE UNCHANGED points
      BY <3>1 DEF TypeOK, StoreTypeOK
    <3>2. CASE StoreBatch(d, b, b \in worker[w].blank)
      BY <1>6, <2>1, <3>2, StoreBatchTypes DEF TypeOK, UpsertBatch
    <3> QED BY <1>6, <3>1, <3>2 DEF UpsertBatch
  <2>3. CASE Goto(w, "fail")
    <3>1. /\ \A v \in Workers \ {w} : worker'[v] = worker[v]
          /\ worker'[w].pc = "fail"
      BY <1>1, <2>3 DEF Goto, Run
    <3>2. \A v \in Workers : worker'[v] = worker[v] \/ StoredBy(v)'
      BY <3>1 DEF StoredBy
    <3> QED BY <2>1, <2>2, <3>2, StoredStays
  <2>4. CASE /\ StoreBatch(d, b, b \in worker[w].blank)
             /\ worker' = [worker EXCEPT
                  ![w].batch = b + 1,
                  ![w].pc = IF b = NumBatches THEN "tokens" ELSE "upsert"]
    <3>1. points'[d][b] > 0
      BY <1>6, <2>1, <2>4, StoreBatchTypes DEF TypeOK, UpsertBatch
    <3>3. \A c \in Batches : c < b + 1 => points'[d][c] > 0
      <4> SUFFICES ASSUME NEW c \in Batches, c < b + 1 PROVE points'[d][c] > 0
        OBVIOUS
      <4>1. CASE c = b
        BY <3>1, <4>1
      <4>2. CASE c < b
        <5>1. points[d][c] > 0
          BY <1>1, <2>1, <4>2 DEF StoredBy
        <5>2. points[d][c] \in Nat /\ points'[d][c] \in Nat
          BY <2>1 DEF TypeOK, StoreTypeOK
        <5> QED BY <2>1, <2>2, <5>1, <5>2
      <4> QED BY <2>1, <4>1, <4>2 DEF Batches
    <3>4. /\ \A v \in Workers \ {w} : worker'[v] = worker[v]
          /\ worker'[w].doc = d /\ worker'[w].batch = b + 1
          /\ worker'[w].pc = IF b = NumBatches THEN "tokens" ELSE "upsert"
      BY <1>1, <2>4 DEF Run
    <3>5. StoredBy(w)'
      <4>1. CASE b = NumBatches
        <5>1. \A c \in Batches : c < b + 1
          BY <2>1, <4>1, PipelineAssumption DEF Batches
        <5> QED BY <3>3, <3>4, <4>1, <5>1 DEF StoredBy
      <4>2. CASE b # NumBatches
        BY <3>3, <3>4, <4>2 DEF StoredBy
      <4> QED BY <4>1, <4>2
    <3>6. \A v \in Workers : worker'[v] = worker[v] \/ StoredBy(v)'
      BY <3>4, <3>5
    <3> QED BY <2>1, <2>2, <3>6, StoredStays
  <2> QED BY <1>6, <2>3, <2>4 DEF UpsertBatch
<1>7. CASE BuildBm25(w)
  <2>1. PICK key \in {"tokens", "chunks"}, pc \in {"chunks", "minio"} :
          worker[w].pc = key /\ Goto(w, pc)
    BY <1>7 DEF BuildBm25, SetBm25Key
  <2>2. UNCHANGED <<points, status>>
    BY <1>7 DEF BuildBm25, SetBm25Key, table
  <2>3. /\ \A v \in Workers \ {w} : worker'[v] = worker[v]
        /\ worker'[w] = [worker[w] EXCEPT !.pc = pc]
    BY <1>1, <2>1 DEF Goto
  <2>4. StoredBy(w)'
    BY <1>1, <2>1, <2>2, <2>3 DEF StoredBy, Run
  <2> QED BY <2>2, <2>3, <2>4, StoredByMove
<1>8. CASE UploadOriginal(w)
  <2>1. UNCHANGED <<points, status>> /\ worker[w].pc = "minio" /\ Goto(w, "mark")
    BY <1>8 DEF UploadOriginal, table
  <2>2. /\ \A v \in Workers \ {w} : worker'[v] = worker[v]
        /\ worker'[w] = [worker[w] EXCEPT !.pc = "mark"]
    BY <1>1, <2>1 DEF Goto
  <2>3. StoredBy(w)'
    BY <1>1, <2>1, <2>2 DEF StoredBy, Run
  <2> QED BY <2>1, <2>2, <2>3, StoredByMove
<1>9. CASE MarkIndexed(w)
  <2>1. PICK pc \in {"ack", "fail"} : Goto(w, pc)
    BY <1>9 DEF MarkIndexed
  <2>2. /\ UNCHANGED points /\ worker[w].pc = "mark"
        /\ status' \in {status, [status EXCEPT ![d] = "indexed"]}
    BY <1>9 DEF MarkIndexed, stores
  <2>3. \A c \in Batches : points'[d][c] > 0
    BY <1>1, <2>2 DEF StoredBy
  <2>4. \A e \in Docs, c \in Batches : points'[e][c] >= points[e][c]
    BY <2>2 DEF TypeOK, StoreTypeOK
  <2>5. \A e \in Docs : status'[e] = "indexed" =>
          status[e] = "indexed" \/ \A c \in Batches : points'[e][c] > 0
    BY <2>2, <2>3 DEF TypeOK, TableTypeOK
  <2>6. /\ \A v \in Workers \ {w} : worker'[v] = worker[v]
        /\ worker'[w].pc = pc
    BY <1>1, <2>1 DEF Goto, Run
  <2>7. \A v \in Workers : worker'[v] = worker[v] \/ StoredBy(v)'
    BY <2>6 DEF StoredBy
  <2> QED BY <2>4, <2>5, <2>7, StoredStays
<1>10. CASE MarkFailed(w) \/ SendAlert(w) \/ Retry(w) \/ Acknowledge(w)
  <2>1. UNCHANGED points
    BY <1>10 DEF MarkFailed, SendAlert, Retry, Acknowledge, stores
  <2>2. \A e \in Docs, c \in Batches : points'[e][c] >= points[e][c]
    BY <2>1 DEF TypeOK, StoreTypeOK
  <2>3. \A e \in Docs : status'[e] = "indexed" => status[e] = "indexed"
    BY <1>2, <1>10 DEF MarkFailed, RecordFailure, SendAlert, Retry, Acknowledge,
                       table, TypeOK, TableTypeOK
  <2>4. /\ \A v \in Workers \ {w} : worker'[v] = worker[v]
        /\ worker'[w].pc \in {"alert", "ack", "retry", "idle"}
    BY <1>1, <1>10 DEF MarkFailed, SendAlert, Retry, Acknowledge, Goto, Idle, Run
  <2>5. \A v \in Workers : worker'[v] = worker[v] \/ StoredBy(v)'
    BY <2>4 DEF StoredBy
  <2> QED BY <2>2, <2>3, <2>5, StoredStays
<1> QED BY <1>3, <1>4, <1>5, <1>6, <1>7, <1>8, <1>9, <1>10 DEF WorkerStep

\* A soft limit swallowed between two steps never skips a batch: it skips the
\* keys and the original, which come after all of them.
LEMMA StoredInterrupt ==
    ASSUME TypeOK, TypeOK', StoredInv,
           (\E w \in Workers : SoftLimit(w) \/ HardLimit(w)) \/ CrashContainer
    PROVE  StoredInv'
<1>3. ASSUME NEW w \in Workers, SoftLimit(w) PROVE StoredInv'
  <2> DEFINE d == worker[w].doc
  <2>1. /\ worker[w].pc \in Body \cup Handler
        /\ \A v \in Workers \ {w} : worker'[v] = worker[v]
        /\ worker'[w].pc = AfterSoftLimit(worker[w].pc)
        /\ worker'[w].doc = d /\ worker'[w].batch = worker[w].batch
    <3> DEFINE next == AfterSoftLimit(worker[w].pc)
    <3>1. PICK zero \in SUBSET Batches :
            worker' = [worker EXCEPT ![w].pc = next, ![w].blank = @ \cup zero,
                                     ![w].soft = TRUE]
      BY <1>3 DEF SoftLimit
    <3>2. worker[w] \in Run /\ worker \in [Workers -> Run]
      BY DEF TypeOK, WorkerTypeOK
    <3> HIDE DEF next
    <3>3. /\ \A v \in Workers \ {w} : worker'[v] = worker[v]
          /\ worker'[w].pc = next
          /\ worker'[w].doc = d /\ worker'[w].batch = worker[w].batch
      BY <3>1, <3>2 DEF Run
    <3> QED BY <1>3, <3>3 DEF next, SoftLimit
  <2>2. \/ worker[w].pc = "embed" /\ worker'[w].pc = "embed"
        \/ /\ worker[w].pc \in {"tokens", "chunks", "minio"}
           /\ worker'[w].pc \in {"minio", "mark"}
        \/ worker'[w].pc \in {"fail", "retry", "ack"}
    BY <2>1 DEF AfterSoftLimit, Body, Handler
  <2>3. d \in Docs
    BY <2>1 DEF TypeOK, WorkerTypeOK, Body, Handler
  <2>4. \A e \in Docs, c \in Batches : points'[e][c] >= points[e][c]
    <3>1. CASE UNCHANGED points
      BY <3>1 DEF TypeOK, StoreTypeOK
    <3>2. CASE /\ worker[w].batch \in Batches
               /\ StoreBatch(d, worker[w].batch, worker[w].batch \in worker[w].blank)
      BY <1>3, <2>3, <3>2, StoreBatchTypes DEF TypeOK, SoftLimit
    <3> QED BY <1>3, <3>1, <3>2 DEF SoftLimit
  <2>5. StoredBy(w)'
    <3>1. CASE worker[w].pc = "upsert"
      BY <2>1, <3>1 DEF AfterSoftLimit, StoredBy
    <3>2. CASE worker[w].pc # "upsert"
      <4>1. UNCHANGED points
        BY <1>3, <3>2 DEF SoftLimit
      <4> QED BY <2>1, <2>2, <4>1 DEF StoredInv, StoredBy
    <3> QED BY <3>1, <3>2
  <2>6. \A e \in Docs : status'[e] = "indexed" =>
          status[e] = "indexed" \/ \A c \in Batches : points'[e][c] > 0
    <3>1. CASE status' = status
      BY <3>1
    <3>2. CASE status' = [status EXCEPT ![d] = "failed"]
      BY <3>2 DEF TypeOK, TableTypeOK
    <3>3. CASE /\ worker[w].pc = "mark" /\ UNCHANGED points
               /\ status' = [status EXCEPT ![d] = "indexed"]
      <4>1. \A c \in Batches : points'[d][c] > 0
        BY <3>3 DEF StoredInv, StoredBy
      <4> QED BY <3>3, <4>1 DEF TypeOK, TableTypeOK
    <3> QED BY <1>3, <3>1, <3>2, <3>3 DEF SoftLimit, RecordFailure, table
  <2> QED BY <2>1, <2>4, <2>5, <2>6, StoredStays
<1>4. CASE (\E w \in Workers : HardLimit(w)) \/ CrashContainer
  <2>1. \A v \in Workers : worker'[v] = worker[v] \/ worker'[v] = Idle
    <3>1. worker \in [Workers -> Run]
      BY DEF TypeOK, WorkerTypeOK
    <3>2. ASSUME NEW w \in Workers, worker' = [worker EXCEPT ![w] = Idle]
          PROVE  \A v \in Workers : worker'[v] = worker[v] \/ worker'[v] = Idle
      BY <3>1, <3>2
    <3>3. ASSUME worker' = [v \in Workers |-> Idle]
          PROVE  \A v \in Workers : worker'[v] = worker[v] \/ worker'[v] = Idle
      BY <3>3
    <3> QED BY <1>4, <3>2, <3>3 DEF HardLimit, CrashContainer
  <2>2. \A v \in Workers : worker'[v] = worker[v] \/ StoredBy(v)'
    BY <2>1 DEF StoredBy, Idle
  <2>3. status' = status /\ points' = points
    BY <1>4 DEF HardLimit, CrashContainer, table, stores
  <2>4. \A e \in Docs, c \in Batches : points'[e][c] >= points[e][c]
    BY <2>3 DEF TypeOK, StoreTypeOK
  <2> QED BY <2>2, <2>3, <2>4, StoredStays
<1> QED BY <1>3, <1>4

\* StoredInv is an invariant.
LEMMA StoredInvariant == Spec => []StoredInv
<1>1. Init => StoredInv
  <2>1. Init => IndexedMeansStored
    BY DEF Init, IndexedMeansStored
  <2>2. Init => \A w \in Workers : worker[w] = Idle
    BY DEF Init
  <2>3. ASSUME NEW w \in Workers, worker[w] = Idle PROVE StoredBy(w)
    BY <2>3 DEF StoredBy, Idle
  <2> QED BY <2>1, <2>2, <2>3 DEF StoredInv
<1>2. TypeOK /\ TypeOK' /\ StoredInv /\ [Next]_vars => StoredInv'
  <2> SUFFICES ASSUME TypeOK, TypeOK', StoredInv, [Next]_vars PROVE StoredInv'
    OBVIOUS
  <2>1. ASSUME NEW d \in Docs, GatewayStep(d) \/ GatewayDies(d) \/ Evict(d)
        PROVE  StoredInv'
    BY <2>1, StoredGateway
  <2>2. ASSUME NEW w \in Workers, WorkerStep(w) PROVE StoredInv'
    BY <2>2, StoredWorker
  <2>3. ASSUME NEW w \in Workers, SoftLimit(w) \/ HardLimit(w) PROVE StoredInv'
    BY <2>3, StoredInterrupt
  <2>4. CASE CrashContainer
    BY <2>4, StoredInterrupt
  <2>5. CASE UNCHANGED vars
    BY <2>5 DEF vars, StoredInv, IndexedMeansStored, StoredBy
  <2> QED BY <2>1, <2>2, <2>3, <2>4, <2>5 DEF Next
<1> QED BY <1>1, <1>2, TypeCorrect, PTL DEF Spec

\* A document reported as indexed has every one of its passages in Qdrant,
\* for every number of documents, processes, batches and retries and under
\* every choice of faults, crashes and time limits included.
THEOREM IndexedIsStored == Spec => []IndexedMeansStored
<1>1. StoredInv => IndexedMeansStored
  BY DEF StoredInv
<1> QED BY <1>1, StoredInvariant, PTL

--------------------------------------------------------------------------
\* What the steps of a run have in common

\* A run that has neither finished nor handed its chain to the next message.
Active(w) == worker[w].pc \in Body \cup Handler

\* What every step of a run but its first does to the processes: it moves its
\* own run, for the same message or to no run, and no other.
Continues(w) ==
    /\ worker[w].pc # "idle" /\ worker[w].doc \in Docs
    /\ \A v \in Workers \ {w} : worker'[v] = worker[v]
    /\ \/ worker'[w] = Idle
       \/ /\ worker'[w].doc = worker[w].doc
          /\ worker'[w].retries = worker[w].retries
    /\ Active(w)' => Active(w)
    /\ UNCHANGED <<gateway, runs, crashes>>

\* A run that goes to another step of the task continues.
LEMMA GotoContinues ==
    ASSUME TypeOK, NEW w \in Workers, Active(w), NEW pc, Goto(w, pc)
    PROVE  /\ worker[w].doc \in Docs
           /\ \A v \in Workers \ {w} : worker'[v] = worker[v]
           /\ worker'[w] = [worker[w] EXCEPT !.pc = pc]
           /\ worker'[w].pc = pc
           /\ worker'[w].doc = worker[w].doc
           /\ worker'[w].retries = worker[w].retries
           /\ worker'[w].batch = worker[w].batch
           /\ worker'[w].blank = worker[w].blank
           /\ worker'[w].soft = worker[w].soft
<1>1. worker[w] \in Run /\ worker \in [Workers -> Run] /\ worker[w].doc \in Docs
  BY DEF TypeOK, WorkerTypeOK, Active, Body, Handler
<1>2. worker' = [worker EXCEPT ![w] = [worker[w] EXCEPT !.pc = pc]]
  BY DEF Goto
<1>3. worker'[w] = [worker[w] EXCEPT !.pc = pc]
  BY <1>1, <1>2
<1> QED BY <1>1, <1>2, <1>3 DEF Run

\* Where the soft limit leaves the run it interrupts.
LEMMA SoftLimitMoves ==
    ASSUME TypeOK, NEW w \in Workers, SoftLimit(w)
    PROVE  /\ Active(w) /\ worker[w].doc \in Docs
           /\ \A v \in Workers \ {w} : worker'[v] = worker[v]
           /\ worker'[w].pc = AfterSoftLimit(worker[w].pc)
           /\ worker'[w].doc = worker[w].doc
           /\ worker'[w].retries = worker[w].retries
           /\ worker'[w].batch = worker[w].batch
<1> DEFINE next == AfterSoftLimit(worker[w].pc)
<1>1. PICK zero \in SUBSET Batches :
        worker' = [worker EXCEPT ![w].pc = next, ![w].blank = @ \cup zero,
                                 ![w].soft = TRUE]
  BY DEF SoftLimit
<1>2. worker[w] \in Run /\ worker \in [Workers -> Run]
  BY DEF TypeOK, WorkerTypeOK
<1>3. Active(w) /\ worker[w].doc \in Docs
  BY DEF SoftLimit, Active, TypeOK, WorkerTypeOK, Body, Handler
<1> HIDE DEF next
<1>4. /\ \A v \in Workers \ {w} : worker'[v] = worker[v]
      /\ worker'[w].pc = next
      /\ worker'[w].doc = worker[w].doc
      /\ worker'[w].retries = worker[w].retries
      /\ worker'[w].batch = worker[w].batch
  BY <1>1, <1>2 DEF Run
<1> QED BY <1>3, <1>4 DEF next

\* Where a run is after it stored a batch.
LEMMA NextBatchMoves ==
    ASSUME TypeOK, NEW w \in Workers, worker[w].pc = "upsert",
           worker[w].batch \in Batches,
           worker' = [worker EXCEPT
             ![w].batch = worker[w].batch + 1,
             ![w].pc = IF worker[w].batch = NumBatches THEN "tokens" ELSE "upsert"]
    PROVE  /\ Active(w) /\ worker[w].doc \in Docs
           /\ \A v \in Workers \ {w} : worker'[v] = worker[v]
           /\ worker'[w].batch = worker[w].batch + 1
           /\ worker'[w].pc =
                IF worker[w].batch = NumBatches THEN "tokens" ELSE "upsert"
           /\ worker'[w].doc = worker[w].doc
           /\ worker'[w].retries = worker[w].retries
           /\ worker'[w].blank = worker[w].blank
           /\ worker'[w].soft = worker[w].soft
<1>1. worker[w] \in Run /\ worker \in [Workers -> Run] /\ worker[w].doc \in Docs
  BY DEF TypeOK, WorkerTypeOK
<1> QED BY <1>1 DEF Run, Active, Body

\* Every step of a run but its first continues it.
LEMMA RunContinues ==
    ASSUME TypeOK, NEW w \in Workers,
           WorkerStep(w) \/ SoftLimit(w) \/ HardLimit(w), ~TakeMessage(w)
    PROVE  Continues(w)
<1>1. worker \in [Workers -> Run]
  BY DEF TypeOK, WorkerTypeOK
<1>2. ASSUME NEW pc \in {"embed", "fail", "chunks", "minio", "mark", "ack", "alert",
                         "retry"},
             Active(w), Goto(w, pc), UNCHANGED <<gateway, runs, crashes>>
      PROVE  Continues(w)
  <2>1. worker[w].pc # "idle"
    BY <1>2 DEF Active, Body, Handler
  <2> QED BY <1>2, <2>1, GotoContinues DEF Continues
<1>3. CASE ParseAndChunk(w)
  <2>1. PICK pc \in {"embed", "fail"} : Goto(w, pc)
    BY <1>3 DEF ParseAndChunk
  <2>2. Active(w)
    BY <1>3 DEF ParseAndChunk, Active, Body
  <2> QED BY <1>2, <1>3, <2>1, <2>2 DEF ParseAndChunk
<1>4. CASE Embed(w)
  <2>1. PICK zero : worker' = [worker EXCEPT ![w].pc = "upsert",
                                             ![w].blank = @ \cup zero]
    BY <1>4 DEF Embed
  <2>2. /\ \A v \in Workers \ {w} : worker'[v] = worker[v]
        /\ worker'[w].doc = worker[w].doc
        /\ worker'[w].retries = worker[w].retries
    BY <1>1, <2>1 DEF Run
  <2>3. Active(w) /\ worker[w].pc # "idle" /\ worker[w].doc \in Docs
    BY <1>4 DEF Embed, Active, Body, TypeOK, WorkerTypeOK
  <2> QED BY <1>4, <2>2, <2>3 DEF Embed, Continues
<1>5. CASE UpsertBatch(w)
  <2>1. Active(w) /\ UNCHANGED <<gateway, runs, crashes>>
    BY <1>5 DEF UpsertBatch, Active, Body
  <2>2. CASE Goto(w, "fail")
    BY <1>2, <2>1, <2>2
  <2>3. CASE worker' = [worker EXCEPT
               ![w].batch = worker[w].batch + 1,
               ![w].pc = IF worker[w].batch = NumBatches THEN "tokens" ELSE "upsert"]
    <3>1. worker[w].pc = "upsert" /\ worker[w].batch \in Batches
      BY <1>5 DEF UpsertBatch
    <3> QED BY <2>1, <2>3, <3>1, NextBatchMoves DEF Continues
  <2> QED BY <1>5, <2>2, <2>3 DEF UpsertBatch
<1>6. CASE BuildBm25(w)
  <2>1. PICK key \in {"tokens", "chunks"}, next \in {"chunks", "minio"} :
          SetBm25Key(w, key, next)
    BY <1>6 DEF BuildBm25
  <2>2. PICK pc \in {"chunks", "minio"} : Goto(w, pc)
    BY <2>1 DEF SetBm25Key
  <2>3. Active(w)
    BY <2>1 DEF SetBm25Key, Active, Body
  <2> QED BY <1>2, <2>1, <2>2, <2>3 DEF SetBm25Key
<1>7. CASE UploadOriginal(w)
  BY <1>2, <1>7 DEF UploadOriginal, Active, Body
<1>8. CASE MarkIndexed(w)
  BY <1>2, <1>8 DEF MarkIndexed, Active, Body
<1>9. CASE MarkFailed(w)
  BY <1>2, <1>9 DEF MarkFailed, Active, Handler
<1>10. CASE SendAlert(w)
  BY <1>2, <1>10 DEF SendAlert, Active, Handler
<1>11. CASE Retry(w)
  BY <1>2, <1>11 DEF Retry, Active, Handler
<1>12. CASE Acknowledge(w) \/ HardLimit(w)
  <2>1. worker' = [worker EXCEPT ![w] = Idle] /\ worker[w].pc # "idle"
    BY <1>12 DEF Acknowledge, HardLimit, Body, Handler
  <2>2. worker'[w] = Idle /\ \A v \in Workers \ {w} : worker'[v] = worker[v]
    BY <1>1, <2>1
  <2>3. worker[w].doc \in Docs /\ ~Active(w)'
    BY <2>1, <2>2 DEF TypeOK, WorkerTypeOK, Active, Idle, Body, Handler
  <2> QED BY <1>12, <2>1, <2>2, <2>3 DEF Acknowledge, HardLimit, Continues
<1>13. CASE SoftLimit(w)
  <2>1. worker[w].pc # "idle"
    BY <1>13 DEF SoftLimit, Body, Handler
  <2> QED BY <1>13, <2>1, SoftLimitMoves DEF SoftLimit, Continues
<1> QED BY <1>3, <1>4, <1>5, <1>6, <1>7, <1>8, <1>9, <1>10, <1>11, <1>12, <1>13
        DEF WorkerStep

\* The first step of a run: the process was idle and takes message <d, k>.
LEMMA TakeMoves ==
    ASSUME TypeOK, NEW w \in Workers, TakeMessage(w)
    PROVE  \E d \in Docs, k \in Attempts :
             /\ queue[d][k] > 0
             /\ queue' = [queue EXCEPT ![d][k] = @ - 1]
             /\ runs' = [runs EXCEPT ![d] = @ + 1]
             /\ worker[w].pc = "idle"
             /\ \A v \in Workers \ {w} : worker'[v] = worker[v]
             /\ worker'[w].pc = "parse" /\ worker'[w].doc = d
             /\ worker'[w].retries = k /\ worker'[w].batch = 1
             /\ worker'[w].blank = {} /\ worker'[w].soft = FALSE
             /\ UNCHANGED <<gateway, status, retryCount, points, embedded, bm25, minio,
                            crashes>>
<1>1. worker \in [Workers -> Run]
  BY DEF TypeOK, WorkerTypeOK
<1>2. PICK d \in Docs, k \in Attempts :
        /\ queue[d][k] > 0
        /\ queue' = [queue EXCEPT ![d][k] = @ - 1]
        /\ worker' = [worker EXCEPT
             ![w] = [Idle EXCEPT !.pc = "parse", !.doc = d, !.retries = k]]
        /\ runs' = [runs EXCEPT ![d] = @ + 1]
  BY DEF TakeMessage
<1>3. /\ \A v \in Workers \ {w} : worker'[v] = worker[v]
      /\ worker'[w] = [Idle EXCEPT !.pc = "parse", !.doc = d, !.retries = k]
  BY <1>1, <1>2
<1>4. /\ worker'[w].pc = "parse" /\ worker'[w].doc = d
      /\ worker'[w].retries = k /\ worker'[w].batch = 1
      /\ worker'[w].blank = {} /\ worker'[w].soft = FALSE
  BY <1>3 DEF Idle
<1>5. /\ worker[w].pc = "idle"
      /\ UNCHANGED <<gateway, status, retryCount, points, embedded, bm25, minio, crashes>>
  BY DEF TakeMessage, table, stores
<1> QED BY <1>2, <1>3, <1>4, <1>5

--------------------------------------------------------------------------
\* Copies of a batch

\* The run may still send batch b of its document.
MayStore(w, b) ==
    \/ worker[w].pc \in {"parse", "embed"}
    \/ worker[w].pc = "upsert" /\ worker[w].batch <= b

Storers(d, b) == {w \in Workers : worker[w].doc = d /\ MayStore(w, b)}

\* CopiesBoundedByRuns alone is not inductive: a run started long ago may
\* still add its copy.  What is: the copies there are, and one more for each
\* run that has not come to the batch yet, are no more than the runs started.
CopiesInv ==
    \A d \in Docs, b \in Batches :
        points[d][b] + Cardinality(Storers(d, b)) <= runs[d]

\* The runs that may still store a batch are finitely many.
LEMMA StorersFinite ==
    ASSUME NEW d, NEW b
    PROVE  /\ IsFiniteSet(Storers(d, b))
           /\ Cardinality(Storers(d, b)) \in Nat
<1>1. Storers(d, b) \subseteq Workers
  BY DEF Storers
<1> QED BY <1>1, PipelineAssumption, FS_Subset, FS_CardinalityType

\* A step that stores nothing and starts no run leaves the balance or frees
\* some of it.
LEMMA CopiesStay ==
    ASSUME TypeOK, TypeOK', CopiesInv, UNCHANGED <<points, runs>>,
           \A w \in Workers, b \in Batches : MayStore(w, b)' =>
               MayStore(w, b) /\ worker'[w].doc = worker[w].doc
    PROVE  CopiesInv'
<1> SUFFICES ASSUME NEW d \in Docs, NEW b \in Batches
             PROVE  points[d][b] + Cardinality(Storers(d, b)') <= runs[d]
  BY DEF CopiesInv
<1> DEFINE T == Storers(d, b)'
<1>1. T \subseteq Storers(d, b)
  BY DEF Storers
<1> HIDE DEF T
<1>2. Cardinality(T) <= Cardinality(Storers(d, b)) /\ Cardinality(T) \in Nat
  BY <1>1, StorersFinite, FS_Subset, FS_CardinalityType
<1>3. points[d][b] + Cardinality(Storers(d, b)) <= runs[d]
  BY DEF CopiesInv
<1>4. points[d][b] \in Nat /\ runs[d] \in Nat
  BY DEF TypeOK, StoreTypeOK
<1> QED BY <1>2, <1>3, <1>4, StorersFinite DEF T

\* The run that stores a batch was counted for it and is not any more.
LEMMA CopyTaken ==
    ASSUME TypeOK, TypeOK', CopiesInv, NEW w \in Workers,
           NEW zero, worker[w].pc = "upsert", worker[w].batch \in Batches,
           StoreBatch(worker[w].doc, worker[w].batch, zero), UNCHANGED runs,
           \A v \in Workers \ {w} : worker'[v] = worker[v],
           \A b \in Batches : MayStore(w, b)' =>
               /\ MayStore(w, b) /\ worker'[w].doc = worker[w].doc
               /\ b # worker[w].batch
    PROVE  CopiesInv'
<1> SUFFICES ASSUME NEW d \in Docs, NEW b \in Batches
             PROVE  points'[d][b] + Cardinality(Storers(d, b)') <= runs[d]
  BY DEF CopiesInv
<1> DEFINE S == Storers(d, b)
           T == Storers(d, b)'
           c == worker[w].batch
<1>0. worker[w].doc \in Docs
  BY DEF TypeOK, WorkerTypeOK
<1>1. T \subseteq S
  BY DEF Storers, MayStore
<1>2. worker[w].doc = d /\ c = b => w \in S /\ w \notin T
  BY DEF Storers, MayStore, Batches
<1>3. points'[d][b] = IF worker[w].doc = d /\ c = b THEN points[d][b] + 1 ELSE points[d][b]
  BY <1>0 DEF StoreBatch, TypeOK, StoreTypeOK
<1>4. points[d][b] \in Nat /\ runs[d] \in Nat
  BY DEF TypeOK, StoreTypeOK
<1>5. points[d][b] + Cardinality(S) <= runs[d]
  BY DEF CopiesInv
<1>6. IsFiniteSet(S) /\ Cardinality(S) \in Nat
  BY StorersFinite
<1> HIDE DEF S, T, c
<1>7. CASE worker[w].doc = d /\ c = b
  <2>1. T \subseteq (S \ {w}) /\ w \in S
    BY <1>1, <1>2, <1>7
  <2>2. IsFiniteSet(S \ {w}) /\ Cardinality(S \ {w}) = Cardinality(S) - 1
    BY <1>6, <2>1, FS_RemoveElement
  <2>3. Cardinality(T) <= Cardinality(S \ {w}) /\ Cardinality(T) \in Nat
    BY <2>1, <2>2, FS_Subset, FS_CardinalityType
  <2>4. points'[d][b] + Cardinality(T) <= runs[d]
    BY <1>3, <1>4, <1>5, <1>6, <1>7, <2>2, <2>3
  <2> QED BY <2>4 DEF T
<1>8. CASE ~(worker[w].doc = d /\ c = b)
  <2>1. Cardinality(T) <= Cardinality(S) /\ Cardinality(T) \in Nat
    BY <1>1, <1>6, FS_Subset, FS_CardinalityType
  <2>2. points'[d][b] = points[d][b]
    BY <1>3, <1>8
  <2>3. points'[d][b] + Cardinality(T) <= runs[d]
    BY <1>4, <1>5, <1>6, <2>1, <2>2
  <2> QED BY <2>3 DEF T
<1> QED BY <1>7, <1>8

\* A message that is taken pays for the copies its run may make.
LEMMA CopiesTake ==
    ASSUME TypeOK, TypeOK', CopiesInv, NEW w \in Workers, TakeMessage(w)
    PROVE  CopiesInv'
<1> SUFFICES ASSUME NEW d \in Docs, NEW b \in Batches
             PROVE  points'[d][b] + Cardinality(Storers(d, b)') <= runs'[d]
  BY DEF CopiesInv
<1>1. PICK e \in Docs : /\ runs' = [runs EXCEPT ![e] = @ + 1]
                        /\ \A v \in Workers \ {w} : worker'[v] = worker[v]
                        /\ worker'[w].doc = e /\ UNCHANGED points
                        /\ worker[w].pc = "idle"
  BY TakeMoves
<1> DEFINE S == Storers(d, b)
           T == Storers(d, b)'
<1>2. T \subseteq S \cup {w} /\ (e # d => T \subseteq S)
  BY <1>1 DEF Storers, MayStore
<1>3. points[d][b] \in Nat /\ runs[d] \in Nat /\ points[d][b] + Cardinality(S) <= runs[d]
  BY DEF TypeOK, StoreTypeOK, CopiesInv
<1>4. runs'[d] = IF d = e THEN runs[d] + 1 ELSE runs[d]
  BY <1>1 DEF TypeOK
<1>5. IsFiniteSet(S) /\ Cardinality(S) \in Nat
  BY StorersFinite
<1> HIDE DEF S, T
<1>6. /\ IsFiniteSet(S \cup {w}) /\ Cardinality(S \cup {w}) \in Nat
      /\ Cardinality(S \cup {w}) <= Cardinality(S) + 1
  BY <1>5, FS_AddElement
<1>7. CASE d = e
  <2>1. Cardinality(T) <= Cardinality(S \cup {w}) /\ Cardinality(T) \in Nat
    BY <1>2, <1>6, FS_Subset, FS_CardinalityType
  <2>2. points[d][b] + Cardinality(T) <= runs'[d]
    BY <1>3, <1>4, <1>5, <1>6, <1>7, <2>1
  <2> QED BY <1>1, <2>2 DEF T
<1>8. CASE d # e
  <2>1. Cardinality(T) <= Cardinality(S) /\ Cardinality(T) \in Nat
    BY <1>2, <1>5, <1>8, FS_Subset, FS_CardinalityType
  <2>2. points[d][b] + Cardinality(T) <= runs'[d]
    BY <1>3, <1>4, <1>5, <1>8, <2>1
  <2> QED BY <1>1, <2>2 DEF T
<1> QED BY <1>7, <1>8

\* A run that goes on is past every batch it was past before.
LEMMA CopiesWorker ==
    ASSUME TypeOK, TypeOK', CopiesInv, NEW w \in Workers,
           WorkerStep(w) \/ SoftLimit(w) \/ HardLimit(w)
    PROVE  CopiesInv'
<1>1. CASE TakeMessage(w)
  BY <1>1, CopiesTake
<1>2. CASE ~TakeMessage(w)
  <2>1. Continues(w)
    BY <1>2, RunContinues
  <2>2. UNCHANGED runs /\ \A v \in Workers \ {w} : worker'[v] = worker[v]
    BY <2>1 DEF Continues
  <2>3. CASE UpsertBatch(w)
    <3>1. worker[w].pc = "upsert" /\ worker[w].batch \in Batches
      BY <2>3 DEF UpsertBatch
    <3>2. /\ worker'[w].doc = worker[w].doc
          /\ \/ worker'[w].pc = "fail"
             \/ /\ worker'[w].pc \in {"tokens", "upsert"}
                /\ worker'[w].batch = worker[w].batch + 1
                /\ StoreBatch(worker[w].doc, worker[w].batch,
                              worker[w].batch \in worker[w].blank)
      <4>1. CASE Goto(w, "fail")
        <5>1. Active(w)
          BY <3>1 DEF Active, Body
        <5> QED BY <4>1, <5>1, GotoContinues
      <4>2. CASE ~Goto(w, "fail")
        BY <2>3, <3>1, <4>2, NextBatchMoves DEF UpsertBatch
      <4> QED BY <4>1, <4>2
    <3>3. \A b \in Batches : MayStore(w, b)' =>
            MayStore(w, b) /\ worker'[w].doc = worker[w].doc /\ b # worker[w].batch
      BY <3>1, <3>2 DEF MayStore, Batches
    <3>4. CASE StoreBatch(worker[w].doc, worker[w].batch,
                          worker[w].batch \in worker[w].blank)
      BY <2>2, <3>1, <3>3, <3>4, CopyTaken
    <3>5. CASE UNCHANGED points
      <4>1. \A v \in Workers, b \in Batches : MayStore(v, b)' =>
              MayStore(v, b) /\ worker'[v].doc = worker[v].doc
        BY <2>2, <3>3 DEF MayStore
      <4> QED BY <2>2, <3>5, <4>1, CopiesStay
    <3> QED BY <2>3, <3>4, <3>5 DEF UpsertBatch
  <2>4. CASE SoftLimit(w)
    <3>1. /\ worker'[w].pc = AfterSoftLimit(worker[w].pc)
          /\ worker'[w].doc = worker[w].doc /\ Active(w)
      BY <2>4, SoftLimitMoves
    <3>2. \A b \in Batches : MayStore(w, b)' => worker[w].pc = "embed"
      BY <3>1 DEF MayStore, AfterSoftLimit, Active, Body, Handler
    <3>3. CASE /\ worker[w].pc = "upsert" /\ worker[w].batch \in Batches
               /\ StoreBatch(worker[w].doc, worker[w].batch,
                             worker[w].batch \in worker[w].blank)
      <4>1. \A b \in Batches : ~MayStore(w, b)'
        BY <3>2, <3>3
      <4> QED BY <2>2, <3>3, <4>1, CopyTaken
    <3>4. CASE UNCHANGED points
      <4>1. \A v \in Workers, b \in Batches : MayStore(v, b)' =>
              MayStore(v, b) /\ worker'[v].doc = worker[v].doc
        BY <2>2, <3>1, <3>2 DEF MayStore
      <4> QED BY <2>2, <3>4, <4>1, CopiesStay
    <3> QED BY <2>4, <3>3, <3>4 DEF SoftLimit
  <2>5. CASE ~UpsertBatch(w) /\ ~SoftLimit(w)
    <3>1. UNCHANGED points
      BY <1>2, <2>5 DEF WorkerStep, ParseAndChunk, Embed, BuildBm25, SetBm25Key,
         UploadOriginal, MarkIndexed, MarkFailed, SendAlert, Retry, Acknowledge,
         HardLimit, stores
    <3>2. \A b \in Batches : MayStore(w, b)' =>
            MayStore(w, b) /\ worker'[w].doc = worker[w].doc
      <4>1. ASSUME worker'[w] # Idle, worker'[w].pc \in {"parse", "embed", "upsert"}
            PROVE  worker[w].pc \in {"parse", "embed"}
        <5>1. ASSUME NEW pc \in {"fail", "chunks", "minio", "mark", "ack", "alert",
                                 "retry"},
                     Active(w), Goto(w, pc)
              PROVE  FALSE
          BY <4>1, <5>1, GotoContinues
        <5>2. CASE ParseAndChunk(w) \/ Embed(w)
          BY <5>2 DEF ParseAndChunk, Embed
        <5>3. CASE BuildBm25(w) \/ UploadOriginal(w) \/ MarkIndexed(w) \/ MarkFailed(w)
                   \/ SendAlert(w) \/ Retry(w)
          BY <5>1, <5>3 DEF BuildBm25, SetBm25Key, UploadOriginal, MarkIndexed,
             MarkFailed, SendAlert, Retry, Active, Body, Handler
        <5>4. CASE Acknowledge(w) \/ HardLimit(w)
          BY <4>1, <5>4 DEF Acknowledge, HardLimit, TypeOK, WorkerTypeOK
        <5> QED BY <1>2, <2>5, <5>2, <5>3, <5>4 DEF WorkerStep
      <4>2. worker'[w] = Idle \/ worker'[w].doc = worker[w].doc
        BY <2>1 DEF Continues
      <4>3. worker'[w] = Idle => \A b \in Batches : ~MayStore(w, b)'
        BY DEF MayStore, Idle
      <4> QED BY <4>1, <4>2, <4>3 DEF MayStore
    <3>3. \A v \in Workers, b \in Batches : MayStore(v, b)' =>
            MayStore(v, b) /\ worker'[v].doc = worker[v].doc
      BY <2>2, <3>2 DEF MayStore
    <3> QED BY <2>2, <3>1, <3>3, CopiesStay
  <2> QED BY <2>3, <2>4, <2>5
<1> QED BY <1>1, <1>2

\* No run sends a batch twice and nothing but a run adds points: a passage is
\* in Qdrant at most once for each run started, for every number of runs,
\* processes and batches and under every choice of faults.
THEOREM CopiesAreBounded == Spec => []CopiesBoundedByRuns
<1>1. TypeOK /\ Init => CopiesInv
  <2> SUFFICES ASSUME Init, NEW d \in Docs, NEW b \in Batches
               PROVE  points[d][b] + Cardinality(Storers(d, b)) <= runs[d]
    BY DEF CopiesInv
  <2>1. points[d][b] = 0 /\ runs[d] = 0
    BY DEF Init
  <2>2. \A w \in Workers : ~MayStore(w, b)
    BY DEF Init, MayStore, Idle
  <2>3. Storers(d, b) = {}
    BY <2>2 DEF Storers
  <2> QED BY <2>1, <2>3, FS_EmptySet
<1>2. TypeOK /\ TypeOK' /\ CopiesInv /\ [Next]_vars => CopiesInv'
  <2> SUFFICES ASSUME TypeOK, TypeOK', CopiesInv, [Next]_vars PROVE CopiesInv'
    OBVIOUS
  <2>1. ASSUME UNCHANGED <<points, runs, worker>> PROVE CopiesInv'
    BY <2>1, CopiesStay DEF MayStore
  <2>2. ASSUME NEW d \in Docs, GatewayStep(d) \/ GatewayDies(d) \/ Evict(d)
        PROVE  CopiesInv'
    BY <2>1, <2>2 DEF GatewayStep, InsertRow, SaveFile, SendTask, InsertJob,
       ReportError, GatewayDies, Evict, stores
  <2>3. ASSUME NEW w \in Workers, WorkerStep(w) \/ SoftLimit(w) \/ HardLimit(w)
        PROVE  CopiesInv'
    BY <2>3, CopiesWorker
  <2>4. CASE CrashContainer
    <3>1. \A w \in Workers, b \in Batches : ~MayStore(w, b)'
      BY <2>4 DEF CrashContainer, MayStore, Idle
    <3>2. UNCHANGED <<points, runs>>
      BY <2>4 DEF CrashContainer, stores
    <3> QED BY <3>1, <3>2, CopiesStay
  <2>5. CASE UNCHANGED vars
    BY <2>1, <2>5 DEF vars
  <2> QED BY <2>2, <2>3, <2>4, <2>5 DEF Next
<1>3. TypeOK /\ CopiesInv => CopiesBoundedByRuns
  <2> SUFFICES ASSUME TypeOK, CopiesInv, NEW d \in Docs, NEW b \in Batches
               PROVE  points[d][b] <= runs[d]
    BY DEF CopiesBoundedByRuns
  <2>1. /\ points[d][b] + Cardinality(Storers(d, b)) <= runs[d]
        /\ points[d][b] \in Nat /\ runs[d] \in Nat
    BY DEF CopiesInv, TypeOK, StoreTypeOK
  <2> QED BY <2>1, StorersFinite
<1> QED BY <1>1, <1>2, <1>3, TypeCorrect, PTL DEF Spec


--------------------------------------------------------------------------
\* Attempts of a document

\* One element for each attempt a document may still cause: for the i-th of
\* the messages <d, k> in the queue q the attempts k, k + 1, ..., MaxRetries,
\* for a run of attempt k the later ones, for a request that has not sent its
\* task all MaxRetries + 1 of them.
Messages(q) == {m \in Attempts \X Nat : m[2] < q[m[1]]}

MessageAttempts(q) == {a \in Messages(q) \X Attempts : a[1][1] <= a[2]}

RunAttempts(d) ==
    {a \in Workers \X Attempts : /\ Active(a[1]) /\ worker[a[1]].doc = d
                                 /\ worker[a[1]].retries < a[2]}

Unsent(d) == IF gateway[d] \in {"new", "save", "send"} THEN MaxRetries + 1 ELSE 0

\* AttemptsBounded alone is not inductive.  What is: the runs started and the
\* attempts the document may still cause stay within the bound.  A retry moves
\* the attempts of its run to a message, a run takes them back and spends one,
\* and only a crash adds new ones, at most MaxRetries + 1 for each process.
AttemptsInv ==
    \A d \in Docs :
        /\ IsFiniteSet(MessageAttempts(queue[d]))
        /\ runs[d] + Cardinality(MessageAttempts(queue[d])) + Cardinality(RunAttempts(d))
              + Unsent(d) <= (MaxRetries + 1) * (1 + crashes * Cardinality(Workers))

\* There are MaxRetries + 1 attempts.
LEMMA AttemptsFinite == IsFiniteSet(Attempts) /\ Cardinality(Attempts) = MaxRetries + 1
BY PipelineAssumption, FS_Interval DEF Attempts

\* Finite now and after any step.
LEMMA RunAttemptsFinite ==
    ASSUME NEW d
    PROVE  /\ IsFiniteSet(RunAttempts(d)) /\ Cardinality(RunAttempts(d)) \in Nat
           /\ IsFiniteSet(RunAttempts(d)') /\ Cardinality(RunAttempts(d)') \in Nat
<1> DEFINE T == RunAttempts(d)'
<1>1. IsFiniteSet(Workers \X Attempts)
  BY AttemptsFinite, PipelineAssumption, FS_Product
<1>2. RunAttempts(d) \subseteq Workers \X Attempts /\ T \subseteq Workers \X Attempts
  BY DEF RunAttempts
<1> HIDE DEF T
<1>3. IsFiniteSet(T) /\ Cardinality(T) \in Nat
  BY <1>1, <1>2, FS_Subset, FS_CardinalityType
<1> QED BY <1>1, <1>2, <1>3, FS_Subset, FS_CardinalityType DEF T

\* The attempts one message or one run may still cause.
LEMMA LaterAttempts ==
    ASSUME NEW k \in Nat, k <= MaxRetries + 1, NEW x
    PROVE  /\ IsFiniteSet({x} \X (k..MaxRetries))
           /\ Cardinality({x} \X (k..MaxRetries)) = MaxRetries + 1 - k
<1> DEFINE I == k..MaxRetries
<1>1. MaxRetries \in Int /\ k \in Int
  BY PipelineAssumption
<1>2. IsFiniteSet(I) /\ Cardinality(I) = IF k > MaxRetries THEN 0 ELSE MaxRetries - k + 1
  BY <1>1, FS_Interval
<1>3. Cardinality(I) = MaxRetries + 1 - k
  BY <1>1, <1>2
<1> HIDE DEF I
<1>4. IsFiniteSet({x}) /\ Cardinality({x}) = 1
  BY FS_Singleton
<1>5. /\ IsFiniteSet({x} \X I)
      /\ Cardinality({x} \X I) = Cardinality({x}) * Cardinality(I)
  BY <1>2, <1>4, FS_Product
<1>6. Cardinality({x}) * Cardinality(I) = MaxRetries + 1 - k
  BY <1>1, <1>3, <1>4
<1> QED BY <1>5, <1>6 DEF I

\* One message <d, k> more or less in the queue of d is MaxRetries + 1 - k
\* attempts more or less.
LEMMA OneMoreMessage ==
    ASSUME NEW q \in [Attempts -> Nat], NEW k \in Attempts,
           NEW r, r = [q EXCEPT ![k] = q[k] + 1]
    PROVE  /\ IsFiniteSet(MessageAttempts(q)) <=> IsFiniteSet(MessageAttempts(r))
           /\ IsFiniteSet(MessageAttempts(q)) =>
                /\ Cardinality(MessageAttempts(q)) \in Nat
                /\ Cardinality(MessageAttempts(r))
                     = Cardinality(MessageAttempts(q)) + (MaxRetries + 1 - k)
<1> DEFINE m0 == <<k, q[k]>>
           Few == MessageAttempts(q)
           Many == MessageAttempts(r)
           More == {m0} \X (k..MaxRetries)
<1>1. k \in Nat /\ k <= MaxRetries + 1
  BY PipelineAssumption DEF Attempts
<1>2. IsFiniteSet(More) /\ Cardinality(More) = MaxRetries + 1 - k
  BY <1>1, LaterAttempts
<1>3. Messages(r) = Messages(q) \cup {m0} /\ m0 \notin Messages(q)
  <2>1. \A j \in Attempts, i \in Nat : i < r[j] <=> i < q[j] \/ (j = k /\ i = q[k])
    OBVIOUS
  <2>2. ASSUME NEW j \in Attempts, NEW i \in Nat
        PROVE  <<j, i>> \in Messages(r) <=> <<j, i>> \in Messages(q) \cup {m0}
    BY <2>1 DEF Messages
  <2>3. \A m \in Messages(r) \cup Messages(q) \cup {m0} :
          \E j \in Attempts, i \in Nat : m = <<j, i>>
    BY DEF Messages
  <2> QED BY <2>2, <2>3 DEF Messages
<1> HIDE DEF m0
<1>4. Many = Few \cup More
  <2>1. ASSUME NEW m \in Attempts \X Nat, NEW j \in Attempts
        PROVE  /\ <<m, j>> \in Many <=> m \in Messages(r) /\ m[1] <= j
               /\ <<m, j>> \in Few <=> m \in Messages(q) /\ m[1] <= j
               /\ <<m, j>> \in More <=> m = m0 /\ k <= j
    <3>1. j \in k..MaxRetries <=> k <= j
      BY <1>1 DEF Attempts
    <3> QED BY <3>1 DEF MessageAttempts, Messages
  <2>2. ASSUME NEW m \in Attempts \X Nat, NEW j \in Attempts
        PROVE  <<m, j>> \in Many <=> <<m, j>> \in Few \cup More
    <3>1. m0[1] = k
      BY DEF m0
    <3> HIDE DEF Many, Few, More
    <3> QED BY <1>3, <2>1, <3>1
  <2>3. \A a \in Many \cup Few \cup More :
          \E m \in Attempts \X Nat, j \in Attempts : a = <<m, j>>
    <3>1. k..MaxRetries \subseteq Attempts /\ m0 \in Attempts \X Nat
      BY <1>1 DEF Attempts, m0
    <3>2. \A a \in Many \cup Few :
            \E m \in Attempts \X Nat, j \in Attempts : a = <<m, j>>
      BY DEF MessageAttempts, Messages
    <3> QED BY <3>1, <3>2
  <2> HIDE DEF Many, Few, More
  <2> QED BY <2>2, <2>3
<1>5. Few \cap More = {} /\ Few \subseteq Many
  BY <1>3, <1>4 DEF MessageAttempts
<1> HIDE DEF Few, Many, More
<1>6. IsFiniteSet(Few) => IsFiniteSet(Many)
  BY <1>2, <1>4, FS_Union
<1>7. IsFiniteSet(Many) => IsFiniteSet(Few)
  BY <1>5, FS_Subset
<1>8. ASSUME IsFiniteSet(Few)
      PROVE  /\ Cardinality(Few) \in Nat
             /\ Cardinality(Many) = Cardinality(Few) + (MaxRetries + 1 - k)
  <2>1. Cardinality(Many) = Cardinality(Few) + Cardinality(More) - Cardinality({})
    BY <1>2, <1>4, <1>5, <1>8, FS_Union
  <2>2. Cardinality(Few) \in Nat /\ Cardinality({}) = 0
    BY <1>8, FS_CardinalityType, FS_EmptySet
  <2>3. MaxRetries + 1 - k \in Int
    BY <1>1, PipelineAssumption
  <2> QED BY <1>2, <2>1, <2>2, <2>3
<1> QED BY <1>6, <1>7, <1>8 DEF Few, Many

\* The queue of one document before and after a message is published.
LEMMA PublishAttempts ==
    ASSUME TypeOK, NEW d \in Docs, NEW k \in Attempts, Publish(d, k),
           NEW e \in Docs, IsFiniteSet(MessageAttempts(queue[e]))
    PROVE  /\ IsFiniteSet(MessageAttempts(queue'[e]))
           /\ Cardinality(MessageAttempts(queue[e])) \in Nat
           /\ Cardinality(MessageAttempts(queue'[e])) =
                IF e = d THEN Cardinality(MessageAttempts(queue[e])) + (MaxRetries + 1 - k)
                ELSE Cardinality(MessageAttempts(queue[e]))
<1>1. /\ queue[d] \in [Attempts -> Nat]
      /\ queue'[d] = [queue[d] EXCEPT ![k] = queue[d][k] + 1]
      /\ e # d => queue'[e] = queue[e]
  BY DEF Publish, TypeOK
<1>2. Cardinality(MessageAttempts(queue[e])) \in Nat
  BY FS_CardinalityType
<1>3. CASE e = d
  BY <1>1, <1>2, <1>3, OneMoreMessage
<1>4. CASE e # d
  BY <1>1, <1>2, <1>4
<1> QED BY <1>3, <1>4

\* The same for a message that is taken from the queue.
LEMMA TakenAttempts ==
    ASSUME TypeOK, NEW d \in Docs, NEW k \in Attempts, queue[d][k] > 0,
           queue' = [queue EXCEPT ![d][k] = @ - 1],
           NEW e \in Docs, IsFiniteSet(MessageAttempts(queue[e]))
    PROVE  /\ IsFiniteSet(MessageAttempts(queue'[e]))
           /\ Cardinality(MessageAttempts(queue'[e])) \in Nat
           /\ Cardinality(MessageAttempts(queue[e])) =
                IF e = d THEN Cardinality(MessageAttempts(queue'[e])) + (MaxRetries + 1 - k)
                ELSE Cardinality(MessageAttempts(queue'[e]))
<1> DEFINE r == [queue[d] EXCEPT ![k] = queue[d][k] - 1]
<1>1. /\ queue[d] \in [Attempts -> Nat] /\ queue'[d] = r
      /\ e # d => queue'[e] = queue[e]
  BY DEF TypeOK
<1>2. r \in [Attempts -> Nat] /\ queue[d] = [r EXCEPT ![k] = r[k] + 1]
  BY <1>1
<1> HIDE DEF r
<1>3. CASE e = d
  BY <1>1, <1>2, <1>3, OneMoreMessage
<1>4. CASE e # d
  BY <1>1, <1>4, FS_CardinalityType
<1> QED BY <1>3, <1>4

\* A crash delivers the message of each process again: every attempt it adds
\* to a document is one of the attempts of one of the processes.
LEMMA RedeliveredAttempts ==
    ASSUME TypeOK, CrashContainer, NEW d \in Docs, IsFiniteSet(MessageAttempts(queue[d]))
    PROVE  /\ IsFiniteSet(MessageAttempts(queue'[d]))
           /\ Cardinality(MessageAttempts(queue'[d])) <=
                Cardinality(MessageAttempts(queue[d])) + Cardinality(Workers) * (MaxRetries + 1)
<1> DEFINE U(k) == Unacknowledged(d, k)
           n(k) == Cardinality(U(k))
           q == queue[d]
           r == queue'[d]
           Old == MessageAttempts(q)
           All == MessageAttempts(r)
           New == {a \in All : q[a[1][1]] <= a[1][2]}
           g == [k \in Attempts |-> CHOOSE b : b \in Bijection(1..n(k), U(k))]
           h == [a \in New |-> <<g[a[1][1]][a[1][2] - q[a[1][1]] + 1], a[2]>>]
<1>1. \A k \in Attempts : n(k) \in Nat /\ g[k] \in Bijection(1..n(k), U(k))
  <2> SUFFICES ASSUME NEW k \in Attempts
               PROVE  n(k) \in Nat /\ g[k] \in Bijection(1..n(k), U(k))
    OBVIOUS
  <2>1. U(k) \subseteq Workers
    BY DEF Unacknowledged
  <2>2. n(k) \in Nat /\ ExistsBijection(1..n(k), U(k))
    BY <2>1, PipelineAssumption, FS_Subset, FS_CardinalityType
  <2>3. \E b : b \in Bijection(1..n(k), U(k))
    BY <2>2 DEF ExistsBijection
  <2> QED BY <2>2, <2>3
<1>2. /\ q \in [Attempts -> Nat]
      /\ \A k \in Attempts : r[k] = q[k] + n(k)
  BY DEF CrashContainer, TypeOK
<1> HIDE DEF g, n, q, r
<1>3. \A k \in Attempts :
        /\ \A i \in 1..n(k) : g[k][i] \in U(k)
        /\ \A i, j \in 1..n(k) : g[k][i] = g[k][j] => i = j
  BY <1>1 DEF Bijection, Injection, IsInjective
<1>4. ASSUME NEW a \in New
      PROVE  /\ a[1][1] \in Attempts /\ a[1][2] \in Nat /\ a[2] \in Attempts
             /\ a = <<<<a[1][1], a[1][2]>>, a[2]>>
             /\ a[1][2] - q[a[1][1]] + 1 \in 1..n(a[1][1])
  <2>1. /\ a[1][1] \in Attempts /\ a[1][2] \in Nat /\ a[2] \in Attempts
        /\ a = <<<<a[1][1], a[1][2]>>, a[2]>>
        /\ a[1][2] < r[a[1][1]] /\ q[a[1][1]] <= a[1][2]
    BY DEF MessageAttempts, Messages
  <2> DEFINE k == a[1][1]
             i == a[1][2]
  <2>2. q[k] \in Nat /\ n(k) \in Nat /\ r[k] = q[k] + n(k)
    BY <1>1, <1>2, <2>1
  <2>3. i - q[k] + 1 \in 1..n(k)
    <3> HIDE DEF k, i
    <3>1. i \in Nat /\ i < r[k] /\ q[k] <= i
      BY <2>1 DEF i, k
    <3> QED BY <2>2, <3>1
  <2> QED BY <2>1, <2>3
<1>5. h \in [New -> Workers \X Attempts]
  <2>1. ASSUME NEW a \in New PROVE h[a] \in Workers \X Attempts
    <3>1. g[a[1][1]][a[1][2] - q[a[1][1]] + 1] \in U(a[1][1])
      BY <1>3, <1>4
    <3> QED BY <1>4, <3>1 DEF Unacknowledged
  <2> QED BY <2>1
<1>6. \A a, c \in New : h[a] = h[c] => a = c
  <2> SUFFICES ASSUME NEW a \in New, NEW c \in New, h[a] = h[c] PROVE a = c
    OBVIOUS
  <2> DEFINE k == a[1][1]
             l == c[1][1]
             i == a[1][2] - q[k] + 1
             j == c[1][2] - q[l] + 1
  <2>1. g[k][i] = g[l][j] /\ a[2] = c[2]
    OBVIOUS
  <2>2. /\ k \in Attempts /\ i \in 1..n(k) /\ a[1][2] \in Nat
        /\ l \in Attempts /\ j \in 1..n(l) /\ c[1][2] \in Nat
        /\ a = <<<<k, a[1][2]>>, a[2]>> /\ c = <<<<l, c[1][2]>>, c[2]>>
    BY <1>4
  <2>3. g[k][i] \in U(k) /\ g[l][j] \in U(l)
    BY <1>3, <2>2
  <2>4. k = l
    BY <2>1, <2>3 DEF Unacknowledged
  <2>5. i = j
    <3> HIDE DEF i, j, k, l
    <3> QED BY <1>3, <2>1, <2>2, <2>4
  <2>6. a[1][2] = c[1][2]
    <3>1. q[k] \in Nat
      BY <1>2, <2>2
    <3> QED BY <2>2, <2>4, <2>5, <3>1
  <2> QED BY <2>1, <2>2, <2>4, <2>6
<1> HIDE DEF h
<1>7. /\ IsFiniteSet(Workers \X Attempts)
      /\ Cardinality(Workers \X Attempts) = Cardinality(Workers) * (MaxRetries + 1)
  BY AttemptsFinite, PipelineAssumption, FS_Product
<1>8. IsFiniteSet(New) /\ Cardinality(New) <= Cardinality(Workers \X Attempts)
  <2> HIDE DEF New
  <2>1. h \in Injection(New, Workers \X Attempts)
    BY <1>5, <1>6 DEF Injection, IsInjective
  <2> QED BY <1>7, <2>1, FS_Injection
<1>9. All = Old \cup New
  <2>1. ASSUME NEW k \in Attempts, NEW i \in Nat, NEW j \in Attempts
        PROVE  <<<<k, i>>, j>> \in All <=> <<<<k, i>>, j>> \in Old \cup New
    <3>1. /\ <<<<k, i>>, j>> \in All <=> i < r[k] /\ k <= j
          /\ <<<<k, i>>, j>> \in Old <=> i < q[k] /\ k <= j
          /\ <<<<k, i>>, j>> \in New <=> <<<<k, i>>, j>> \in All /\ q[k] <= i
      BY DEF MessageAttempts, Messages
    <3>2. q[k] \in Nat /\ n(k) \in Nat /\ r[k] = q[k] + n(k)
      BY <1>1, <1>2
    <3> HIDE DEF All, Old, New
    <3> QED BY <3>1, <3>2
  <2>2. \A a \in All \cup Old \cup New :
          \E k \in Attempts, i \in Nat, j \in Attempts : a = <<<<k, i>>, j>>
    BY DEF MessageAttempts, Messages
  <2> HIDE DEF All, Old, New
  <2> QED BY <2>1, <2>2
<1> HIDE DEF Old, New, All
<1>10. IsFiniteSet(Old)
  BY DEF Old, q
<1>11. /\ IsFiniteSet(All)
       /\ Cardinality(All) = Cardinality(Old) + Cardinality(New) - Cardinality(Old \cap New)
  BY <1>8, <1>9, <1>10, FS_Union
<1>12. /\ Cardinality(Old) \in Nat /\ Cardinality(New) \in Nat
       /\ Cardinality(Old \cap New) \in Nat
  BY <1>8, <1>10, FS_CardinalityType, FS_Intersection
<1>13. Cardinality(Workers) * (MaxRetries + 1) \in Nat
  BY <1>7, FS_CardinalityType
<1>14. Cardinality(All) <= Cardinality(Old) + Cardinality(Workers) * (MaxRetries + 1)
  BY <1>7, <1>8, <1>11, <1>12, <1>13
<1> QED BY <1>11, <1>14 DEF All, Old, q, r

\* The attempts of the runs of a document when run w goes on, and when it
\* publishes its successor.
LEMMA RunAttemptsStay ==
    ASSUME NEW w \in Workers, Continues(w), NEW d
    PROVE  Cardinality(RunAttempts(d)') <= Cardinality(RunAttempts(d))
<1> DEFINE T == RunAttempts(d)'
<1>1. T \subseteq RunAttempts(d)
  <2> SUFFICES ASSUME NEW v \in Workers, NEW j \in Attempts, <<v, j>> \in T
               PROVE  <<v, j>> \in RunAttempts(d)
    BY DEF RunAttempts
  <2>1. Active(v)' /\ worker'[v].doc = d /\ worker'[v].retries < j
    BY DEF RunAttempts
  <2>2. Active(v) /\ worker[v].doc = d /\ worker[v].retries < j
    <3>1. CASE v # w
      BY <2>1, <3>1 DEF Continues, Active
    <3>2. CASE v = w
      BY <2>1, <3>2 DEF Continues, Active, Idle, Body, Handler
    <3> QED BY <3>1, <3>2
  <2> QED BY <2>2 DEF RunAttempts
<1> HIDE DEF T
<1>2. Cardinality(T) <= Cardinality(RunAttempts(d))
  BY <1>1, RunAttemptsFinite, FS_Subset
<1> QED BY <1>2 DEF T

\* A run that ends frees the attempts that would have followed it.
LEMMA RunAttemptsHandedOn ==
    ASSUME TypeOK, NEW w \in Workers, Continues(w), Active(w), ~Active(w)',
           NEW d, worker[w].doc = d
    PROVE  Cardinality(RunAttempts(d)') + (MaxRetries - worker[w].retries)
             <= Cardinality(RunAttempts(d))
<1> DEFINE S == RunAttempts(d)
           T == RunAttempts(d)'
           k == worker[w].retries
           Own == {w} \X ((k + 1)..MaxRetries)
<1>1. k \in Nat /\ k <= MaxRetries /\ MaxRetries \in Nat
  BY PipelineAssumption DEF TypeOK, WorkerTypeOK, Run, Attempts
<1>2. IsFiniteSet(Own) /\ Cardinality(Own) = MaxRetries - k
  <2>1. k + 1 \in Nat /\ k + 1 <= MaxRetries + 1
    BY <1>1
  <2>2. MaxRetries + 1 - (k + 1) = MaxRetries - k
    BY <1>1
  <2> HIDE DEF k
  <2> QED BY <2>1, <2>2, LaterAttempts
<1>3. Own \subseteq S
  BY <1>1 DEF RunAttempts, Attempts
<1>4. T \subseteq S \ Own
  <2> SUFFICES ASSUME NEW v \in Workers, NEW j \in Attempts, <<v, j>> \in T
               PROVE  <<v, j>> \in S /\ v # w
    BY DEF RunAttempts
  <2>1. Active(v)' /\ worker'[v].doc = d /\ worker'[v].retries < j
    BY DEF RunAttempts
  <2>2. v # w
    BY <2>1
  <2> QED BY <2>1, <2>2 DEF RunAttempts, Continues, Active
<1> HIDE DEF T, Own
<1>5. IsFiniteSet(S) /\ Cardinality(S) \in Nat
  BY RunAttemptsFinite
<1> HIDE DEF S
<1>6. S \cap Own = Own
  BY <1>3
<1>7. IsFiniteSet(S \ Own) /\ Cardinality(S \ Own) = Cardinality(S) - Cardinality(Own)
  BY <1>5, <1>6, FS_Difference
<1>8. Cardinality(T) <= Cardinality(S \ Own) /\ Cardinality(T) \in Nat
  BY <1>4, <1>7, FS_Subset, FS_CardinalityType
<1>9. Cardinality(T) + (MaxRetries - k) <= Cardinality(S)
  BY <1>1, <1>2, <1>5, <1>7, <1>8
<1> QED BY <1>9 DEF T, S

\* The attempts of the runs of a document when process w takes <d, k>.
LEMMA RunAttemptsTaken ==
    ASSUME TypeOK, NEW w \in Workers, NEW d, NEW k \in Attempts,
           worker[w].pc = "idle", \A v \in Workers \ {w} : worker'[v] = worker[v],
           worker'[w].doc = d, worker'[w].retries = k,
           NEW e
    PROVE  Cardinality(RunAttempts(e)') <=
             IF e = d THEN Cardinality(RunAttempts(e)) + (MaxRetries - k)
             ELSE Cardinality(RunAttempts(e))
<1> DEFINE S == RunAttempts(e)
           T == RunAttempts(e)'
           Own == {w} \X ((k + 1)..MaxRetries)
<1>1. k \in Nat /\ k <= MaxRetries /\ MaxRetries \in Nat
  BY PipelineAssumption DEF Attempts
<1>2. IsFiniteSet(Own) /\ Cardinality(Own) = MaxRetries - k
  <2>1. k + 1 \in Nat /\ k + 1 <= MaxRetries + 1
    BY <1>1
  <2>2. MaxRetries + 1 - (k + 1) = MaxRetries - k
    BY <1>1
  <2> QED BY <2>1, <2>2, LaterAttempts
<1>3. /\ e = d => T \subseteq S \cup Own
      /\ e # d => T \subseteq S
  <2> SUFFICES ASSUME NEW v \in Workers, NEW j \in Attempts, <<v, j>> \in T
               PROVE  <<v, j>> \in S \/ (e = d /\ v = w /\ j \in (k + 1)..MaxRetries)
    BY DEF RunAttempts
  <2>1. Active(v)' /\ worker'[v].doc = e /\ worker'[v].retries < j
    BY DEF RunAttempts
  <2>2. CASE v = w
    BY <1>1, <2>1, <2>2 DEF Attempts
  <2>3. CASE v # w
    BY <2>1, <2>3 DEF RunAttempts, Active
  <2> QED BY <2>2, <2>3
<1>4. IsFiniteSet(S) /\ Cardinality(S) \in Nat
  BY RunAttemptsFinite
<1> HIDE DEF S, T, Own
<1>5. /\ IsFiniteSet(S \cup Own)
      /\ Cardinality(S \cup Own) = Cardinality(S) + Cardinality(Own) - Cardinality(S \cap Own)
      /\ Cardinality(S \cap Own) \in Nat /\ Cardinality(S \cup Own) \in Nat
  BY <1>2, <1>4, FS_Union, FS_Intersection, FS_CardinalityType
<1>6. CASE e = d
  <2>1. Cardinality(T) <= Cardinality(S \cup Own) /\ Cardinality(T) \in Nat
    BY <1>3, <1>5, <1>6, FS_Subset, FS_CardinalityType
  <2>2. Cardinality(T) <= Cardinality(S) + (MaxRetries - k)
    BY <1>1, <1>2, <1>4, <1>5, <2>1
  <2> QED BY <1>6, <2>2 DEF S, T
<1>7. CASE e # d
  <2>1. Cardinality(T) <= Cardinality(S)
    BY <1>3, <1>4, <1>7, FS_Subset
  <2> QED BY <1>7, <2>1 DEF S, T
<1> QED BY <1>6, <1>7

\* Unless the container crashes, a step only has to keep the balance.
LEMMA BalanceKept ==
    ASSUME TypeOK, TypeOK', AttemptsInv, UNCHANGED crashes,
           \A d \in Docs :
             /\ IsFiniteSet(MessageAttempts(queue'[d]))
             /\ runs'[d] + Cardinality(MessageAttempts(queue'[d]))
                    + Cardinality(RunAttempts(d)') + Unsent(d)'
                  <= runs[d] + Cardinality(MessageAttempts(queue[d]))
                       + Cardinality(RunAttempts(d)) + Unsent(d)
    PROVE  AttemptsInv'
<1> SUFFICES ASSUME NEW d \in Docs
             PROVE  /\ IsFiniteSet(MessageAttempts(queue'[d]))
                    /\ runs'[d] + Cardinality(MessageAttempts(queue'[d]))
                          + Cardinality(RunAttempts(d)') + Unsent(d)'
                         <= (MaxRetries + 1) * (1 + crashes * Cardinality(Workers))
  BY DEF AttemptsInv
<1> DEFINE bound == (MaxRetries + 1) * (1 + crashes * Cardinality(Workers))
           old == runs[d] + Cardinality(MessageAttempts(queue[d]))
                    + Cardinality(RunAttempts(d)) + Unsent(d)
           new == runs'[d] + Cardinality(MessageAttempts(queue'[d]))
                    + Cardinality(RunAttempts(d)') + Unsent(d)'
<1>1. old <= bound /\ new <= old /\ IsFiniteSet(MessageAttempts(queue'[d]))
  BY DEF AttemptsInv
<1>2. old \in Nat /\ new \in Nat
  <2>1. runs[d] \in Nat /\ runs'[d] \in Nat
    BY DEF TypeOK
  <2>2. IsFiniteSet(MessageAttempts(queue[d]))
    BY DEF AttemptsInv
  <2>3. /\ Cardinality(MessageAttempts(queue[d])) \in Nat
        /\ Cardinality(MessageAttempts(queue'[d])) \in Nat
    BY <1>1, <2>2, FS_CardinalityType
  <2>4. Cardinality(RunAttempts(d)) \in Nat /\ Cardinality(RunAttempts(d)') \in Nat
    BY RunAttemptsFinite
  <2>5. Unsent(d) \in Nat /\ Unsent(d)' \in Nat
    BY PipelineAssumption DEF Unsent
  <2> QED BY <2>1, <2>3, <2>4, <2>5
<1>3. bound \in Int
  <2>1. Cardinality(Workers) \in Nat /\ crashes \in Nat /\ MaxRetries \in Nat
    BY PipelineAssumption, FS_CardinalityType DEF TypeOK
  <2> QED BY <2>1
<1> HIDE DEF bound, old, new
<1>4. new <= bound
  BY <1>1, <1>2, <1>3
<1> QED BY <1>1, <1>4 DEF bound, new

\* The INSERT and what follows it: sending the task turns the attempts of the
\* request into those of its message.
LEMMA AttemptsGateway ==
    ASSUME TypeOK, TypeOK', AttemptsInv, NEW c \in Docs,
           GatewayStep(c) \/ GatewayDies(c)
    PROVE  AttemptsInv'
<1>1. UNCHANGED <<crashes, runs, worker>>
  BY DEF GatewayStep, InsertRow, SaveFile, SendTask, InsertJob, ReportError, GatewayDies
<1>2. gateway' = [gateway EXCEPT ![c] = gateway'[c]]
  BY DEF GatewayStep, InsertRow, SaveFile, SendTask, InsertJob, ReportError,
         GatewayDies, Answer, TypeOK
<1>3. \/ UNCHANGED queue /\ (gateway'[c] \in {"new", "save", "send"} =>
                               gateway[c] \in {"new", "save", "send"})
      \/ /\ Publish(c, 0) /\ gateway[c] = "send"
         /\ gateway'[c] \notin {"new", "save", "send"}
  BY DEF GatewayStep, InsertRow, SaveFile, SendTask, InsertJob, ReportError,
         GatewayDies, Answer, TypeOK
<1> SUFFICES ASSUME NEW d \in Docs
             PROVE  /\ IsFiniteSet(MessageAttempts(queue'[d]))
                    /\ runs'[d] + Cardinality(MessageAttempts(queue'[d]))
                           + Cardinality(RunAttempts(d)') + Unsent(d)'
                         <= runs[d] + Cardinality(MessageAttempts(queue[d]))
                              + Cardinality(RunAttempts(d)) + Unsent(d)
  BY <1>1, BalanceKept
<1> DEFINE m == Cardinality(MessageAttempts(queue[d]))
           n == Cardinality(MessageAttempts(queue'[d]))
           p == Cardinality(RunAttempts(d))
<1>4. IsFiniteSet(MessageAttempts(queue[d])) /\ m \in Nat
  <2>1. IsFiniteSet(MessageAttempts(queue[d]))
    BY DEF AttemptsInv
  <2> QED BY <2>1, FS_CardinalityType
<1>5. p \in Nat /\ Cardinality(RunAttempts(d)') = p /\ runs[d] \in Nat /\ MaxRetries \in Nat
  <2>1. RunAttempts(d)' = RunAttempts(d)
    BY <1>1 DEF RunAttempts, Active
  <2> QED BY <2>1, RunAttemptsFinite, PipelineAssumption DEF TypeOK
<1>6. CASE UNCHANGED queue /\ (gateway'[c] \in {"new", "save", "send"} =>
                                 gateway[c] \in {"new", "save", "send"})
  <2>1. Unsent(d)' <= Unsent(d) /\ Unsent(d) \in Nat /\ Unsent(d)' \in Nat
    BY <1>2, <1>5, <1>6 DEF Unsent, TypeOK
  <2>2. n = m
    BY <1>6
  <2> QED BY <1>1, <1>4, <1>5, <1>6, <2>1, <2>2
<1>7. CASE /\ Publish(c, 0) /\ gateway[c] = "send"
           /\ gateway'[c] \notin {"new", "save", "send"}
  <2>1. 0 \in Attempts
    BY PipelineAssumption DEF Attempts
  <2>2. /\ IsFiniteSet(MessageAttempts(queue'[d]))
        /\ n = IF d = c THEN m + (MaxRetries + 1 - 0) ELSE m
    BY <1>4, <1>7, <2>1, PublishAttempts
  <2>3. CASE d = c
    <3>1. Unsent(d) = MaxRetries + 1 /\ Unsent(d)' = 0
      BY <1>7, <2>3 DEF Unsent
    <3> HIDE DEF m, n, p
    <3>2. n = m + MaxRetries + 1
      BY <1>4, <1>5, <2>2, <2>3
    <3> QED BY <1>1, <1>4, <1>5, <2>2, <3>1, <3>2 DEF m, n, p
  <2>4. CASE d # c
    <3>1. Unsent(d)' = Unsent(d) /\ Unsent(d) \in Nat
      BY <1>2, <1>5, <2>4 DEF Unsent, TypeOK
    <3> QED BY <1>1, <1>4, <1>5, <2>2, <2>4, <3>1
  <2> QED BY <2>3, <2>4
<1> QED BY <1>3, <1>6, <1>7

\* A run spends one of the attempts of its message; from then on it only
\* gives up attempts, or hands the later ones on to the message it publishes.
LEMMA AttemptsWorker ==
    ASSUME TypeOK, TypeOK', AttemptsInv, NEW w \in Workers,
           WorkerStep(w) \/ SoftLimit(w) \/ HardLimit(w)
    PROVE  AttemptsInv'
<1>1. CASE TakeMessage(w)
  <2>1. PICK c \in Docs, k \in Attempts :
          /\ queue[c][k] > 0
          /\ queue' = [queue EXCEPT ![c][k] = @ - 1]
          /\ runs' = [runs EXCEPT ![c] = @ + 1]
          /\ worker[w].pc = "idle"
          /\ \A v \in Workers \ {w} : worker'[v] = worker[v]
          /\ worker'[w].doc = c /\ worker'[w].retries = k
          /\ UNCHANGED <<gateway, crashes>>
    BY <1>1, TakeMoves
  <2> SUFFICES ASSUME NEW d \in Docs
               PROVE  /\ IsFiniteSet(MessageAttempts(queue'[d]))
                      /\ runs'[d] + Cardinality(MessageAttempts(queue'[d]))
                             + Cardinality(RunAttempts(d)') + Unsent(d)'
                           <= runs[d] + Cardinality(MessageAttempts(queue[d]))
                                + Cardinality(RunAttempts(d)) + Unsent(d)
    BY <2>1, BalanceKept
  <2> DEFINE m == Cardinality(MessageAttempts(queue[d]))
             n == Cardinality(MessageAttempts(queue'[d]))
             p == Cardinality(RunAttempts(d))
             r == Cardinality(RunAttempts(d)')
  <2>2. IsFiniteSet(MessageAttempts(queue[d]))
    BY DEF AttemptsInv
  <2>3. /\ IsFiniteSet(MessageAttempts(queue'[d])) /\ n \in Nat
        /\ m = IF d = c THEN n + (MaxRetries + 1 - k) ELSE n
    BY <2>1, <2>2, TakenAttempts
  <2>4. /\ p \in Nat /\ r \in Nat
        /\ r <= IF d = c THEN p + (MaxRetries - k) ELSE p
    BY <2>1, RunAttemptsFinite, RunAttemptsTaken
  <2>5. /\ runs[d] \in Nat
        /\ runs'[d] = IF d = c THEN runs[d] + 1 ELSE runs[d]
        /\ Unsent(d)' = Unsent(d) /\ Unsent(d) \in Nat
        /\ MaxRetries \in Nat /\ k \in Nat
    BY <2>1, PipelineAssumption DEF TypeOK, Unsent, Attempts
  <2> HIDE DEF m, n, p, r
  <2>6. runs'[d] + n + r + Unsent(d)' <= runs[d] + m + p + Unsent(d)
    <3>1. CASE d = c
      BY <2>3, <2>4, <2>5, <3>1
    <3>2. CASE d # c
      BY <2>3, <2>4, <2>5, <3>2
    <3> QED BY <3>1, <3>2
  <2> QED BY <2>3, <2>6 DEF m, n, p, r
<1>2. CASE ~TakeMessage(w)
  <2>1. Continues(w)
    BY <1>2, RunContinues
  <2> DEFINE k == worker[w].retries
  <2>2. \/ UNCHANGED queue
        \/ /\ worker[w].pc = "retry" /\ worker'[w].pc = "ack"
           /\ k + 1 <= MaxRetries /\ Publish(worker[w].doc, k + 1)
    <3>1. CASE Retry(w)
      <4>1. worker[w].pc = "retry" /\ Goto(w, "ack")
        BY <3>1 DEF Retry
      <4>2. worker'[w].pc = "ack"
        BY <4>1, GotoContinues DEF Active, Handler
      <4> QED BY <3>1, <4>1, <4>2 DEF Retry
    <3>2. CASE ~Retry(w)
      BY <1>2, <3>2 DEF WorkerStep, ParseAndChunk, Embed, UpsertBatch, BuildBm25,
         SetBm25Key, UploadOriginal, MarkIndexed, MarkFailed, SendAlert, Acknowledge,
         SoftLimit, HardLimit
    <3> QED BY <3>1, <3>2
  <2>3. UNCHANGED <<gateway, runs, crashes>> /\ worker[w].doc \in Docs
    BY <2>1 DEF Continues
  <2> SUFFICES ASSUME NEW d \in Docs
               PROVE  /\ IsFiniteSet(MessageAttempts(queue'[d]))
                      /\ runs'[d] + Cardinality(MessageAttempts(queue'[d]))
                             + Cardinality(RunAttempts(d)') + Unsent(d)'
                           <= runs[d] + Cardinality(MessageAttempts(queue[d]))
                                + Cardinality(RunAttempts(d)) + Unsent(d)
    BY <2>3, BalanceKept
  <2> DEFINE m == Cardinality(MessageAttempts(queue[d]))
             n == Cardinality(MessageAttempts(queue'[d]))
             p == Cardinality(RunAttempts(d))
             r == Cardinality(RunAttempts(d)')
  <2>4. IsFiniteSet(MessageAttempts(queue[d])) /\ m \in Nat
    <3>1. IsFiniteSet(MessageAttempts(queue[d]))
      BY DEF AttemptsInv
    <3> QED BY <3>1, FS_CardinalityType
  <2>5. p \in Nat /\ r \in Nat /\ r <= p
    BY <2>1, RunAttemptsFinite, RunAttemptsStay
  <2>6. /\ runs'[d] = runs[d] /\ runs[d] \in Nat
        /\ Unsent(d)' = Unsent(d) /\ Unsent(d) \in Nat
        /\ MaxRetries \in Nat /\ k \in Nat
    BY <2>3, PipelineAssumption DEF TypeOK, Unsent, Attempts, WorkerTypeOK, Run
  <2>7. IsFiniteSet(MessageAttempts(queue'[d])) /\ n \in Nat /\ n + r <= m + p
    <3>1. CASE UNCHANGED queue
      <4>1. n = m
        BY <3>1
      <4> HIDE DEF m, n, p, r
      <4> QED BY <2>4, <2>5, <3>1, <4>1
    <3>2. CASE /\ worker[w].pc = "retry" /\ worker'[w].pc = "ack"
               /\ k + 1 <= MaxRetries /\ Publish(worker[w].doc, k + 1)
      <4>1. k + 1 \in Attempts
        BY <2>6, <3>2 DEF Attempts
      <4>2. /\ IsFiniteSet(MessageAttempts(queue'[d]))
            /\ n = IF d = worker[w].doc THEN m + (MaxRetries + 1 - (k + 1)) ELSE m
        BY <2>3, <2>4, <3>2, <4>1, PublishAttempts
      <4>3. CASE d = worker[w].doc
        <5>1. Active(w) /\ ~Active(w)'
          BY <3>2 DEF Active, Body, Handler
        <5>2. r + (MaxRetries - k) <= p
          BY <2>1, <4>3, <5>1, RunAttemptsHandedOn
        <5> HIDE DEF m, n, p, r, k
        <5> QED BY <2>4, <2>5, <2>6, <3>2, <4>2, <4>3, <5>2
      <4>4. CASE d # worker[w].doc
        <5>1. n = m
          BY <4>2, <4>4
        <5> HIDE DEF m, n, p, r, k
        <5> QED BY <2>4, <2>5, <4>2, <5>1
      <4> QED BY <4>3, <4>4
    <3> QED BY <2>2, <3>1, <3>2
  <2> HIDE DEF m, n, p, r
  <2>8. runs'[d] + n + r + Unsent(d)' <= runs[d] + m + p + Unsent(d)
    BY <2>4, <2>5, <2>6, <2>7
  <2> QED BY <2>7, <2>8 DEF m, n, p, r
<1> QED BY <1>1, <1>2

\* A crash adds what the bound allows it for each process.
LEMMA AttemptsCrash ==
    ASSUME TypeOK, TypeOK', AttemptsInv, CrashContainer
    PROVE  AttemptsInv'
<1> SUFFICES ASSUME NEW d \in Docs
             PROVE  /\ IsFiniteSet(MessageAttempts(queue'[d]))
                    /\ runs'[d] + Cardinality(MessageAttempts(queue'[d]))
                          + Cardinality(RunAttempts(d)') + Unsent(d)'
                         <= (MaxRetries + 1) * (1 + crashes' * Cardinality(Workers))
  BY DEF AttemptsInv
<1> DEFINE m == Cardinality(MessageAttempts(queue[d]))
           n == Cardinality(MessageAttempts(queue'[d]))
           p == Cardinality(RunAttempts(d))
           c == Cardinality(Workers)
           a == MaxRetries + 1
<1>1. /\ IsFiniteSet(MessageAttempts(queue[d])) /\ m \in Nat
      /\ runs[d] + m + p + Unsent(d) <= a * (1 + crashes * c)
  <2>1. /\ IsFiniteSet(MessageAttempts(queue[d]))
        /\ runs[d] + m + p + Unsent(d) <= a * (1 + crashes * c)
    BY DEF AttemptsInv
  <2> QED BY <2>1, FS_CardinalityType
<1>2. p \in Nat /\ c \in Nat /\ a \in Nat
  BY RunAttemptsFinite, PipelineAssumption, FS_CardinalityType
<1>3. IsFiniteSet(MessageAttempts(queue'[d])) /\ n \in Nat /\ n <= m + c * a
  <2>1. IsFiniteSet(MessageAttempts(queue'[d])) /\ n <= m + c * a
    BY <1>1, RedeliveredAttempts
  <2> QED BY <2>1, FS_CardinalityType
<1>4. Cardinality(RunAttempts(d)') = 0
  <2> DEFINE T == RunAttempts(d)'
  <2>1. \A w \in Workers : ~Active(w)'
    BY DEF CrashContainer, Active, Idle, Body, Handler
  <2>2. T = {}
    BY <2>1 DEF RunAttempts
  <2> HIDE DEF T
  <2>3. Cardinality(T) = 0
    BY <2>2, FS_EmptySet
  <2> QED BY <2>3 DEF T
<1>5. /\ runs'[d] = runs[d] /\ runs[d] \in Nat
      /\ Unsent(d)' = Unsent(d) /\ Unsent(d) \in Nat
      /\ crashes' = crashes + 1 /\ crashes \in Nat
  BY PipelineAssumption DEF TypeOK, CrashContainer, Unsent
<1> HIDE DEF m, n, p, c, a
<1>6. a * (1 + crashes' * c) = a * (1 + crashes * c) + c * a
  BY <1>2, <1>5
<1>7. runs'[d] + n + 0 + Unsent(d)' <= a * (1 + crashes' * c)
  <2> DEFINE u == a * (1 + crashes * c)
             v == c * a
  <2>1. u \in Int /\ v \in Int
    BY <1>2, <1>5
  <2>2. runs[d] + m + p + Unsent(d) <= u /\ n <= m + v
    BY <1>1, <1>3
  <2>3. a * (1 + crashes' * c) = u + v
    BY <1>6
  <2> HIDE DEF u, v
  <2> QED BY <1>1, <1>2, <1>3, <1>5, <2>1, <2>2, <2>3
<1> QED BY <1>3, <1>4, <1>7 DEF n, a, c

\* max_retries bounds the work a document can cause: late acknowledgement
\* repeats at most one chain of attempts for each process of a crashed
\* container, for every number of processes, retries and crashes and under
\* every choice of faults.
THEOREM AttemptsAreBounded == Spec => []AttemptsBounded
<1>1. TypeOK /\ Init => AttemptsInv
  <2> SUFFICES ASSUME TypeOK, Init, NEW d \in Docs
               PROVE  /\ IsFiniteSet(MessageAttempts(queue[d]))
                      /\ runs[d] + Cardinality(MessageAttempts(queue[d]))
                            + Cardinality(RunAttempts(d)) + Unsent(d)
                           <= (MaxRetries + 1) * (1 + crashes * Cardinality(Workers))
    BY DEF AttemptsInv
  <2>1. Messages(queue[d]) = {}
    BY DEF Init, Messages
  <2>2. MessageAttempts(queue[d]) = {}
    BY <2>1 DEF MessageAttempts
  <2>3. RunAttempts(d) = {}
    BY DEF Init, RunAttempts, Active, Idle, Body, Handler
  <2>4. runs[d] = 0 /\ Unsent(d) = MaxRetries + 1 /\ crashes = 0
    BY DEF Init, Unsent
  <2>5. Cardinality(Workers) \in Nat /\ MaxRetries \in Nat
    BY PipelineAssumption, FS_CardinalityType
  <2>6. (MaxRetries + 1) * (1 + crashes * Cardinality(Workers)) = MaxRetries + 1
    BY <2>4, <2>5
  <2> QED BY <2>2, <2>3, <2>4, <2>5, <2>6, FS_EmptySet
<1>2. TypeOK /\ TypeOK' /\ AttemptsInv /\ [Next]_vars => AttemptsInv'
  <2> SUFFICES ASSUME TypeOK, TypeOK', AttemptsInv, [Next]_vars PROVE AttemptsInv'
    OBVIOUS
  <2>1. ASSUME NEW d \in Docs, GatewayStep(d) \/ GatewayDies(d) PROVE AttemptsInv'
    BY <2>1, AttemptsGateway
  <2>2. ASSUME NEW w \in Workers, WorkerStep(w) \/ SoftLimit(w) \/ HardLimit(w)
        PROVE  AttemptsInv'
    BY <2>2, AttemptsWorker
  <2>3. CASE CrashContainer
    BY <2>3, AttemptsCrash
  <2>4. CASE (\E d \in Docs : Evict(d)) \/ UNCHANGED vars
    <3>1. UNCHANGED <<gateway, worker, queue, runs, crashes>>
      BY <2>4 DEF Evict, vars
    <3>2. \A d \in Docs : RunAttempts(d)' = RunAttempts(d) /\ Unsent(d)' = Unsent(d)
      BY <3>1 DEF RunAttempts, Active, Unsent
    <3> QED BY <3>1, <3>2 DEF AttemptsInv
  <2> QED BY <2>1, <2>2, <2>3, <2>4 DEF Next
<1>3. TypeOK /\ AttemptsInv => AttemptsBounded
  <2> SUFFICES ASSUME TypeOK, AttemptsInv, NEW d \in Docs
               PROVE  runs[d] <= (MaxRetries + 1) * (1 + crashes * Cardinality(Workers))
    BY DEF AttemptsBounded
  <2> DEFINE m == Cardinality(MessageAttempts(queue[d]))
             p == Cardinality(RunAttempts(d))
             bound == (MaxRetries + 1) * (1 + crashes * Cardinality(Workers))
  <2>1. IsFiniteSet(MessageAttempts(queue[d])) /\ runs[d] + m + p + Unsent(d) <= bound
    BY DEF AttemptsInv
  <2>2. m \in Nat /\ p \in Nat /\ runs[d] \in Nat /\ Unsent(d) \in Nat
    BY <2>1, FS_CardinalityType, RunAttemptsFinite, PipelineAssumption DEF TypeOK, Unsent
  <2>3. bound \in Int
    <3>1. Cardinality(Workers) \in Nat /\ crashes \in Nat /\ MaxRetries \in Nat
      BY PipelineAssumption, FS_CardinalityType DEF TypeOK
    <3> QED BY <3>1
  <2> HIDE DEF m, p, bound
  <2>4. runs[d] <= bound
    BY <2>1, <2>2, <2>3
  <2> QED BY <2>4 DEF bound
<1> QED BY <1>1, <1>2, <1>3, TypeCorrect, PTL DEF Spec

--------------------------------------------------------------------------
\* No accepted upload is forgotten

\* What is held against a document is never forgotten.
LEMMA TroubleStays ==
    ASSUME TypeOK, [Next]_vars, NEW e \in Docs
    PROVE  trouble[e] \subseteq trouble'[e]
<1>1. CASE UNCHANGED trouble
  BY <1>1
<1>2. ASSUME NEW d \in Docs, TroubleAbout(d) PROVE trouble[e] \subseteq trouble'[e]
  BY <1>2 DEF TroubleAbout
<1>3. ASSUME NEW d \in Docs, GatewayStep(d) \/ GatewayDies(d) \/ Evict(d)
      PROVE  trouble[e] \subseteq trouble'[e]
  BY <1>2, <1>3, TroubleGateway
<1>4. ASSUME NEW w \in Workers, WorkerStep(w) \/ SoftLimit(w) \/ HardLimit(w)
      PROVE  trouble[e] \subseteq trouble'[e]
  <2>1. CASE TakeMessage(w)
    BY <1>1, <2>1 DEF TakeMessage
  <2>2. CASE ~TakeMessage(w)
    BY <1>2, <1>4, <2>2, RunContinues, TroubleWorker DEF Continues
  <2> QED BY <2>1, <2>2
<1>5. CASE CrashContainer \/ UNCHANGED vars
  BY <1>1, <1>5 DEF CrashContainer, vars
<1> QED BY <1>3, <1>4, <1>5 DEF Next

\* A chain that is broken stays broken.
LEMMA BrokenStays ==
    ASSUME TypeOK, [Next]_vars, NEW e \in Docs, Broken(e)
    PROVE  Broken(e)'
BY TroubleStays DEF Broken

\* A run, once started, writes about its own document only.
LEMMA RunWrites ==
    ASSUME TypeOK, NEW w \in Workers,
           WorkerStep(w) \/ SoftLimit(w) \/ HardLimit(w), ~TakeMessage(w)
    PROVE  /\ \/ UNCHANGED <<status, retryCount>>
              \/ /\ status' = [status EXCEPT ![worker[w].doc] = "indexed"]
                 /\ UNCHANGED retryCount
              \/ RecordFailure(worker[w].doc)
           /\ UNCHANGED queue \/ \E k \in Nat : Publish(worker[w].doc, k)
<1>1. WorkerStep(w) \/ HardLimit(w) =>
        \/ UNCHANGED <<status, retryCount>>
        \/ /\ status' = [status EXCEPT ![worker[w].doc] = "indexed"]
           /\ UNCHANGED retryCount
        \/ RecordFailure(worker[w].doc)
  BY DEF WorkerStep, ParseAndChunk, Embed, UpsertBatch, BuildBm25, SetBm25Key,
     UploadOriginal, MarkIndexed, MarkFailed, SendAlert, Retry, Acknowledge, HardLimit, table
<1>2. SoftLimit(w) =>
        \/ UNCHANGED <<status, retryCount>>
        \/ /\ status' = [status EXCEPT ![worker[w].doc] = "indexed"]
           /\ UNCHANGED retryCount
        \/ RecordFailure(worker[w].doc)
  BY DEF SoftLimit, table
<1>3. worker[w].retries + 1 \in Nat
  BY PipelineAssumption DEF TypeOK, WorkerTypeOK, Run, Attempts
<1>4. UNCHANGED queue \/ Publish(worker[w].doc, worker[w].retries + 1)
  BY DEF WorkerStep, ParseAndChunk, Embed, UpsertBatch, BuildBm25, SetBm25Key,
     UploadOriginal, MarkIndexed, MarkFailed, SendAlert, Retry, Acknowledge, HardLimit, SoftLimit
<1> QED BY <1>1, <1>2, <1>3, <1>4

\* What follows for the rows and the messages of the other documents.
LEMMA RunWritesElsewhere ==
    ASSUME TypeOK, NEW w \in Workers,
           WorkerStep(w) \/ SoftLimit(w) \/ HardLimit(w), ~TakeMessage(w),
           NEW e \in Docs, e # worker[w].doc
    PROVE  status'[e] = status[e] /\ retryCount'[e] = retryCount[e] /\ queue'[e] = queue[e]
<1>1. worker[w].doc \in Docs
  BY RunContinues DEF Continues
<1>2. queue'[e] = queue[e]
  <2>1. CASE UNCHANGED queue
    BY <2>1
  <2>2. CASE \E k \in Nat : Publish(worker[w].doc, k)
    BY <2>2 DEF Publish, TypeOK
  <2> QED BY <2>1, <2>2, RunWrites
<1>3. status'[e] = status[e] /\ retryCount'[e] = retryCount[e]
  BY RunWrites DEF RecordFailure, TypeOK, TableTypeOK
<1> QED BY <1>2, <1>3

\* As long as nothing breaks its chain a run, once started, does one of six
\* things.
LEMMA UnbrokenMoves ==
    ASSUME TypeOK, NEW w \in Workers, ~worker[w].soft,
           WorkerStep(w) \/ SoftLimit(w) \/ HardLimit(w), ~TakeMessage(w),
           "chain" \notin trouble'[worker[w].doc]
    PROVE  /\ Continues(w)
           /\ \/ /\ worker[w].pc \in Body /\ worker'[w].pc \in Body \cup {"fail"}
                 /\ worker'[w].doc = worker[w].doc
                 /\ worker'[w].retries = worker[w].retries
                 /\ worker'[w].soft = FALSE
                 /\ UNCHANGED <<status, retryCount, queue>>
              \/ /\ worker[w].pc = "mark" /\ worker'[w].pc = "ack"
                 /\ worker'[w].doc = worker[w].doc
                 /\ worker'[w].retries = worker[w].retries
                 /\ worker'[w].soft = FALSE
                 /\ status' = [status EXCEPT ![worker[w].doc] = "indexed"]
                 /\ UNCHANGED <<retryCount, queue, points>>
              \/ /\ worker[w].pc = "fail" /\ worker'[w].pc = "alert"
                 /\ worker'[w].doc = worker[w].doc
                 /\ worker'[w].retries = worker[w].retries
                 /\ worker'[w].soft = FALSE
                 /\ RecordFailure(worker[w].doc)
                 /\ UNCHANGED <<queue, points>>
              \/ /\ worker[w].pc = "alert" /\ worker'[w].pc = "retry"
                 /\ worker'[w].doc = worker[w].doc
                 /\ worker'[w].retries = worker[w].retries
                 /\ worker'[w].soft = FALSE
                 /\ UNCHANGED <<status, retryCount, queue, points>>
              \/ /\ worker[w].pc = "retry" /\ worker'[w].pc = "ack"
                 /\ worker'[w].doc = worker[w].doc
                 /\ worker'[w].retries = worker[w].retries
                 /\ worker'[w].soft = FALSE
                 /\ \/ /\ worker[w].retries + 1 <= MaxRetries
                       /\ Publish(worker[w].doc, worker[w].retries + 1)
                    \/ worker[w].retries + 1 > MaxRetries /\ UNCHANGED queue
                 /\ UNCHANGED <<status, retryCount, points>>
              \/ /\ worker[w].pc = "ack" /\ worker'[w].pc = "idle"
                 /\ worker'[w].soft = FALSE
                 /\ UNCHANGED <<status, retryCount, queue, points>>
<1>0. Continues(w)
  BY RunContinues
<1>1. /\ \A t : ~Trouble(worker[w].doc, {"chain"} \cup t)
      /\ ~Trouble(worker[w].doc, {"chain"})
      /\ worker \in [Workers -> Run]
  BY <1>0 DEF Trouble, Continues, TypeOK, WorkerTypeOK
<1>2. worker[w].soft = FALSE
  BY <1>1 DEF Run
<1>3. CASE ParseAndChunk(w)
  <2>1. PICK pc \in {"embed", "fail"} : Goto(w, pc)
    BY <1>3 DEF ParseAndChunk
  <2>2. worker[w].pc = "parse" /\ UNCHANGED <<status, retryCount, queue>>
    BY <1>3 DEF ParseAndChunk, table
  <2> QED BY <1>0, <1>2, <2>1, <2>2, GotoContinues DEF Active, Body
<1>4. CASE Embed(w)
  <2>1. PICK zero : worker' = [worker EXCEPT ![w].pc = "upsert",
                                             ![w].blank = @ \cup zero]
    BY <1>4 DEF Embed
  <2>2. /\ worker'[w].pc = "upsert" /\ worker'[w].doc = worker[w].doc
        /\ worker'[w].retries = worker[w].retries /\ worker'[w].soft = worker[w].soft
    BY <1>1, <2>1 DEF Run
  <2>3. worker[w].pc = "embed" /\ UNCHANGED <<status, retryCount, queue>>
    BY <1>4 DEF Embed, table
  <2> QED BY <1>0, <1>2, <2>2, <2>3 DEF Body
<1>5. CASE UpsertBatch(w)
  <2>1. /\ worker[w].pc = "upsert" /\ worker[w].batch \in Batches
        /\ UNCHANGED <<status, retryCount, queue>>
    BY <1>5 DEF UpsertBatch, table
  <2>2. CASE Goto(w, "fail")
    BY <1>0, <1>2, <2>1, <2>2, GotoContinues DEF Active, Body
  <2>3. CASE ~Goto(w, "fail")
    BY <1>0, <1>2, <1>5, <2>1, <2>3, NextBatchMoves DEF UpsertBatch, Body
  <2> QED BY <2>2, <2>3
<1>6. CASE BuildBm25(w)
  <2>1. PICK key \in {"tokens", "chunks"}, next \in {"chunks", "minio"} :
          SetBm25Key(w, key, next)
    BY <1>6 DEF BuildBm25
  <2>2. PICK pc \in {"chunks", "minio"} : Goto(w, pc)
    BY <2>1 DEF SetBm25Key
  <2>3. worker[w].pc \in {"tokens", "chunks"} /\ UNCHANGED <<status, retryCount, queue>>
    BY <2>1 DEF SetBm25Key, table
  <2> QED BY <1>0, <1>2, <2>2, <2>3, GotoContinues DEF Active, Body
<1>7. CASE UploadOriginal(w)
  <2>1. /\ worker[w].pc = "minio" /\ Goto(w, "mark")
        /\ UNCHANGED <<status, retryCount, queue>>
    BY <1>7 DEF UploadOriginal, table
  <2> QED BY <1>0, <1>2, <2>1, GotoContinues DEF Active, Body
<1>8. CASE MarkIndexed(w)
  <2>1. /\ worker[w].pc = "mark" /\ Goto(w, "ack")
        /\ status' = [status EXCEPT ![worker[w].doc] = "indexed"]
        /\ UNCHANGED <<retryCount, queue, points>>
    BY <1>1, <1>8 DEF MarkIndexed, stores
  <2> QED BY <1>0, <1>2, <2>1, GotoContinues DEF Active, Body
<1>9. CASE MarkFailed(w)
  <2>1. /\ worker[w].pc = "fail" /\ Goto(w, "alert") /\ RecordFailure(worker[w].doc)
        /\ UNCHANGED <<queue, points>>
    BY <1>1, <1>9 DEF MarkFailed, stores
  <2> QED BY <1>0, <1>2, <2>1, GotoContinues DEF Active, Handler
<1>10. CASE SendAlert(w)
  <2>1. /\ worker[w].pc = "alert" /\ Goto(w, "retry")
        /\ UNCHANGED <<status, retryCount, queue, points>>
    BY <1>10 DEF SendAlert, table, stores
  <2> QED BY <1>0, <1>2, <2>1, GotoContinues DEF Active, Handler
<1>11. CASE Retry(w)
  <2>1. /\ worker[w].pc = "retry" /\ Goto(w, "ack")
        /\ \/ /\ worker[w].retries + 1 <= MaxRetries
              /\ Publish(worker[w].doc, worker[w].retries + 1)
           \/ worker[w].retries + 1 > MaxRetries /\ UNCHANGED queue
        /\ UNCHANGED <<status, retryCount, points>>
    BY <1>1, <1>11 DEF Retry, table, stores
  <2>2. /\ worker'[w].pc = "ack" /\ worker'[w].doc = worker[w].doc
        /\ worker'[w].retries = worker[w].retries /\ worker'[w].soft = FALSE
    BY <1>2, <2>1, GotoContinues DEF Active, Handler
  <2> QED BY <1>0, <2>1, <2>2
<1>12. CASE Acknowledge(w)
  <2>1. worker[w].pc = "ack" /\ worker'[w] = Idle
    BY <1>1, <1>12 DEF Acknowledge
  <2>2. UNCHANGED <<status, retryCount, queue, points>>
    BY <1>12 DEF Acknowledge, table, stores
  <2> QED BY <1>0, <2>1, <2>2 DEF Idle
<1>13. ~SoftLimit(w) /\ ~HardLimit(w)
  BY <1>1, <1>2 DEF SoftLimit, HardLimit
<1> QED BY <1>3, <1>4, <1>5, <1>6, <1>7, <1>8, <1>9, <1>10, <1>11, <1>12, <1>13
        DEF WorkerStep

\* A later attempt of d is to come: a message waits for it, or a run is on it.
Open(d) ==
    \/ \E k \in Attempts : queue[d][k] > 0
    \/ \E w \in Workers : Active(w) /\ worker[w].doc = d

Exhausted(d) == status[d] = "failed" /\ retryCount[d] >= MaxRetries + 1

BeforeSend(d) == gateway[d] \in {"new", "save", "saveError", "send"}

RunsFor(w, d) == worker[w].pc # "idle" /\ worker[w].doc = d

\* Attempt k starts after k recorded failures; a run that recorded its own has
\* one more, and from then on the status is that of some run.
ChainOf(w, d) ==
    RunsFor(w, d) =>
        /\ worker[w].soft = FALSE
        /\ ~BeforeSend(d)
        /\ retryCount[d] >= worker[w].retries
        /\ worker[w].pc \in {"alert", "retry"} =>
             retryCount[d] > worker[w].retries /\ status[d] \in {"failed", "indexed"}

MessagesInv(d) ==
    \A k \in Attempts : queue[d][k] > 0 => ~BeforeSend(d) /\ retryCount[d] >= k

SettledOrOpen(d) ==
    gateway[d] \in {"job", "accepted"} => Open(d) \/ status[d] = "indexed" \/ Exhausted(d)

ChainOn(d) == (\A w \in Workers : ChainOf(w, d)) /\ MessagesInv(d) /\ SettledOrOpen(d)

\* FailedOnlyWhenExhausted alone is not inductive: it does not say that an
\* attempt with number k comes after k recorded failures, nor that nothing is
\* in the queue before the request sent its task.
ChainInv == \A d \in Docs : Broken(d) \/ ChainOn(d)

\* A step that does not touch a document, its messages or its runs.
Elsewhere(d) ==
    /\ gateway'[d] = gateway[d] /\ status'[d] = status[d]
    /\ retryCount'[d] = retryCount[d] /\ queue'[d] = queue[d]
    /\ \A w \in Workers : \/ worker'[w] = worker[w]
                          \/ ~RunsFor(w, d) /\ ~RunsFor(w, d)'

\* It keeps the chain of attempts.
LEMMA ChainElsewhere ==
    ASSUME NEW d \in Docs, Elsewhere(d), ChainOn(d)
    PROVE  ChainOn(d)'
<1>1. BeforeSend(d)' <=> BeforeSend(d)
  BY DEF Elsewhere, BeforeSend
<1>2. ASSUME NEW w \in Workers PROVE ChainOf(w, d)'
  BY <1>1 DEF Elsewhere, ChainOn, ChainOf, RunsFor
<1>3. MessagesInv(d)'
  BY <1>1 DEF Elsewhere, ChainOn, MessagesInv
<1>4. Open(d) => Open(d)'
  <2>1. \A w \in Workers : Active(w) /\ worker[w].doc = d =>
          Active(w)' /\ worker'[w].doc = d
    BY DEF Elsewhere, RunsFor, Active, Body, Handler
  <2> QED BY <2>1 DEF Open, Elsewhere
<1>5. SettledOrOpen(d)'
  BY <1>4 DEF Elsewhere, ChainOn, SettledOrOpen, Exhausted
<1> QED BY <1>2, <1>3, <1>5 DEF ChainOn

\* A step of a run touches no document but its own.
LEMMA RunElsewhere ==
    ASSUME TypeOK, NEW w \in Workers,
           WorkerStep(w) \/ SoftLimit(w) \/ HardLimit(w), ~TakeMessage(w),
           NEW e \in Docs, e # worker[w].doc
    PROVE  Elsewhere(e)
<1>1. /\ \A v \in Workers \ {w} : worker'[v] = worker[v]
      /\ ~RunsFor(w, e) /\ ~RunsFor(w, e)'
      /\ UNCHANGED gateway
  BY RunContinues DEF Continues, RunsFor, Idle
<1> QED BY <1>1, RunWritesElsewhere DEF Elsewhere

\* Nor does a step of the gateway or of Redis.
LEMMA GatewayElsewhere ==
    ASSUME TypeOK, NEW c \in Docs, GatewayStep(c) \/ GatewayDies(c) \/ Evict(c),
           NEW e \in Docs, e # c
    PROVE  Elsewhere(e)
<1>1. UNCHANGED <<worker, retryCount>>
  BY DEF GatewayStep, InsertRow, SaveFile, SendTask, InsertJob, ReportError, GatewayDies,
     Evict, table
<1>2. gateway'[e] = gateway[e] /\ status'[e] = status[e] /\ queue'[e] = queue[e]
  BY DEF GatewayStep, InsertRow, SaveFile, SendTask, InsertJob, ReportError, GatewayDies,
     Evict, Publish, Answer, table, TypeOK, TableTypeOK
<1> QED BY <1>1, <1>2 DEF Elsewhere

\* The request: nothing is sent before its row is there, and with the task
\* sent it has nothing left to do but to answer.
LEMMA ChainGateway ==
    ASSUME TypeOK, TypeOK', ChainInv, NEW c \in Docs, [Next]_vars,
           GatewayStep(c) \/ GatewayDies(c) \/ Evict(c)
    PROVE  ChainInv'
<1> SUFFICES ASSUME ChainOn(c) PROVE ChainOn(c)'
  BY BrokenStays, GatewayElsewhere, ChainElsewhere DEF ChainInv
<1>t. /\ queue \in [Docs -> [Attempts -> Nat]] /\ gateway \in [Docs -> GatewayPC]
      /\ retryCount \in [Docs -> Nat]
      /\ status \in [Docs -> {"none", "queued", "failed", "indexed"}]
  BY DEF TypeOK, TableTypeOK
<1>1. UNCHANGED <<worker, retryCount>>
  BY DEF GatewayStep, InsertRow, SaveFile, SendTask, InsertJob, ReportError,
         GatewayDies, Evict, table
<1>2. \/ /\ BeforeSend(c) /\ gateway'[c] \notin {"job", "accepted"} /\ UNCHANGED queue
      \/ /\ BeforeSend(c) /\ gateway'[c] \in {"job", "sendError"} /\ Publish(c, 0)
      \/ /\ gateway[c] = "job" /\ gateway'[c] \in {"accepted", "sendError", "gone"}
         /\ UNCHANGED <<queue, status>>
      \/ /\ gateway[c] = "sendError" /\ gateway'[c] \in {"refused", "gone"}
         /\ UNCHANGED queue /\ status'[c] \in {status[c], "failed"}
      \/ UNCHANGED <<gateway, queue, status>>
  BY <1>t DEF GatewayStep, InsertRow, SaveFile, SendTask, InsertJob, ReportError,
         GatewayDies, Evict, Answer, BeforeSend, table
<1>3. ~BeforeSend(c) => ~BeforeSend(c)' /\ status'[c] \in {status[c], "failed"}
  BY <1>2 DEF BeforeSend
<1>4. ASSUME NEW w \in Workers PROVE ChainOf(w, c)'
  BY <1>1, <1>3 DEF ChainOn, ChainOf, RunsFor
<1>5. MessagesInv(c) /\ SettledOrOpen(c)
  BY DEF ChainOn
<1>6. MessagesInv(c)' /\ SettledOrOpen(c)'
  <2>1. CASE BeforeSend(c) /\ gateway'[c] \notin {"job", "accepted"} /\ UNCHANGED queue
    BY <1>5, <2>1 DEF MessagesInv, SettledOrOpen
  <2>2. CASE BeforeSend(c) /\ gateway'[c] \in {"job", "sendError"} /\ Publish(c, 0)
    <3>1. 0 \in Attempts
      BY PipelineAssumption DEF Attempts
    <3>2. queue'[c] = [queue[c] EXCEPT ![0] = queue[c][0] + 1]
      BY <1>t, <2>2 DEF Publish
    <3>3. queue'[c][0] > 0 /\ \A k \in Attempts : k # 0 => queue'[c][k] = queue[c][k]
      BY <1>t, <3>1, <3>2
    <3>4. \A k \in Attempts : queue[c][k] = 0
      BY <1>t, <1>5, <2>2 DEF MessagesInv
    <3>5. MessagesInv(c)'
      <4>1. ~BeforeSend(c)' /\ retryCount'[c] >= 0
        BY <1>t, <1>1, <2>2 DEF BeforeSend
      <4>2. \A k \in Attempts : queue'[c][k] > 0 => k = 0
        BY <3>3, <3>4
      <4> QED BY <4>1, <4>2 DEF MessagesInv
    <3>6. Open(c)'
      BY <3>1, <3>3 DEF Open
    <3> QED BY <3>5, <3>6 DEF SettledOrOpen
  <2>3. CASE /\ gateway[c] = "job" /\ gateway'[c] \in {"accepted", "sendError", "gone"}
             /\ UNCHANGED <<queue, status>>
    <3>1. /\ ~BeforeSend(c)' /\ ~BeforeSend(c)
          /\ Open(c)' <=> Open(c)
          /\ Exhausted(c)' <=> Exhausted(c)
      BY <1>1, <2>3 DEF BeforeSend, Open, Active, Exhausted
    <3> QED BY <1>1, <1>5, <2>3, <3>1 DEF MessagesInv, SettledOrOpen
  <2>4. CASE /\ gateway[c] = "sendError" /\ gateway'[c] \in {"refused", "gone"}
             /\ UNCHANGED queue
    BY <1>1, <1>5, <2>4 DEF MessagesInv, SettledOrOpen, BeforeSend
  <2>5. CASE UNCHANGED <<gateway, queue, status>>
    BY <1>1, <1>5, <2>5 DEF MessagesInv, SettledOrOpen, BeforeSend, Open, Active, Exhausted
  <2> QED BY <1>2, <2>1, <2>2, <2>3, <2>4, <2>5
<1> QED BY <1>4, <1>6 DEF ChainOn

\* A message that is taken becomes a run.
LEMMA ChainTake ==
    ASSUME TypeOK, TypeOK', ChainInv, [Next]_vars, NEW w \in Workers, TakeMessage(w)
    PROVE  ChainInv'
<1>t. queue \in [Docs -> [Attempts -> Nat]]
  BY DEF TypeOK
<1>1. PICK c \in Docs, k \in Attempts :
        /\ queue[c][k] > 0
        /\ queue' = [queue EXCEPT ![c][k] = @ - 1]
        /\ worker[w].pc = "idle"
        /\ \A v \in Workers \ {w} : worker'[v] = worker[v]
        /\ worker'[w].pc = "parse" /\ worker'[w].doc = c
        /\ worker'[w].retries = k /\ worker'[w].soft = FALSE
        /\ UNCHANGED <<gateway, status, retryCount>>
  BY TakeMoves
<1>2. ASSUME NEW e \in Docs, e # c PROVE Elsewhere(e)
  <2>1. ~RunsFor(w, e) /\ ~RunsFor(w, e)' /\ queue'[e] = queue[e]
    BY <1>t, <1>1, <1>2 DEF RunsFor
  <2> QED BY <1>1, <2>1 DEF Elsewhere
<1> SUFFICES ASSUME ChainOn(c) PROVE ChainOn(c)'
  BY <1>2, BrokenStays, ChainElsewhere DEF ChainInv
<1>3. BeforeSend(c)' <=> BeforeSend(c)
  BY <1>1 DEF BeforeSend
<1>4. ASSUME NEW v \in Workers PROVE ChainOf(v, c)'
  <2>1. CASE v = w
    BY <1>1, <1>3, <2>1 DEF ChainOn, ChainOf, MessagesInv
  <2>2. CASE v # w
    BY <1>1, <1>3, <2>2 DEF ChainOn, ChainOf, RunsFor
  <2> QED BY <2>1, <2>2
<1>5. ASSUME NEW j \in Attempts, queue'[c][j] > 0 PROVE queue[c][j] > 0
  <2>1. queue[c][j] \in Nat
    BY <1>t
  <2>2. queue'[c][j] \in {queue[c][j], queue[c][j] - 1}
    BY <1>t, <1>1
  <2> QED BY <1>5, <2>1, <2>2
<1>6. MessagesInv(c)'
  BY <1>1, <1>3, <1>5 DEF ChainOn, MessagesInv
<1>7. Open(c)'
  BY <1>1 DEF Open, Active, Body
<1> QED BY <1>4, <1>6, <1>7 DEF ChainOn, SettledOrOpen

\* A run: it ends by marking the document, or it hands the chain on, or it was
\* the last of MaxRetries + 1.
LEMMA ChainWorker ==
    ASSUME TypeOK, TypeOK', ChainInv, [Next]_vars, NEW w \in Workers,
           WorkerStep(w) \/ SoftLimit(w) \/ HardLimit(w), ~TakeMessage(w)
    PROVE  ChainInv'
<1>d. PICK d \in Docs : d = worker[w].doc
  BY RunContinues DEF Continues
<1> SUFFICES ASSUME ChainOn(d), ~Broken(d)' PROVE ChainOn(d)'
  BY <1>d, BrokenStays, RunElsewhere, ChainElsewhere DEF ChainInv
<1> DEFINE k == worker[w].retries
<1>t. /\ queue \in [Docs -> [Attempts -> Nat]]
      /\ retryCount \in [Docs -> Nat] /\ retryCount' \in [Docs -> Nat]
      /\ status \in [Docs -> {"none", "queued", "failed", "indexed"}]
      /\ \A v \in Workers : worker[v].retries \in Attempts
      /\ Attempts \subseteq Nat
  BY DEF TypeOK, TableTypeOK, WorkerTypeOK, Run, Attempts
<1>0. /\ RunsFor(w, d) /\ UNCHANGED gateway
      /\ \A v \in Workers \ {w} : worker'[v] = worker[v]
  BY <1>d, RunContinues DEF Continues, RunsFor
<1>1. ChainOf(w, d) /\ ~worker[w].soft /\ "chain" \notin trouble'[worker[w].doc]
  BY <1>d, <1>0 DEF ChainOn, ChainOf, Broken
<1>2. ~BeforeSend(d) /\ k \in Nat /\ k \in Attempts /\ MaxRetries \in Nat
  BY <1>t, <1>0, <1>1, PipelineAssumption DEF ChainOf
<1>3. BeforeSend(d)' <=> BeforeSend(d)
  BY <1>0 DEF BeforeSend
<1>4. /\ retryCount[d] \in Nat /\ retryCount'[d] \in Nat
      /\ retryCount'[d] >= retryCount[d] /\ retryCount[d] >= k
      /\ status'[d] = status[d] \/ status'[d] \in {"failed", "indexed"}
  <2>1. \/ UNCHANGED <<status, retryCount>>
        \/ status' = [status EXCEPT ![d] = "indexed"] /\ UNCHANGED retryCount
        \/ RecordFailure(d)
    BY <1>d, RunWrites
  <2> QED BY <1>t, <1>0, <1>1, <2>1 DEF RecordFailure, ChainOf
<1>5. \/ UNCHANGED queue
      \/ /\ worker[w].pc = "retry" /\ k + 1 \in Attempts
         /\ queue' = [queue EXCEPT ![d] = [queue[d] EXCEPT ![k + 1] = @ + 1]]
  <2>1. \/ UNCHANGED queue
        \/ worker[w].pc = "retry" /\ k + 1 <= MaxRetries /\ Publish(d, k + 1)
    BY <1>d, <1>1, UnbrokenMoves
  <2>2. CASE worker[w].pc = "retry" /\ k + 1 <= MaxRetries /\ Publish(d, k + 1)
    <3>1. k + 1 \in Attempts
      <4> HIDE DEF k
      <4> QED BY <1>2, <2>2 DEF Attempts
    <3>2. queue' = [queue EXCEPT ![d] = [queue[d] EXCEPT ![k + 1] = @ + 1]]
      BY <2>2 DEF Publish
    <3> QED BY <2>2, <3>1, <3>2
  <2> QED BY <2>1, <2>2
<1>6. ASSUME NEW v \in Workers, v # w PROVE ChainOf(v, d)'
  <2>1. worker'[v] = worker[v] /\ ChainOf(v, d) /\ worker[v].retries \in Nat
    BY <1>t, <1>0, <1>6 DEF ChainOn
  <2> QED BY <1>3, <1>4, <2>1 DEF ChainOf, RunsFor
<1>7. ChainOf(w, d)'
  <2> SUFFICES ASSUME worker'[w].pc # "idle" PROVE ChainOf(w, d)'
    BY DEF ChainOf, RunsFor
  <2>1. worker'[w].soft = FALSE /\ worker'[w].doc = d /\ worker'[w].retries = k
    BY <1>d, <1>1, UnbrokenMoves
  <2>2. ~BeforeSend(d)' /\ retryCount'[d] >= k
    BY <1>2, <1>3, <1>4
  <2>3. ASSUME worker'[w].pc \in {"alert", "retry"}
        PROVE  retryCount'[d] > k /\ status'[d] \in {"failed", "indexed"}
    <3>1. CASE RecordFailure(d)
      <4>1. retryCount'[d] = retryCount[d] + 1 /\ status'[d] = "failed"
        BY <1>t, <3>1 DEF RecordFailure
      <4> QED BY <1>2, <1>4, <4>1
    <3>2. CASE worker[w].pc = "alert" /\ UNCHANGED <<status, retryCount>>
      BY <1>0, <1>1, <3>2 DEF ChainOf
    <3> QED BY <1>d, <1>1, <2>3, <3>1, <3>2, UnbrokenMoves DEF Body
  <2> QED BY <2>1, <2>2, <2>3 DEF ChainOf
<1>8. MessagesInv(d)'
  <2> SUFFICES ASSUME NEW j \in Attempts, queue'[d][j] > 0
               PROVE  ~BeforeSend(d)' /\ retryCount'[d] >= j
    BY DEF MessagesInv
  <2>0. queue[d][j] \in Nat /\ j \in Nat
    BY <1>t
  <2>1. CASE queue[d][j] > 0
    <3>1. retryCount[d] >= j
      BY <2>1 DEF ChainOn, MessagesInv
    <3> QED BY <1>2, <1>3, <1>4, <2>0, <3>1
  <2>2. CASE queue[d][j] = 0
    <3>1. j = k + 1 /\ worker[w].pc = "retry"
      BY <1>t, <1>5, <2>2
    <3>2. retryCount[d] > k
      BY <1>0, <1>1, <3>1 DEF ChainOf
    <3>3. retryCount'[d] >= k + 1
      BY <1>2, <1>4, <3>2
    <3> QED BY <1>2, <1>3, <3>1, <3>3
  <2> QED BY <2>0, <2>1, <2>2
<1>9. SettledOrOpen(d)'
  <2>1. SettledOrOpen(d)
    BY DEF ChainOn
  <2>2. Active(w)' /\ worker'[w].doc = d => Open(d)'
    BY DEF Open
  <2>3. CASE worker[w].pc = "ack"
    <3>1. UNCHANGED <<status, retryCount, queue>>
      BY <1>1, <2>3, UnbrokenMoves DEF Body
    <3>2. Open(d) => Open(d)'
      BY <1>0, <2>3, <3>1 DEF Open, Active, Body, Handler
    <3> QED BY <1>0, <2>1, <3>1, <3>2 DEF SettledOrOpen, Exhausted
  <2>4. CASE worker[w].pc # "ack"
    <3>1. CASE Active(w)' /\ worker'[w].doc = d
      BY <2>2, <3>1 DEF SettledOrOpen
    <3>2. CASE status' = [status EXCEPT ![d] = "indexed"]
      BY <1>t, <3>2 DEF SettledOrOpen
    <3>3. CASE /\ worker[w].pc = "retry" /\ k + 1 > MaxRetries
               /\ UNCHANGED <<status, retryCount>>
      <4>1. retryCount[d] > k /\ status[d] \in {"failed", "indexed"}
        BY <1>0, <1>1, <3>3 DEF ChainOf
      <4>2. retryCount'[d] >= MaxRetries + 1
        <5>1. retryCount'[d] = retryCount[d]
          BY <3>3
        <5> HIDE DEF k
        <5> QED BY <1>2, <1>4, <3>3, <4>1, <5>1
      <4> QED BY <3>3, <4>1, <4>2 DEF SettledOrOpen, Exhausted
    <3>4. CASE k + 1 <= MaxRetries /\ Publish(d, k + 1)
      <4>1. k + 1 \in Attempts
        <5> HIDE DEF k
        <5> QED BY <1>2, <3>4 DEF Attempts
      <4>2. queue'[d] = [queue[d] EXCEPT ![k + 1] = queue[d][k + 1] + 1]
        BY <1>t, <3>4 DEF Publish
      <4>3. queue'[d][k + 1] > 0
        <5> DEFINE j == k + 1
        <5>1. queue'[d] = [queue[d] EXCEPT ![j] = queue[d][j] + 1] /\ j \in Attempts
          BY <4>1, <4>2
        <5> HIDE DEF j
        <5>q. queue[d] \in [Attempts -> Nat]
          BY <1>t
        <5>2. queue[d][j] \in Nat
          BY <5>q, <5>1
        <5>3. queue'[d][j] = queue[d][j] + 1
          BY <5>1, <5>q, <5>2
        <5> QED BY <5>2, <5>3 DEF j
      <4>4. Open(d)'
        <5>1. \E j \in Attempts : queue'[d][j] > 0
          BY <4>1, <4>3
        <5> QED BY <5>1 DEF Open
      <4> QED BY <4>4 DEF SettledOrOpen
    <3>5. \/ Active(w)' /\ worker'[w].doc = d
          \/ status' = [status EXCEPT ![d] = "indexed"]
          \/ /\ worker[w].pc = "retry" /\ k + 1 > MaxRetries
             /\ UNCHANGED <<status, retryCount>>
          \/ k + 1 <= MaxRetries /\ Publish(d, k + 1)
      BY <1>d, <1>1, <2>4, UnbrokenMoves DEF Active, Handler
    <3> QED BY <3>1, <3>2, <3>3, <3>4, <3>5
  <2> QED BY <2>3, <2>4
<1> QED BY <1>6, <1>7, <1>8, <1>9 DEF ChainOn

\* A crash: every open document has a message again.
LEMMA ChainCrash ==
    ASSUME TypeOK, TypeOK', ChainInv, [Next]_vars, CrashContainer
    PROVE  ChainInv'
<1> SUFFICES ASSUME NEW d \in Docs, ChainOn(d) PROVE ChainOn(d)'
  BY BrokenStays DEF ChainInv
<1>1. /\ \A w \in Workers : worker'[w] = Idle
      /\ UNCHANGED <<gateway, status, retryCount>>
  BY DEF CrashContainer, table
<1>2. \A w \in Workers : ChainOf(w, d)'
  BY <1>1 DEF ChainOf, RunsFor, Idle
<1>3. ASSUME NEW k \in Attempts
      PROVE  /\ queue[d][k] \in Nat
             /\ IsFiniteSet(Unacknowledged(d, k))
             /\ Cardinality(Unacknowledged(d, k)) \in Nat
             /\ queue'[d][k] = queue[d][k] + Cardinality(Unacknowledged(d, k))
  <2>1. Unacknowledged(d, k) \subseteq Workers
    BY DEF Unacknowledged
  <2>2. IsFiniteSet(Unacknowledged(d, k)) /\ Cardinality(Unacknowledged(d, k)) \in Nat
    BY <2>1, PipelineAssumption, FS_Subset, FS_CardinalityType
  <2> QED BY <2>2 DEF CrashContainer, TypeOK
<1>4. MessagesInv(d)'
  <2> SUFFICES ASSUME NEW k \in Attempts, queue'[d][k] > 0
               PROVE  ~BeforeSend(d)' /\ retryCount'[d] >= k
    BY DEF MessagesInv
  <2>1. CASE queue[d][k] > 0
    BY <1>1, <2>1 DEF ChainOn, MessagesInv, BeforeSend
  <2>2. CASE queue[d][k] = 0
    <3>1. Unacknowledged(d, k) # {}
      BY <1>3, <2>2, FS_EmptySet
    <3>2. PICK w \in Workers : RunsFor(w, d) /\ worker[w].retries = k
      BY <3>1 DEF Unacknowledged, RunsFor
    <3>3. ChainOf(w, d)
      BY DEF ChainOn
    <3> QED BY <1>1, <3>2, <3>3 DEF ChainOf, BeforeSend
  <2> QED BY <1>3, <2>1, <2>2
<1>5. SettledOrOpen(d)'
  <2>1. Open(d) => Open(d)'
    <3>1. ASSUME NEW k \in Attempts, queue[d][k] > 0 PROVE Open(d)'
      <4>1. queue'[d][k] > 0
        BY <1>3, <3>1
      <4> QED BY <4>1 DEF Open
    <3>2. ASSUME NEW w \in Workers, Active(w), worker[w].doc = d PROVE Open(d)'
      <4> DEFINE k == worker[w].retries
      <4>1. k \in Attempts /\ w \in Unacknowledged(d, k)
        BY <3>2 DEF TypeOK, WorkerTypeOK, Run, Unacknowledged, Active, Body, Handler
      <4>2. Cardinality(Unacknowledged(d, k)) # 0
        BY <1>3, <4>1, FS_EmptySet
      <4>3. queue'[d][k] > 0
        BY <1>3, <4>1, <4>2
      <4> QED BY <4>1, <4>3 DEF Open
    <3> QED BY <3>1, <3>2 DEF Open
  <2> QED BY <1>1, <2>1 DEF ChainOn, SettledOrOpen, Exhausted
<1> QED BY <1>2, <1>4, <1>5 DEF ChainOn

\* ChainInv is an invariant.
LEMMA ChainInvariant == Spec => []ChainInv
<1>1. Init => ChainInv
  BY DEF Init, ChainInv, ChainOn, ChainOf, RunsFor, MessagesInv, SettledOrOpen, Idle
<1>2. TypeOK /\ TypeOK' /\ ChainInv /\ [Next]_vars => ChainInv'
  <2> SUFFICES ASSUME TypeOK, TypeOK', ChainInv, [Next]_vars PROVE ChainInv'
    OBVIOUS
  <2>1. ASSUME NEW d \in Docs, GatewayStep(d) \/ GatewayDies(d) \/ Evict(d)
        PROVE  ChainInv'
    BY <2>1, ChainGateway
  <2>2. ASSUME NEW w \in Workers, WorkerStep(w) \/ SoftLimit(w) \/ HardLimit(w)
        PROVE  ChainInv'
    BY <2>2, ChainTake, ChainWorker
  <2>3. CASE CrashContainer
    BY <2>3, ChainCrash
  <2>4. CASE UNCHANGED vars
    <3>1. \A d \in Docs : Elsewhere(d)
      BY <2>4 DEF vars, Elsewhere
    <3> QED BY <3>1, BrokenStays, ChainElsewhere DEF ChainInv
  <2> QED BY <2>1, <2>2, <2>3, <2>4 DEF Next
<1> QED BY <1>1, <1>2, TypeCorrect, PTL DEF Spec

\* No accepted upload is forgotten, whatever files cannot be read, upserts
\* fail, keys vanish and containers crash, unless a statement about it raised,
\* its retry was lost or a time limit struck it: for every number of documents,
\* processes, batches, retries and crashes.
THEOREM FailureIsExhaustion == Spec => []FailedOnlyWhenExhausted
<1>1. ChainInv => FailedOnlyWhenExhausted
  <2> SUFFICES ASSUME ChainInv, NEW d \in Docs, gateway[d] = "accepted", ~Pending(d),
                      ~Broken(d)
               PROVE  status[d] = "indexed" \/ Exhausted(d)
    BY DEF FailedOnlyWhenExhausted, Exhausted
  <2>1. ~Open(d)
    BY DEF Open, Pending, Active, Body, Handler
  <2> QED BY <2>1 DEF ChainInv, ChainOn, SettledOrOpen
<1> QED BY <1>1, ChainInvariant, PTL

--------------------------------------------------------------------------
\* Indexed means complete

\* What a document has, or has an excuse for.
Vectors(d) == {b \in Batches : b \in embedded[d] \/ "vectors" \in trouble[d]}

Keys(d) == {key \in {"tokens", "chunks"} : key \in bm25[d] \cup trouble[d]}

Original(d) == minio[d] \/ "original" \in trouble[d]

Complete(d) == Vectors(d) = Batches /\ Keys(d) = {"tokens", "chunks"} /\ Original(d)

\* What a run has written of its document when it is at a step, or has an
\* excuse for: every batch before its next one with real vectors, then both
\* keys, then the original.  As with StoredBy, IndexedMeansComplete alone is
\* not inductive.
CompleteBy(w) ==
    /\ worker[w].blank # {} => "vectors" \in trouble[worker[w].doc]
    /\ worker[w].pc \in {"parse", "embed", "upsert"} =>
         \A b \in Batches : b < worker[w].batch => b \in Vectors(worker[w].doc)
    /\ worker[w].pc \in {"tokens", "chunks", "minio", "mark"} =>
         Vectors(worker[w].doc) = Batches
    /\ worker[w].pc \in {"chunks", "minio", "mark"} => "tokens" \in Keys(worker[w].doc)
    /\ worker[w].pc \in {"minio", "mark"} => "chunks" \in Keys(worker[w].doc)
    /\ worker[w].pc = "mark" => Original(worker[w].doc)

CompleteInv ==
    /\ \A d \in Docs : status[d] = "indexed" => Complete(d)
    /\ \A w \in Workers : worker[w].pc # "idle" => CompleteBy(w)

\* No step takes anything away without holding it against the document.
StoresGrow ==
    \A d \in Docs : /\ Vectors(d) \subseteq Vectors(d)'
                    /\ Keys(d) \subseteq Keys(d)'
                    /\ Original(d) => Original(d)'
                    /\ "vectors" \in trouble[d] => "vectors" \in trouble'[d]

\* A batch that is stored takes nothing from the others.
LEMMA StoreBatchGrows ==
    ASSUME TypeOK, NEW d \in Docs, NEW b \in Batches, NEW zero, StoreBatch(d, b, zero)
    PROVE  /\ \A e \in Docs : embedded[e] \subseteq embedded'[e]
           /\ ~zero => b \in embedded'[d]
<1>1. embedded' = [embedded EXCEPT ![d] = IF zero THEN @ ELSE @ \cup {b}]
  BY DEF StoreBatch
<1>2. embedded \in [Docs -> SUBSET Batches]
  BY DEF TypeOK, StoreTypeOK
<1>3. CASE zero
  BY <1>1, <1>2, <1>3
<1>4. CASE ~zero
  BY <1>1, <1>2, <1>4
<1> QED BY <1>3, <1>4

\* Every step lets the stores grow.
LEMMA AllGrow ==
    ASSUME TypeOK, [Next]_vars
    PROVE  StoresGrow
<1> DEFINE Kept == \A e \in Docs : /\ embedded[e] \subseteq embedded'[e]
                                   /\ bm25[e] \subseteq bm25'[e] \cup trouble'[e]
                                   /\ minio[e] => minio'[e]
<1>t. /\ embedded \in [Docs -> SUBSET Batches] /\ minio \in [Docs -> BOOLEAN]
      /\ bm25 \in [Docs -> SUBSET {"tokens", "chunks"}]
      /\ trouble \in [Docs -> SUBSET Troubles]
  BY DEF TypeOK, StoreTypeOK
<1>1. UNCHANGED <<embedded, bm25, minio>> => Kept
  OBVIOUS
<1>2. ASSUME NEW d \in Docs, GatewayStep(d) \/ GatewayDies(d) PROVE Kept
  BY <1>1, <1>2 DEF GatewayStep, InsertRow, SaveFile, SendTask, InsertJob, ReportError,
     GatewayDies, stores
<1>3. ASSUME NEW d \in Docs, Evict(d) PROVE Kept
  <2>1. PICK key \in bm25[d] : bm25' = [bm25 EXCEPT ![d] = @ \ {key}] /\ Trouble(d, {key})
    BY <1>3 DEF Evict
  <2>2. key \in trouble'[d]
    BY <1>t, <2>1 DEF Trouble
  <2>3. bm25'[d] = bm25[d] \ {key} /\ \A e \in Docs : e # d => bm25'[e] = bm25[e]
    BY <1>t, <2>1
  <2> QED BY <1>3, <2>2, <2>3 DEF Evict
<1>4. ASSUME NEW w \in Workers, WorkerStep(w) \/ SoftLimit(w) \/ HardLimit(w) PROVE Kept
  <2>1. worker[w].pc # "idle" => worker[w].doc \in Docs
    BY DEF TypeOK, WorkerTypeOK
  <2>2. CASE UpsertBatch(w) \/ SoftLimit(w)
    <3>1. /\ worker[w].doc \in Docs /\ UNCHANGED <<bm25, minio>>
          /\ \/ UNCHANGED embedded
             \/ /\ worker[w].batch \in Batches
                /\ StoreBatch(worker[w].doc, worker[w].batch,
                              worker[w].batch \in worker[w].blank)
      BY <2>1, <2>2 DEF UpsertBatch, SoftLimit, Body, Handler
    <3> QED BY <3>1, StoreBatchGrows
  <2>3. CASE BuildBm25(w)
    <3>1. PICK key \in {"tokens", "chunks"}, next \in {"chunks", "minio"} :
            SetBm25Key(w, key, next)
      BY <2>3 DEF BuildBm25
    <3>2. bm25' = bm25 \/ bm25' = [bm25 EXCEPT ![worker[w].doc] = @ \cup {key}]
      BY <3>1 DEF SetBm25Key
    <3>3. worker[w].doc \in Docs /\ UNCHANGED <<embedded, minio>>
      BY <2>1, <3>1 DEF SetBm25Key
    <3> QED BY <1>t, <3>2, <3>3
  <2>4. CASE UploadOriginal(w)
    <3>1. /\ UNCHANGED <<embedded, bm25>>
          /\ minio' = minio \/ minio' = [minio EXCEPT ![worker[w].doc] = TRUE]
      BY <2>4 DEF UploadOriginal
    <3> QED BY <1>t, <3>1
  <2>5. CASE ~UpsertBatch(w) /\ ~SoftLimit(w) /\ ~BuildBm25(w) /\ ~UploadOriginal(w)
    BY <1>1, <1>4, <2>5 DEF WorkerStep, TakeMessage, ParseAndChunk, Embed, MarkIndexed,
       MarkFailed, SendAlert, Retry, Acknowledge, HardLimit, stores
  <2> QED BY <2>2, <2>3, <2>4, <2>5
<1>5. CrashContainer \/ UNCHANGED vars => UNCHANGED <<embedded, bm25, minio>>
  BY DEF CrashContainer, vars, stores
<1>6. Kept => StoresGrow
  BY TroubleStays DEF StoresGrow, Vectors, Keys, Original
<1> HIDE DEF Kept
<1> QED BY <1>1, <1>2, <1>3, <1>4, <1>5, <1>6 DEF Next

\* As the stores only grow, only a document that is new among the indexed ones
\* or a run that moved needs a look.
LEMMA CompleteStays ==
    ASSUME TypeOK, [Next]_vars, CompleteInv,
           \A d \in Docs : status'[d] = "indexed" => status[d] = "indexed" \/ Complete(d)',
           \A w \in Workers : \/ worker'[w] = worker[w]
                              \/ worker'[w].pc # "idle" => CompleteBy(w)'
    PROVE  CompleteInv'
<1>1. StoresGrow /\ \A d \in Docs : /\ Vectors(d)' \subseteq Batches
                                    /\ Keys(d)' \subseteq {"tokens", "chunks"}
  BY AllGrow DEF Vectors, Keys
<1>2. ASSUME NEW d \in Docs, status'[d] = "indexed" PROVE Complete(d)'
  <2>1. CASE status[d] = "indexed"
    <3>1. Complete(d)
      BY <2>1 DEF CompleteInv
    <3> QED BY <1>1, <3>1 DEF Complete, StoresGrow
  <2> QED BY <1>2, <2>1
<1>3. ASSUME NEW w \in Workers, worker'[w].pc # "idle" PROVE CompleteBy(w)'
  <2>1. CASE worker'[w] = worker[w]
    <3>1. PICK d \in Docs : d = worker[w].doc
      BY <1>3, <2>1 DEF TypeOK, WorkerTypeOK
    <3>2. CompleteBy(w)
      BY <1>3, <2>1 DEF CompleteInv
    <3>3. /\ Vectors(d) \subseteq Vectors(d)' /\ Vectors(d)' \subseteq Batches
          /\ Keys(d) \subseteq Keys(d)' /\ (Original(d) => Original(d)')
          /\ "vectors" \in trouble[d] => "vectors" \in trouble'[d]
      BY <1>1 DEF StoresGrow
    <3>4. Vectors(d) = Batches => Vectors(d)' = Batches
      BY <3>3
    <3>5. /\ worker'[w].doc = d
          /\ worker[w].pc \in {"parse", "embed", "upsert"} =>
               \A b \in Batches : b < worker[w].batch => b \in Vectors(d)'
      BY <2>1, <3>1, <3>2, <3>3 DEF CompleteBy
    <3> HIDE DEF Vectors, Keys, Original
    <3> QED BY <2>1, <3>1, <3>2, <3>3, <3>4, <3>5 DEF CompleteBy
  <2> QED BY <1>3, <2>1
<1> QED BY <1>2, <1>3 DEF CompleteInv

\* Each step of a run writes what the next one counts on, or has an excuse.
LEMMA CompleteWorker ==
    ASSUME TypeOK, TypeOK', CompleteInv, [Next]_vars, NEW w \in Workers,
           WorkerStep(w) \/ SoftLimit(w) \/ HardLimit(w)
    PROVE  CompleteInv'
<1>t. /\ embedded \in [Docs -> SUBSET Batches] /\ minio \in [Docs -> BOOLEAN]
      /\ bm25 \in [Docs -> SUBSET {"tokens", "chunks"}]
      /\ trouble \in [Docs -> SUBSET Troubles]
      /\ status \in [Docs -> {"none", "queued", "failed", "indexed"}]
      /\ worker \in [Workers -> Run]
  BY DEF TypeOK, StoreTypeOK, TableTypeOK, WorkerTypeOK
<1>g. StoresGrow
  BY AllGrow
<1>1. ASSUME \A v \in Workers \ {w} : worker'[v] = worker[v],
             worker'[w].pc # "idle" => CompleteBy(w)',
             \A e \in Docs : status'[e] = "indexed" => status[e] = "indexed" \/ Complete(e)'
      PROVE  CompleteInv'
  <2>1. \A v \in Workers : worker'[v] = worker[v] \/ (worker'[v].pc # "idle" => CompleteBy(v)')
    BY <1>1
  <2> QED BY <1>1, <2>1, CompleteStays
<1>2. CASE TakeMessage(w)
  <2>1. /\ \A v \in Workers \ {w} : worker'[v] = worker[v]
        /\ worker'[w].pc = "parse" /\ worker'[w].batch = 1 /\ worker'[w].blank = {}
        /\ UNCHANGED status
    BY <1>2, TakeMoves
  <2>2. CompleteBy(w)'
    BY <2>1 DEF CompleteBy, Batches
  <2> QED BY <1>1, <2>1, <2>2
<1>3. CASE Acknowledge(w) \/ HardLimit(w)
  <2>1. /\ worker'[w].pc = "idle" /\ \A v \in Workers \ {w} : worker'[v] = worker[v]
        /\ UNCHANGED status
    BY <1>t, <1>3 DEF Acknowledge, HardLimit, table, Idle
  <2> QED BY <1>1, <2>1
<1>4. CASE ~TakeMessage(w) /\ ~Acknowledge(w) /\ ~HardLimit(w)
  <2>d. PICK d \in Docs : d = worker[w].doc /\ worker[w].pc # "idle"
    BY <1>4, RunContinues DEF Continues
  <2>a. Active(w) /\ CompleteBy(w)
    BY <1>4, <2>d DEF CompleteInv, Active, Body, Handler, WorkerStep, ParseAndChunk, Embed,
       UpsertBatch, BuildBm25, SetBm25Key, UploadOriginal, MarkIndexed, MarkFailed, SendAlert,
       Retry, SoftLimit
  <2>g. /\ Vectors(d) \subseteq Vectors(d)' /\ Vectors(d)' \subseteq Batches
        /\ Keys(d) \subseteq Keys(d)' /\ (Original(d) => Original(d)')
        /\ "vectors" \in trouble[d] => "vectors" \in trouble'[d]
    BY <1>g DEF StoresGrow, Vectors
  <2>f. Vectors(d) = Batches => Vectors(d)' = Batches
    BY <2>g
  <2>b. worker[w].blank # {} => "vectors" \in trouble'[d]
    BY <2>d, <2>a, <2>g DEF CompleteBy
  \* A run whose next step is not the body's has nothing to show.
  <2>0. ASSUME NEW pc \in {"fail", "alert", "retry", "ack"}, Goto(w, pc)
        PROVE  CompleteBy(w)' /\ \A v \in Workers \ {w} : worker'[v] = worker[v]
    BY <2>d, <2>a, <2>b, <2>0, GotoContinues DEF CompleteBy
  <2>1. CASE ParseAndChunk(w)
    <3>1. PICK pc \in {"embed", "fail"} : Goto(w, pc)
      BY <2>1 DEF ParseAndChunk
    <3>2. worker[w].pc = "parse" /\ UNCHANGED status
      BY <2>1 DEF ParseAndChunk, table
    <3>3. /\ worker'[w].pc = pc /\ worker'[w].doc = d
          /\ worker'[w].batch = worker[w].batch /\ worker'[w].blank = worker[w].blank
          /\ \A v \in Workers \ {w} : worker'[v] = worker[v]
      BY <2>d, <2>a, <3>1, GotoContinues
    <3>4. CompleteBy(w)'
      BY <2>d, <2>a, <2>b, <2>g, <3>2, <3>3 DEF CompleteBy
    <3> QED BY <1>1, <3>2, <3>3, <3>4
  <2>2. CASE Embed(w)
    <3>1. worker[w].pc = "embed" /\ UNCHANGED status
      BY <2>2 DEF Embed, table
    <3>2. PICK zero \in SUBSET Batches :
            /\ worker' = [worker EXCEPT ![w].pc = "upsert", ![w].blank = @ \cup zero]
            /\ Trouble(d, Blanked(zero))
      BY <2>2, <2>d DEF Embed
    <3>3. /\ \A v \in Workers \ {w} : worker'[v] = worker[v]
          /\ worker'[w].pc = "upsert" /\ worker'[w].doc = d
          /\ worker'[w].batch = worker[w].batch
          /\ worker'[w].blank = worker[w].blank \cup zero
      BY <1>t, <2>d, <3>2 DEF Run
    <3>4. zero # {} => "vectors" \in trouble'[d]
      BY <1>t, <3>2 DEF Trouble, Blanked
    <3>5. CompleteBy(w)'
      BY <2>d, <2>a, <2>b, <2>g, <3>1, <3>3, <3>4 DEF CompleteBy
    <3> QED BY <1>1, <3>1, <3>3, <3>5
  <2>3. CASE UpsertBatch(w)
    <3> DEFINE b == worker[w].batch
    <3>1. worker[w].pc = "upsert" /\ b \in Batches /\ UNCHANGED status
      BY <2>3 DEF UpsertBatch, table
    <3>2. CASE Goto(w, "fail")
      BY <1>1, <2>0, <3>1, <3>2
    <3>3. CASE ~Goto(w, "fail")
      <4>1. /\ worker' = [worker EXCEPT
                 ![w].batch = b + 1,
                 ![w].pc = IF b = NumBatches THEN "tokens" ELSE "upsert"]
            /\ StoreBatch(d, b, b \in worker[w].blank)
        BY <2>3, <2>d, <3>3 DEF UpsertBatch
      <4>2. /\ \A v \in Workers \ {w} : worker'[v] = worker[v]
            /\ worker'[w].batch = b + 1 /\ worker'[w].doc = d
            /\ worker'[w].pc = IF b = NumBatches THEN "tokens" ELSE "upsert"
            /\ worker'[w].blank = worker[w].blank
        BY <2>d, <3>1, <4>1, NextBatchMoves
      <4>3. b \in Vectors(d)'
        <5>1. CASE b \in worker[w].blank
          BY <2>b, <3>1, <5>1 DEF Vectors
        <5>2. CASE b \notin worker[w].blank
          <6>1. b \in embedded'[d]
            BY <1>t, <4>1, <5>2 DEF StoreBatch
          <6> QED BY <3>1, <6>1 DEF Vectors
        <5> QED BY <5>1, <5>2
      <4>4. \A c \in Batches : c < b + 1 => c \in Vectors(d)'
        <5>1. \A c \in Batches : c < b => c \in Vectors(d)'
          BY <2>d, <2>a, <2>g, <3>1 DEF CompleteBy
        <5> QED BY <3>1, <4>3, <5>1 DEF Batches
      <4>5. b = NumBatches => Vectors(d)' = Batches
        <5>1. b = NumBatches => \A c \in Batches : c < b + 1
          BY PipelineAssumption DEF Batches
        <5> QED BY <2>g, <4>4, <5>1
      <4>6. CompleteBy(w)'
        <5>1. CASE b = NumBatches
          BY <2>b, <4>2, <4>5, <5>1 DEF CompleteBy
        <5>2. CASE b # NumBatches
          BY <2>b, <4>2, <4>4, <5>2 DEF CompleteBy
        <5> QED BY <5>1, <5>2
      <4> QED BY <1>1, <3>1, <4>2, <4>6
    <3> QED BY <3>2, <3>3
  <2>4. CASE BuildBm25(w)
    <3>1. PICK key \in {"tokens", "chunks"}, next \in {"chunks", "minio"} :
            /\ SetBm25Key(w, key, next)
            /\ \/ (key = "tokens" /\ next = "chunks")
               \/ (key = "chunks" /\ next = "minio")
      <4>1. CASE SetBm25Key(w, "tokens", "chunks")
        BY <4>1
      <4>2. CASE SetBm25Key(w, "chunks", "minio")
        BY <4>2
      <4> QED BY <2>4, <4>1, <4>2 DEF BuildBm25
    <3>2. worker[w].pc = key /\ UNCHANGED status
      BY <3>1 DEF SetBm25Key, table
    <3>3. PICK pc \in {"chunks", "minio"} :
            /\ Goto(w, pc)
            /\ \/ pc = next /\ bm25' = [bm25 EXCEPT ![d] = @ \cup {key}]
               \/ pc = "minio" /\ Trouble(d, Skipped(key))
      BY <2>d, <3>1 DEF SetBm25Key
    <3>4. /\ worker'[w].pc = pc /\ worker'[w].doc = d
          /\ worker'[w].blank = worker[w].blank
          /\ \A v \in Workers \ {w} : worker'[v] = worker[v]
      BY <2>d, <2>a, <3>3, GotoContinues
    <3>5. /\ key \in Keys(d)'
          /\ pc = "minio" => "chunks" \in Keys(d)'
      <4>1. CASE pc = next /\ bm25' = [bm25 EXCEPT ![d] = @ \cup {key}]
        <5>1. key \in bm25'[d]
          BY <1>t, <4>1
        <5> QED BY <3>1, <4>1, <5>1 DEF Keys
      <4>2. CASE pc = "minio" /\ Trouble(d, Skipped(key))
        <5>1. trouble'[d] = trouble[d] \cup Skipped(key)
          BY <1>t, <4>2 DEF Trouble
        <5> QED BY <3>1, <5>1 DEF Keys, Skipped
      <4> QED BY <3>3, <4>1, <4>2
    <3>6. "tokens" \in Keys(d)'
      <4>1. key = "chunks" => "tokens" \in Keys(d)
        BY <2>d, <2>a, <3>2 DEF CompleteBy
      <4> QED BY <2>g, <3>5, <4>1
    <3>7. Vectors(d)' = Batches
      BY <2>d, <2>a, <2>f, <3>2 DEF CompleteBy
    <3>8. CompleteBy(w)'
      BY <2>b, <3>4, <3>5, <3>6, <3>7 DEF CompleteBy
    <3> QED BY <1>1, <3>2, <3>4, <3>8
  <2>5. CASE UploadOriginal(w)
    <3>1. /\ worker[w].pc = "minio" /\ Goto(w, "mark") /\ UNCHANGED status
          /\ minio' = [minio EXCEPT ![d] = TRUE] \/ Trouble(d, {"original"})
      BY <2>5, <2>d DEF UploadOriginal, table
    <3>2. Original(d)'
      BY <1>t, <3>1 DEF Original, Trouble
    <3>3. /\ worker'[w].pc = "mark" /\ worker'[w].doc = d
          /\ worker'[w].blank = worker[w].blank
          /\ \A v \in Workers \ {w} : worker'[v] = worker[v]
      BY <2>d, <2>a, <3>1, GotoContinues
    <3>4. /\ Vectors(d)' = Batches /\ "tokens" \in Keys(d)' /\ "chunks" \in Keys(d)'
      BY <2>d, <2>a, <2>f, <2>g, <3>1 DEF CompleteBy
    <3>5. CompleteBy(w)'
      BY <2>b, <3>2, <3>3, <3>4 DEF CompleteBy
    <3> QED BY <1>1, <3>1, <3>3, <3>5
  <2>6. CASE MarkIndexed(w)
    <3>1. /\ worker[w].pc = "mark"
          /\ status' \in {status, [status EXCEPT ![d] = "indexed"]}
      BY <2>6, <2>d DEF MarkIndexed
    <3>2. PICK pc \in {"ack", "fail"} : Goto(w, pc)
      BY <2>6 DEF MarkIndexed
    <3>3. Complete(d)'
      <4>1. Vectors(d)' = Batches /\ {"tokens", "chunks"} \subseteq Keys(d)' /\ Original(d)'
        BY <2>d, <2>a, <2>f, <2>g, <3>1 DEF CompleteBy
      <4> QED BY <4>1 DEF Complete, Keys
    <3>4. \A e \in Docs : status'[e] = "indexed" => status[e] = "indexed" \/ Complete(e)'
      BY <1>t, <3>1, <3>3
    <3> QED BY <1>1, <2>0, <3>2, <3>4
  <2>7. CASE MarkFailed(w) \/ SendAlert(w) \/ Retry(w)
    <3>1. \A e \in Docs : status'[e] = "indexed" => status[e] = "indexed"
      BY <1>t, <2>7, <2>d DEF MarkFailed, RecordFailure, SendAlert, Retry, table
    <3>2. PICK pc \in {"alert", "ack", "retry"} : Goto(w, pc)
      BY <2>7 DEF MarkFailed, SendAlert, Retry
    <3> QED BY <1>1, <2>0, <3>1, <3>2
  <2>8. CASE SoftLimit(w)
    <3>1. /\ \A v \in Workers \ {w} : worker'[v] = worker[v]
          /\ worker'[w].pc = AfterSoftLimit(worker[w].pc)
          /\ worker'[w].doc = d /\ worker'[w].batch = worker[w].batch
      BY <2>8, <2>d, SoftLimitMoves
    <3>2. PICK zero \in IF worker[w].pc = "embed" THEN SUBSET Batches ELSE {{}} :
            /\ worker' = [worker EXCEPT ![w].pc = AfterSoftLimit(worker[w].pc),
                                        ![w].blank = @ \cup zero, ![w].soft = TRUE]
            /\ Trouble(d, {"chain"} \cup Missed(worker[w].pc, zero))
      BY <2>8, <2>d DEF SoftLimit
    <3>3. worker'[w].blank = worker[w].blank \cup zero
      <4> DEFINE pc == AfterSoftLimit(worker[w].pc)
      <4>1. worker' = [worker EXCEPT ![w].pc = pc, ![w].blank = @ \cup zero, ![w].soft = TRUE]
        BY <3>2
      <4> HIDE DEF pc
      <4> QED BY <1>t, <4>1 DEF Run
    <3>4. trouble'[d] = trouble[d] \cup {"chain"} \cup Missed(worker[w].pc, zero)
      BY <1>t, <3>2 DEF Trouble
    <3>5. worker'[w].blank # {} => "vectors" \in trouble'[d]
      <4>1. CASE worker[w].pc = "embed"
        BY <2>b, <3>3, <3>4, <4>1 DEF Missed, Blanked
      <4>2. CASE worker[w].pc # "embed"
        BY <2>b, <3>2, <3>3, <4>2
      <4> QED BY <4>1, <4>2
    <3>6. CompleteBy(w)'
      <4>1. CASE worker[w].pc = "embed"
        <5>1. worker'[w].pc = "embed"
          BY <3>1, <4>1 DEF AfterSoftLimit
        <5> QED BY <2>d, <2>a, <2>g, <3>1, <3>5, <4>1, <5>1 DEF CompleteBy
      <4>2. CASE worker[w].pc \in {"tokens", "chunks"}
        <5>1. /\ worker'[w].pc = "minio" /\ Skipped(worker[w].pc) \subseteq trouble'[d]
          BY <3>1, <3>4, <4>2 DEF AfterSoftLimit, Missed
        <5>2. "chunks" \in Keys(d)' /\ (worker[w].pc = "tokens" => "tokens" \in Keys(d)')
          BY <4>2, <5>1 DEF Skipped, Keys
        <5>3. Vectors(d)' = Batches /\ (worker[w].pc = "chunks" => "tokens" \in Keys(d)')
          BY <2>d, <2>a, <2>f, <2>g, <4>2 DEF CompleteBy
        <5> QED BY <3>1, <3>5, <4>2, <5>1, <5>2, <5>3 DEF CompleteBy
      <4>3. CASE worker[w].pc = "minio"
        <5>1. worker'[w].pc = "mark" /\ Original(d)'
          BY <3>1, <3>4, <4>3 DEF AfterSoftLimit, Missed, Original
        <5>2. Vectors(d)' = Batches /\ "tokens" \in Keys(d)' /\ "chunks" \in Keys(d)'
          BY <2>d, <2>a, <2>f, <2>g, <4>3 DEF CompleteBy
        <5> QED BY <3>1, <3>5, <5>1, <5>2 DEF CompleteBy
      <4>4. CASE worker[w].pc \in {"alert", "parse", "upsert", "mark", "fail", "retry"}
        <5>1. worker'[w].pc \in {"fail", "retry", "ack"}
          BY <3>1, <4>4 DEF AfterSoftLimit
        <5> QED BY <3>1, <3>5, <5>1 DEF CompleteBy
      <4> QED BY <2>a, <4>1, <4>2, <4>3, <4>4 DEF Active, Body, Handler
    <3>7. \A e \in Docs : status'[e] = "indexed" => status[e] = "indexed" \/ Complete(e)'
      <4>1. CASE status' = status \/ status' = [status EXCEPT ![d] = "failed"]
        BY <1>t, <4>1
      <4>2. CASE worker[w].pc = "mark" /\ status' = [status EXCEPT ![d] = "indexed"]
        <5>1. Vectors(d)' = Batches /\ {"tokens", "chunks"} \subseteq Keys(d)' /\ Original(d)'
          BY <2>d, <2>a, <2>f, <2>g, <4>2 DEF CompleteBy
        <5>2. Complete(d)'
          BY <5>1 DEF Complete, Keys
        <5> QED BY <1>t, <4>2, <5>2
      <4> QED BY <2>8, <2>d, <4>1, <4>2 DEF SoftLimit, RecordFailure, table
    <3> QED BY <1>1, <3>1, <3>6, <3>7
  <2> QED BY <1>4, <2>1, <2>2, <2>3, <2>4, <2>5, <2>6, <2>7, <2>8 DEF WorkerStep
<1> QED BY <1>2, <1>3, <1>4

\* An indexed document has a real vector for every passage, both keys and its
\* original, except for what failed, was skipped or was evicted: no crash, no
\* statement that raised, no retry and no second run leaves another hole, for
\* every number of documents, processes, batches, retries and crashes and under
\* every choice of faults.
THEOREM IndexedIsComplete == Spec => []IndexedMeansComplete
<1>1. Init => CompleteInv
  <2> SUFFICES ASSUME Init PROVE CompleteInv
    OBVIOUS
  <2>1. \A d \in Docs : status[d] # "indexed"
    BY DEF Init
  <2>2. \A w \in Workers : worker[w].pc = "idle"
    BY DEF Init, Idle
  <2> QED BY <2>1, <2>2 DEF CompleteInv
<1>2. TypeOK /\ TypeOK' /\ CompleteInv /\ [Next]_vars => CompleteInv'
  <2> SUFFICES ASSUME TypeOK, TypeOK', CompleteInv, [Next]_vars PROVE CompleteInv'
    OBVIOUS
  <2>1. ASSUME UNCHANGED worker, \A e \in Docs : status'[e] = "indexed" => status[e] = "indexed"
        PROVE  CompleteInv'
    BY <2>1, CompleteStays
  <2>2. ASSUME NEW d \in Docs, GatewayStep(d) \/ GatewayDies(d) \/ Evict(d)
        PROVE  CompleteInv'
    <3>1. UNCHANGED worker
      BY <2>2 DEF GatewayStep, InsertRow, SaveFile, SendTask, InsertJob, ReportError,
         GatewayDies, Evict
    <3>2. \A e \in Docs : status'[e] = "indexed" => status[e] = "indexed"
      BY <2>2 DEF GatewayStep, InsertRow, SaveFile, SendTask, InsertJob, ReportError,
         GatewayDies, Evict, table, TypeOK, TableTypeOK
    <3> QED BY <2>1, <3>1, <3>2
  <2>3. ASSUME NEW w \in Workers, WorkerStep(w) \/ SoftLimit(w) \/ HardLimit(w)
        PROVE  CompleteInv'
    BY <2>3, CompleteWorker
  <2>4. CASE CrashContainer
    <3>1. UNCHANGED status /\ \A w \in Workers : worker'[w].pc = "idle"
      BY <2>4 DEF CrashContainer, table, Idle
    <3> QED BY <3>1, CompleteStays
  <2>5. CASE UNCHANGED vars
    BY <2>1, <2>5 DEF vars
  <2> QED BY <2>2, <2>3, <2>4, <2>5 DEF Next
<1>3. TypeOK /\ CompleteInv => IndexedMeansComplete
  <2> SUFFICES ASSUME TypeOK, CompleteInv, NEW d \in Docs, status[d] = "indexed"
               PROVE  /\ embedded[d] = Batches \/ "vectors" \in trouble[d]
                      /\ {"tokens", "chunks"} \subseteq bm25[d] \cup trouble[d]
                      /\ minio[d] \/ "original" \in trouble[d]
    BY DEF IndexedMeansComplete
  <2>1. embedded[d] \subseteq Batches
    BY DEF TypeOK, StoreTypeOK
  <2>2. Vectors(d) = Batches /\ Keys(d) = {"tokens", "chunks"} /\ Original(d)
    BY DEF CompleteInv, Complete
  <2> QED BY <2>1, <2>2 DEF Vectors, Keys, Original
<1> QED BY <1>1, <1>2, <1>3, TypeCorrect, PTL DEF Spec

--------------------------------------------------------------------------
\* The pipeline implements the life cycle

\* While its request is before the publish, a row is its own: nobody else
\* writes its status, and no message and no run is about it.
RequestInv(d) ==
    /\ gateway[d] = "new" <=> status[d] = "none"
    /\ gateway[d] \in {"save", "saveError", "send"} => status[d] = "queued"
    /\ BeforeSend(d) => /\ \A k \in Attempts : queue[d][k] = 0
                        /\ \A w \in Workers : ~RunsFor(w, d)

\* One message or one run holds the chain of attempts of d.
OneAttempt(d) ==
    /\ \A k \in Attempts : queue[d][k] \in {0, 1}
    /\ \A j, k \in Attempts : queue[d][j] > 0 /\ queue[d][k] > 0 => j = k
    /\ \A v, w \in Workers :
         Active(v) /\ Active(w) /\ worker[v].doc = d /\ worker[w].doc = d => v = w
    /\ \A k \in Attempts, w \in Workers :
         queue[d][k] > 0 /\ Active(w) => worker[w].doc # d

\* The one attempt that is open is the only one that may still change the
\* status, and nothing is open for an indexed document.
OnlyOne(d) == OneAttempt(d) /\ (status[d] = "indexed" => ~Open(d))

\* That is so until a container died and a message was delivered twice, or
\* the chain of the document was broken.
LifeInv ==
    \A d \in Docs : RequestInv(d) /\ (crashes = 0 /\ ~Broken(d) => OnlyOne(d))

\* A step that does not touch a document keeps what LifeInv says of it.
LEMMA LifeElsewhere ==
    ASSUME TypeOK, LifeInv, [Next]_vars, NEW d \in Docs, Elsewhere(d),
           crashes' = 0 => crashes = 0
    PROVE  RequestInv(d)' /\ (crashes' = 0 /\ ~Broken(d)' => OnlyOne(d)')
<1>1. RequestInv(d)'
  BY DEF LifeInv, RequestInv, Elsewhere, BeforeSend, RunsFor
<1>2. \A w \in Workers : Active(w)' /\ worker'[w].doc = d => Active(w) /\ worker[w].doc = d
  BY DEF Elsewhere, RunsFor, Active, Body, Handler
<1>3. OneAttempt(d) => OneAttempt(d)'
  BY <1>2 DEF OneAttempt, Elsewhere
<1>4. Open(d)' => Open(d)
  BY <1>2 DEF Open, Elsewhere
<1>5. OnlyOne(d) => OnlyOne(d)'
  BY <1>3, <1>4 DEF OnlyOne, Elsewhere
<1> QED BY <1>1, <1>5, BrokenStays DEF LifeInv

\* A step of the gateway, or of Redis, keeps LifeInv.
LEMMA LifeGateway ==
    ASSUME TypeOK, TypeOK', LifeInv, [Next]_vars, NEW c \in Docs,
           GatewayStep(c) \/ GatewayDies(c) \/ Evict(c)
    PROVE  LifeInv'
<1>t. /\ queue \in [Docs -> [Attempts -> Nat]] /\ gateway \in [Docs -> GatewayPC]
      /\ status \in [Docs -> {"none", "queued", "failed", "indexed"}]
  BY DEF TypeOK, TableTypeOK
<1>1. UNCHANGED <<worker, crashes>>
  BY DEF GatewayStep, InsertRow, SaveFile, SendTask, InsertJob, ReportError,
         GatewayDies, Evict
<1>2. ASSUME NEW e \in Docs, e # c
      PROVE  RequestInv(e)' /\ (crashes' = 0 /\ ~Broken(e)' => OnlyOne(e)')
  BY <1>1, <1>2, GatewayElsewhere, LifeElsewhere
<1>3. RequestInv(c)
  BY DEF LifeInv
<1>4. RequestInv(c)'
  <2>1. CASE Evict(c)
    BY <1>1, <1>3, <2>1 DEF Evict, table, RequestInv, BeforeSend, RunsFor
  <2>2. CASE GatewayStep(c) \/ GatewayDies(c)
    <3>1. /\ gateway'[c] = "new" <=> status'[c] = "none"
          /\ gateway'[c] \in {"save", "saveError", "send"} => status'[c] = "queued"
          /\ BeforeSend(c)' => BeforeSend(c) /\ UNCHANGED queue
      BY <1>t, <1>3, <2>2 DEF GatewayStep, InsertRow, SaveFile, SendTask, InsertJob,
         ReportError, GatewayDies, Answer, RequestInv, BeforeSend, table
    <3> QED BY <1>1, <1>3, <3>1 DEF RequestInv, RunsFor
  <2> QED BY <2>1, <2>2
<1>5. ASSUME crashes' = 0, ~Broken(c)' PROVE OnlyOne(c)'
  <2>1. OnlyOne(c)
    BY <1>1, <1>5, BrokenStays DEF LifeInv
  <2>2. CASE UNCHANGED queue /\ (status'[c] = "indexed" => status[c] = "indexed")
    <3>1. OneAttempt(c)' <=> OneAttempt(c)
      BY <1>1, <2>2 DEF OneAttempt, Active
    <3>2. Open(c)' <=> Open(c)
      BY <1>1, <2>2 DEF Open, Active
    <3> QED BY <2>1, <2>2, <3>1, <3>2 DEF OnlyOne
  <2>3. CASE gateway[c] = "send" /\ Publish(c, 0) /\ UNCHANGED status
    <3>1. 0 \in Attempts
      BY PipelineAssumption DEF Attempts
    <3>2. /\ \A k \in Attempts : queue[c][k] = 0
          /\ \A w \in Workers : ~RunsFor(w, c)
          /\ status[c] = "queued"
      BY <1>3, <2>3 DEF RequestInv, BeforeSend
    <3>3. queue'[c] = [queue[c] EXCEPT ![0] = queue[c][0] + 1]
      BY <1>t, <2>3 DEF Publish
    <3>4. queue'[c][0] = 1 /\ \A k \in Attempts : k # 0 => queue'[c][k] = 0
      BY <1>t, <3>1, <3>2, <3>3
    <3>5. \A w \in Workers : Active(w)' => worker'[w].doc # c
      BY <1>1, <3>2 DEF RunsFor, Active, Body, Handler
    <3>6. OneAttempt(c)'
      BY <3>4, <3>5 DEF OneAttempt
    <3> QED BY <2>3, <3>2, <3>6 DEF OnlyOne
  <2>4. \/ UNCHANGED queue /\ (status'[c] = "indexed" => status[c] = "indexed")
        \/ gateway[c] = "send" /\ Publish(c, 0) /\ UNCHANGED status
    BY <1>t DEF GatewayStep, InsertRow, SaveFile, SendTask, InsertJob, ReportError,
         GatewayDies, Evict, table
  <2> QED BY <2>2, <2>3, <2>4
<1> QED BY <1>2, <1>4, <1>5 DEF LifeInv

\* A message that becomes a run keeps LifeInv.
LEMMA LifeTake ==
    ASSUME TypeOK, TypeOK', LifeInv, [Next]_vars, NEW w \in Workers, TakeMessage(w)
    PROVE  LifeInv'
<1>t. queue \in [Docs -> [Attempts -> Nat]]
  BY DEF TypeOK
<1>1. PICK c \in Docs, k \in Attempts :
        /\ queue[c][k] > 0
        /\ queue' = [queue EXCEPT ![c][k] = @ - 1]
        /\ worker[w].pc = "idle"
        /\ \A v \in Workers \ {w} : worker'[v] = worker[v]
        /\ worker'[w].pc = "parse" /\ worker'[w].doc = c
        /\ UNCHANGED <<gateway, status, retryCount, crashes>>
  BY TakeMoves
<1>2. ASSUME NEW e \in Docs, e # c
      PROVE  RequestInv(e)' /\ (crashes' = 0 /\ ~Broken(e)' => OnlyOne(e)')
  <2>1. ~RunsFor(w, e) /\ ~RunsFor(w, e)' /\ queue'[e] = queue[e]
    BY <1>t, <1>1, <1>2 DEF RunsFor
  <2>2. Elsewhere(e)
    BY <1>1, <2>1 DEF Elsewhere
  <2> QED BY <1>1, <2>2, LifeElsewhere
<1>3. ~BeforeSend(c) /\ RequestInv(c)
  <2>1. queue[c][k] # 0
    BY <1>t, <1>1
  <2> QED BY <2>1 DEF LifeInv, RequestInv
<1>4. RequestInv(c)'
  BY <1>1, <1>3 DEF RequestInv, BeforeSend
<1>5. ASSUME crashes' = 0, ~Broken(c)' PROVE OnlyOne(c)'
  <2>1. OneAttempt(c) /\ (status[c] = "indexed" => ~Open(c))
    BY <1>1, <1>5, BrokenStays DEF LifeInv, OnlyOne
  <2>2. queue[c][k] = 1 /\ \A j \in Attempts : j # k => queue[c][j] = 0
    <3>1. \A j \in Attempts : queue[c][j] \in {0, 1}
      BY <2>1 DEF OneAttempt
    <3>2. \A j \in Attempts : queue[c][j] > 0 => j = k
      BY <1>1, <2>1 DEF OneAttempt
    <3> QED BY <1>1, <3>1, <3>2
  <2>3. \A j \in Attempts : queue'[c][j] = 0
    <3>1. queue' = [queue EXCEPT ![c] = [queue[c] EXCEPT ![k] = queue[c][k] - 1]]
      BY <1>1
    <3>2. queue'[c] = [queue[c] EXCEPT ![k] = 0]
      BY <1>t, <2>2, <3>1
    <3> QED BY <1>t, <2>2, <3>2
  <2>4. \A v \in Workers : Active(v)' /\ worker'[v].doc = c => v = w
    BY <1>1, <2>1 DEF OneAttempt, Active
  <2>5. OneAttempt(c)'
    BY <2>3, <2>4 DEF OneAttempt
  <2>6. status'[c] # "indexed"
    BY <1>1, <2>1 DEF Open
  <2> QED BY <2>5, <2>6 DEF OnlyOne
<1> QED BY <1>2, <1>4, <1>5 DEF LifeInv

\* A step of a worker, or a time limit, keeps LifeInv.
LEMMA LifeWorker ==
    ASSUME TypeOK, TypeOK', ChainInv, LifeInv, [Next]_vars, NEW w \in Workers,
           WorkerStep(w) \/ SoftLimit(w) \/ HardLimit(w), ~TakeMessage(w)
    PROVE  LifeInv'
<1> DEFINE k == worker[w].retries
<1>t. /\ queue \in [Docs -> [Attempts -> Nat]] /\ queue' \in [Docs -> [Attempts -> Nat]]
      /\ status \in [Docs -> {"none", "queued", "failed", "indexed"}]
      /\ k \in Attempts
  BY DEF TypeOK, TableTypeOK, WorkerTypeOK, Run
<1>1. PICK c \in Docs : c = worker[w].doc
  BY RunContinues DEF Continues
<1>2. /\ worker[w].pc # "idle" /\ UNCHANGED <<gateway, crashes>>
      /\ \A v \in Workers \ {w} : worker'[v] = worker[v]
      /\ Active(w)' => Active(w) /\ worker'[w].doc = c
  BY <1>1, RunContinues DEF Continues, Active, Body, Handler, Idle
<1>3. ASSUME NEW e \in Docs, e # c
      PROVE  RequestInv(e)' /\ (crashes' = 0 /\ ~Broken(e)' => OnlyOne(e)')
  BY <1>1, <1>2, <1>3, RunElsewhere, LifeElsewhere
<1>4. RequestInv(c)'
  <2>1. RequestInv(c) /\ ~BeforeSend(c)
    BY <1>1, <1>2 DEF LifeInv, RequestInv, RunsFor
  <2>2. status'[c] = status[c] \/ status'[c] \in {"indexed", "failed"}
    BY <1>t, <1>1, RunWrites DEF RecordFailure
  <2> QED BY <1>2, <2>1, <2>2 DEF RequestInv, BeforeSend
<1>5. ASSUME crashes' = 0, ~Broken(c)' PROVE OnlyOne(c)'
  <2>1. OneAttempt(c) /\ (status[c] = "indexed" => ~Open(c)) /\ ChainOn(c)
    BY <1>2, <1>5, BrokenStays DEF LifeInv, OnlyOne, ChainInv
  <2>2. ~worker[w].soft /\ "chain" \notin trouble'[worker[w].doc]
    BY <1>1, <1>2, <1>5, <2>1 DEF ChainOn, ChainOf, RunsFor, Broken
  <2>3. CASE worker[w].pc = "ack"
    <3>1. UNCHANGED <<status, queue>>
      BY <2>2, <2>3, UnbrokenMoves DEF Body
    <3>2. \A v \in Workers : Active(v)' /\ worker'[v].doc = c =>
                               Active(v) /\ worker[v].doc = c
      BY <1>1, <1>2 DEF Active
    <3>3. OneAttempt(c)'
      BY <2>1, <3>1, <3>2 DEF OneAttempt
    <3>4. Open(c)' => Open(c)
      BY <3>1, <3>2 DEF Open
    <3> QED BY <2>1, <3>1, <3>3, <3>4 DEF OnlyOne
  <2>4. CASE worker[w].pc # "ack"
    <3>1. Active(w)
      BY <1>2, <2>4 DEF Active, TypeOK, WorkerTypeOK, Run, RunPC
    <3>2. /\ \A j \in Attempts : queue[c][j] = 0
          /\ \A v \in Workers : Active(v) /\ worker[v].doc = c => v = w
      <4>1. \A j \in Attempts : queue[c][j] \in {0, 1} /\ ~(queue[c][j] > 0)
        BY <1>1, <2>1, <3>1 DEF OneAttempt
      <4>2. \A v \in Workers : Active(v) /\ worker[v].doc = c => v = w
        BY <1>1, <2>1, <3>1 DEF OneAttempt
      <4> QED BY <4>1, <4>2
    <3>3. \A v \in Workers : Active(v)' /\ worker'[v].doc = c => v = w
      BY <1>2, <3>2 DEF Active
    <3>4. status[c] # "indexed"
      BY <1>1, <2>1, <3>1 DEF Open
    <3>5. CASE UNCHANGED queue
      <4>1. \A j \in Attempts : queue'[c][j] = 0
        BY <3>2, <3>5
      <4>2. OneAttempt(c)'
        BY <3>3, <4>1 DEF OneAttempt
      <4>3. status'[c] = "indexed" => ~Active(w)'
        <5>1. CASE worker[w].pc = "mark" /\ worker'[w].pc = "ack"
          BY <5>1 DEF Active, Body, Handler
        <5>2. CASE UNCHANGED status \/ RecordFailure(c)
          BY <1>t, <3>4, <5>2 DEF RecordFailure
        <5> QED BY <1>1, <2>2, <5>1, <5>2, UnbrokenMoves
      <4>4. Open(c)' => Active(w)'
        BY <3>3, <4>1 DEF Open
      <4> QED BY <4>2, <4>3, <4>4 DEF OnlyOne
    <3>6. CASE ~UNCHANGED queue
      <4>1. /\ worker'[w].pc = "ack" /\ UNCHANGED status
            /\ k + 1 <= MaxRetries /\ Publish(c, k + 1)
        BY <1>1, <2>2, <3>6, UnbrokenMoves
      <4> DEFINE n == k + 1
      <4>2. n \in Attempts
        <5> HIDE DEF k
        <5> QED BY <1>t, <4>1, PipelineAssumption DEF Attempts
      <4>3. queue'[c] = [queue[c] EXCEPT ![n] = queue[c][n] + 1]
        BY <1>t, <4>1 DEF Publish
      <4> HIDE DEF n
      <4>4. queue'[c][n] = 1 /\ \A j \in Attempts : j # n => queue'[c][j] = 0
        BY <1>t, <3>2, <4>2, <4>3
      <4>5. \A v \in Workers : Active(v)' => worker'[v].doc # c
        BY <3>3, <4>1 DEF Active, Body, Handler
      <4>6. OneAttempt(c)'
        BY <4>2, <4>4, <4>5 DEF OneAttempt
      <4> QED BY <3>4, <4>1, <4>6 DEF OnlyOne
    <3> QED BY <3>5, <3>6
  <2> QED BY <2>3, <2>4
<1> QED BY <1>3, <1>4, <1>5 DEF LifeInv

\* A crash keeps LifeInv: what it delivers again was already sent.
LEMMA LifeCrash ==
    ASSUME TypeOK, TypeOK', LifeInv, CrashContainer
    PROVE  LifeInv'
<1>1. /\ crashes \in Nat /\ crashes' = crashes + 1 /\ UNCHANGED <<gateway, status>>
      /\ \A w \in Workers : worker'[w].pc = "idle"
  BY DEF CrashContainer, TypeOK, table, Idle
<1>2. crashes' # 0
  BY <1>1
<1>3. ASSUME NEW d \in Docs PROVE RequestInv(d)'
  <2>1. CASE BeforeSend(d)
    <3>1. ASSUME NEW k \in Attempts PROVE queue'[d][k] = 0
      <4>1. Unacknowledged(d, k) = {}
        BY <2>1 DEF Unacknowledged, LifeInv, RequestInv, RunsFor
      <4>2. queue'[d][k] = queue[d][k] + Cardinality(Unacknowledged(d, k))
        BY DEF CrashContainer
      <4> QED BY <2>1, <4>1, <4>2, FS_EmptySet DEF LifeInv, RequestInv
    <3> QED BY <1>1, <3>1 DEF LifeInv, RequestInv, RunsFor
  <2>2. CASE ~BeforeSend(d)
    BY <1>1, <2>2 DEF LifeInv, RequestInv, BeforeSend
  <2> QED BY <2>1, <2>2
<1> QED BY <1>2, <1>3 DEF LifeInv

\* LifeInv is an invariant.
LEMMA LifeInvariant == Spec => []LifeInv
<1>1. Init => LifeInv
  <2> SUFFICES ASSUME Init, NEW d \in Docs PROVE RequestInv(d) /\ OnlyOne(d)
    BY DEF LifeInv
  <2>1. \A k \in Attempts : queue[d][k] = 0
    BY DEF Init
  <2>2. \A w \in Workers : ~RunsFor(w, d) /\ ~Active(w)
    BY DEF Init, RunsFor, Active, Idle, Body, Handler
  <2>3. RequestInv(d)
    BY <2>1, <2>2 DEF Init, RequestInv
  <2>4. OnlyOne(d)
    BY <2>1, <2>2 DEF Init, OnlyOne, OneAttempt
  <2> QED BY <2>3, <2>4
<1>2. TypeOK /\ TypeOK' /\ ChainInv /\ LifeInv /\ [Next]_vars => LifeInv'
  <2> SUFFICES ASSUME TypeOK, TypeOK', ChainInv, LifeInv, [Next]_vars PROVE LifeInv'
    OBVIOUS
  <2>1. ASSUME NEW d \in Docs, GatewayStep(d) \/ GatewayDies(d) \/ Evict(d) PROVE LifeInv'
    BY <2>1, LifeGateway
  <2>2. ASSUME NEW w \in Workers, WorkerStep(w) \/ SoftLimit(w) \/ HardLimit(w)
        PROVE  LifeInv'
    BY <2>2, LifeTake, LifeWorker
  <2>3. CASE CrashContainer
    BY <2>3, LifeCrash
  <2>4. CASE UNCHANGED vars
    <3>1. UNCHANGED crashes /\ \A d \in Docs : Elsewhere(d)
      BY <2>4 DEF vars, Elsewhere
    <3> QED BY <3>1, LifeElsewhere DEF LifeInv
  <2> QED BY <2>1, <2>2, <2>3, <2>4 DEF Next
<1> QED BY <1>1, <1>2, TypeCorrect, ChainInvariant, PTL DEF Spec

\* What a step of one document leaves alone in the abstract state.
OnlyAbout(d) ==
    \A e \in Docs : e # d =>
        /\ points'[e] = points[e]
        /\ gateway'[e] = "refused" <=> gateway[e] = "refused"
        /\ Broken(e)' <=> Broken(e)

\* A set of documents that one more document joins, as a function.
LEMMA OneMoreTrue ==
    ASSUME NEW S, NEW d \in S, NEW f \in [S -> BOOLEAN], NEW g \in [S -> BOOLEAN],
           g[d], \A e \in S : e # d => (g[e] <=> f[e])
    PROVE  g = [f EXCEPT ![d] = TRUE]
<1>1. g[d] = TRUE
  OBVIOUS
<1>2. \A e \in S : e # d => g[e] = f[e]
  OBVIOUS
<1> QED BY <1>1, <1>2

\* The abstract picture of a step that refuses nobody: the document it is about
\* may be broken by it, and no other.
LEMMA AbstractState ==
    ASSUME NEW d \in Docs, OnlyAbout(d), Broken(d) => Broken(d)',
           gateway'[d] = "refused" <=> gateway[d] = "refused"
    PROVE  /\ UNCHANGED [e \in Docs |-> gateway[e] = "refused"]
           /\ [e \in Docs |-> Broken(e)]' \in
                {[e \in Docs |-> Broken(e)], [[e \in Docs |-> Broken(e)] EXCEPT ![d] = TRUE]}
<1>1. \A e \in Docs : gateway'[e] = "refused" <=> gateway[e] = "refused"
  BY DEF OnlyAbout
<1>2. \A e \in Docs : e # d => (Broken(e)' <=> Broken(e))
  BY DEF OnlyAbout
<1>3. UNCHANGED [e \in Docs |-> gateway[e] = "refused"]
  BY <1>1
<1> DEFINE broken == [e \in Docs |-> "chain" \in trouble[e]]
<1>4. broken = [e \in Docs |-> Broken(e)] /\ broken' = [e \in Docs |-> Broken(e)]'
  BY DEF Broken
<1>5. \A e \in Docs : e # d => ("chain" \in trouble'[e] <=> "chain" \in trouble[e])
  BY <1>2 DEF Broken
<1>6. "chain" \in trouble[d] => "chain" \in trouble'[d]
  BY DEF Broken
<1>7. CASE "chain" \in trouble'[d] <=> "chain" \in trouble[d]
  <2>1. \A e \in Docs : "chain" \in trouble'[e] <=> "chain" \in trouble[e]
    BY <1>5, <1>7
  <2>2. broken' = broken
    BY <2>1
  <2> QED BY <1>3, <1>4, <2>2
<1>8. CASE "chain" \in trouble'[d] /\ "chain" \notin trouble[d]
  <2>1. broken \in [Docs -> BOOLEAN] /\ broken' \in [Docs -> BOOLEAN]
    OBVIOUS
  <2>2. broken'[d] /\ \A e \in Docs : e # d => (broken'[e] <=> broken[e])
    BY <1>5, <1>8
  <2> HIDE DEF broken
  <2>3. broken' = [broken EXCEPT ![d] = TRUE]
    BY <2>1, <2>2, OneMoreTrue
  <2> QED BY <1>3, <1>4, <2>3
<1> QED BY <1>6, <1>7, <1>8

\* A step that leaves the status alone is a step of the life cycle when it adds
\* copies to one document that has a row, or breaks its chain.
LEMMA StoringIsStore ==
    ASSUME TypeOK, NEW d \in Docs, status[d] # "none", UNCHANGED <<status, crashes>>,
           OnlyAbout(d), Broken(d) => Broken(d)',
           gateway'[d] = "refused" <=> gateway[d] = "refused",
           \A b \in Batches : points[d][b] > 0 => points'[d][b] > 0
    PROVE  [Lifecycle!Next]_(Lifecycle!vars)
<1> DEFINE stored == [e \in Docs |-> \A b \in Batches : points[e][b] > 0]
<1>1. \A e \in Docs : e # d => (stored'[e] <=> stored[e])
  BY DEF OnlyAbout
<1>2. CASE stored'[d] <=> stored[d]
  <2>1. stored' = stored
    BY <1>1, <1>2
  <2>2. status' = [status EXCEPT ![d] = status[d]]
    BY DEF TypeOK, TableTypeOK
  <2>3. Lifecycle!Break(d)
    BY <2>1, <2>2, AbstractState DEF Lifecycle!Break, Lifecycle!Become, Lifecycle!MayBreak
  <2> QED BY <2>3 DEF Lifecycle!Next
<1>3. CASE ~(stored'[d] <=> stored[d])
  <2>1. stored[d] => stored'[d]
    OBVIOUS
  <2>2. stored' = [stored EXCEPT ![d] = TRUE]
    BY <1>1, <1>3, <2>1
  <2>3. Lifecycle!Store(d)
    BY <2>2, AbstractState DEF Lifecycle!Store, Lifecycle!MayBreak
  <2> QED BY <2>3 DEF Lifecycle!Next
<1> QED BY <1>2, <1>3

\* A step that sets the status of one document, and refuses nobody.
LEMMA StatusIsLifecycle ==
    ASSUME NEW d \in Docs, UNCHANGED <<points, crashes>>,
           OnlyAbout(d), Broken(d) => Broken(d)',
           gateway'[d] = "refused" <=> gateway[d] = "refused",
           \/ status[d] = "none" /\ status' = [status EXCEPT ![d] = "queued"]
           \/ /\ status[d] \in {"queued", "failed"}
              /\ status' = [status EXCEPT ![d] = "failed"]
           \/ /\ status[d] \in {"queued", "failed"}
              /\ \A b \in Batches : points[d][b] > 0
              /\ status' = [status EXCEPT ![d] = "indexed"]
           \/ /\ crashes > 0 \/ Broken(d)
              /\ status[d] = "indexed"
              /\ status' = [status EXCEPT ![d] = "failed"]
    PROVE  [Lifecycle!Next]_(Lifecycle!vars)
<1>1. /\ UNCHANGED [e \in Docs |-> gateway[e] = "refused"]
      /\ Lifecycle!MayBreak(d)
      /\ UNCHANGED [e \in Docs |-> \A b \in Batches : points[e][b] > 0]
      /\ UNCHANGED (crashes > 0)
  BY AbstractState DEF Lifecycle!MayBreak
<1>2. CASE status[d] = "none" /\ status' = [status EXCEPT ![d] = "queued"]
  BY <1>1, <1>2 DEF Lifecycle!Next, Lifecycle!Accept, Lifecycle!Become
<1>3. CASE status[d] \in {"queued", "failed"} /\ status' = [status EXCEPT ![d] = "failed"]
  BY <1>1, <1>3 DEF Lifecycle!Next, Lifecycle!Fail, Lifecycle!Become
<1>4. CASE /\ status[d] \in {"queued", "failed"}
           /\ \A b \in Batches : points[d][b] > 0
           /\ status' = [status EXCEPT ![d] = "indexed"]
  BY <1>1, <1>4 DEF Lifecycle!Next, Lifecycle!Index, Lifecycle!Become
<1>5. CASE /\ crashes > 0 \/ Broken(d)
           /\ status[d] = "indexed" /\ status' = [status EXCEPT ![d] = "failed"]
  BY <1>1, <1>5 DEF Lifecycle!Next, Lifecycle!Relapse, Lifecycle!Become
<1> QED BY <1>2, <1>3, <1>4, <1>5

\* The copies of a batch are the only thing a run adds to Qdrant, and it does
\* not write the status in the same step.
LEMMA PointsMove ==
    ASSUME TypeOK, NEW w \in Workers, WorkerStep(w) \/ SoftLimit(w) \/ HardLimit(w)
    PROVE  \/ UNCHANGED points
           \/ /\ worker[w].pc = "upsert" /\ UNCHANGED <<status, crashes>>
              /\ \A e \in Docs : e # worker[w].doc => points'[e] = points[e]
              /\ \A b \in Batches :
                   points[worker[w].doc][b] > 0 => points'[worker[w].doc][b] > 0
<1>1. CASE UpsertBatch(w) \/ (SoftLimit(w) /\ ~UNCHANGED points)
  <2> DEFINE b == worker[w].batch
  <2>1. /\ worker[w].pc = "upsert" /\ b \in Batches /\ UNCHANGED <<status, crashes>>
        /\ UNCHANGED points \/ StoreBatch(worker[w].doc, b, b \in worker[w].blank)
    BY <1>1 DEF UpsertBatch, SoftLimit, table
  <2>2. PICK d \in Docs : d = worker[w].doc
    BY <2>1 DEF TypeOK, WorkerTypeOK
  <2>3. UNCHANGED points \/ points' = [points EXCEPT ![d] = [points[d] EXCEPT ![b] = @ + 1]]
    BY <2>1, <2>2 DEF StoreBatch
  <2>4. points \in [Docs -> [Batches -> Nat]]
    BY DEF TypeOK, StoreTypeOK
  <2>5. \A c \in Batches : points[d][c] > 0 => points'[d][c] > 0
    BY <2>1, <2>3, <2>4
  <2> QED BY <2>1, <2>2, <2>3, <2>4, <2>5
<1>2. CASE ~UpsertBatch(w) /\ ~SoftLimit(w)
  BY <1>2 DEF WorkerStep, TakeMessage, ParseAndChunk, Embed, BuildBm25, SetBm25Key,
         UploadOriginal, MarkIndexed, MarkFailed, SendAlert, Retry, Acknowledge, HardLimit, stores
<1> QED BY <1>1, <1>2

\* Where a run is when it writes the status.
LEMMA WritesWhere ==
    ASSUME TypeOK, NEW w \in Workers,
           WorkerStep(w) \/ SoftLimit(w) \/ HardLimit(w), ~TakeMessage(w)
    PROVE  \/ UNCHANGED status
           \/ /\ worker[w].pc = "mark" /\ UNCHANGED points
              /\ status' = [status EXCEPT ![worker[w].doc] = "indexed"]
           \/ /\ worker[w].pc = "fail" /\ UNCHANGED points
              /\ status' = [status EXCEPT ![worker[w].doc] = "failed"]
<1>1. WorkerStep(w) \/ HardLimit(w) =>
        \/ UNCHANGED status
        \/ /\ worker[w].pc = "mark" /\ UNCHANGED points
           /\ status' = [status EXCEPT ![worker[w].doc] = "indexed"]
        \/ /\ worker[w].pc = "fail" /\ UNCHANGED points
           /\ status' = [status EXCEPT ![worker[w].doc] = "failed"]
  BY DEF WorkerStep, ParseAndChunk, Embed, UpsertBatch, BuildBm25, SetBm25Key,
     UploadOriginal, MarkIndexed, MarkFailed, RecordFailure, SendAlert, Retry, Acknowledge,
     HardLimit, table, stores
<1>2. SoftLimit(w) =>
        \/ UNCHANGED status
        \/ /\ worker[w].pc = "mark" /\ UNCHANGED points
           /\ status' = [status EXCEPT ![worker[w].doc] = "indexed"]
        \/ /\ worker[w].pc = "fail" /\ UNCHANGED points
           /\ status' = [status EXCEPT ![worker[w].doc] = "failed"]
  BY DEF SoftLimit, RecordFailure, table
<1> QED BY <1>1, <1>2

\* A step of the gateway, or of Redis.
LEMMA GatewayIsLifecycle ==
    ASSUME TypeOK, TypeOK', LifeInv, [Next]_vars, NEW d \in Docs,
           GatewayStep(d) \/ GatewayDies(d) \/ Evict(d)
    PROVE  [Lifecycle!Next]_(Lifecycle!vars)
<1>t. /\ status \in [Docs -> {"none", "queued", "failed", "indexed"}]
      /\ gateway \in [Docs -> GatewayPC]
      /\ trouble \in [Docs -> SUBSET Troubles]
  BY DEF TypeOK, TableTypeOK
<1>1. UNCHANGED <<points, crashes>> /\ RequestInv(d) /\ (Broken(d) => Broken(d)')
  BY BrokenStays DEF GatewayStep, InsertRow, SaveFile, SendTask, InsertJob, ReportError,
     GatewayDies, Evict, stores, LifeInv
<1>2. OnlyAbout(d)
  <2>1. ASSUME NEW e \in Docs, e # d
        PROVE  gateway'[e] = gateway[e] /\ trouble'[e] = trouble[e]
    BY <2>1, GatewayElsewhere, TroubleGateway DEF Elsewhere, TroubleAbout
  <2> QED BY <1>1, <2>1 DEF OnlyAbout, Broken
<1>3. CASE ReportError(d)
  <2> DEFINE refused == [e \in Docs |-> gateway[e] = "refused"]
             broken == [e \in Docs |-> Broken(e)]
  <2>1. gateway[d] \in {"saveError", "sendError"} /\ gateway'[d] = "refused"
    BY <1>t, <1>3 DEF ReportError, Answer
  <2>2. status[d] # "none"
    BY <1>1, <2>1 DEF RequestInv
  <2>3. refused' = [refused EXCEPT ![d] = TRUE]
    BY <1>2, <2>1 DEF OnlyAbout
  <2>4. \/ status' = [status EXCEPT ![d] = "failed"] /\ broken' = broken
        \/ broken' = [broken EXCEPT ![d] = TRUE] /\ UNCHANGED status
    <3>1. CASE status' = [status EXCEPT ![d] = "failed"] /\ UNCHANGED trouble
      BY <3>1 DEF Broken
    <3>2. CASE UNCHANGED status /\ Trouble(d, {"chain"})
      <4>1. Broken(d)' = TRUE
        BY <1>t, <3>2 DEF Trouble, Broken
      <4>2. "chain" \in trouble'[d]
        BY <4>1 DEF Broken
      <4>3. \A e \in Docs : e # d => ("chain" \in trouble'[e] <=> "chain" \in trouble[e])
        BY <1>2 DEF OnlyAbout, Broken
      <4>4. broken \in [Docs -> BOOLEAN] /\ broken' \in [Docs -> BOOLEAN]
        BY DEF Broken
      <4>5. broken'[d] /\ \A e \in Docs : e # d => (broken'[e] <=> broken[e])
        BY <4>2, <4>3 DEF Broken
      <4> HIDE DEF broken
      <4>6. broken' = [broken EXCEPT ![d] = TRUE]
        BY <4>4, <4>5, OneMoreTrue
      <4> QED BY <3>2, <4>6
    <3> QED BY <1>3, <3>1, <3>2 DEF ReportError
  <2>5. Lifecycle!Refuse(d)
    <3>1. ~refused[d]
      BY <2>1
    <3>2. UNCHANGED [e \in Docs |-> \A b \in Batches : points[e][b] > 0]
      BY <1>1
    <3>3. UNCHANGED (crashes > 0)
      BY <1>1
    <3> QED BY <2>2, <2>3, <2>4, <3>1, <3>2, <3>3 DEF Lifecycle!Refuse
  <2> QED BY <2>5 DEF Lifecycle!Next
<1>4. CASE InsertRow(d)
  <2>1. /\ status[d] = "none" /\ status' = [status EXCEPT ![d] = "queued"]
        /\ gateway[d] = "new" /\ gateway'[d] = "save"
    BY <1>t, <1>1, <1>4 DEF InsertRow, Answer, RequestInv
  <2> QED BY <1>1, <1>2, <2>1, StatusIsLifecycle
<1>5. CASE ~ReportError(d) /\ ~InsertRow(d) /\ ~Evict(d)
  <2>1. /\ UNCHANGED status /\ gateway[d] \notin {"new", "refused"}
        /\ gateway'[d] # "refused"
    BY <1>t, <1>5 DEF GatewayStep, SaveFile, SendTask, InsertJob, GatewayDies, Answer, table
  <2>2. status[d] # "none"
    BY <1>1, <2>1 DEF RequestInv
  <2> QED BY <1>1, <1>2, <2>1, <2>2, StoringIsStore
<1>6. CASE Evict(d)
  <2>1. PICK key \in {"tokens", "chunks"} : Trouble(d, {key})
    BY <1>6 DEF Evict, TypeOK, StoreTypeOK
  <2>2. trouble'[d] = trouble[d] \cup {key}
    BY <1>t, <2>1 DEF Trouble
  <2>3. \A e \in Docs : Broken(e)' <=> Broken(e)
    BY <1>2, <2>2 DEF OnlyAbout, Broken
  <2>4. UNCHANGED <<status, gateway>>
    BY <1>6 DEF Evict, table
  <2>5. \A e \in Docs : "chain" \in trouble'[e] <=> "chain" \in trouble[e]
    BY <2>3 DEF Broken
  <2>6. UNCHANGED [e \in Docs |-> Broken(e)]
    BY <2>5 DEF Broken
  <2> QED BY <1>1, <2>4, <2>6 DEF Lifecycle!vars
<1> QED BY <1>3, <1>4, <1>5, <1>6 DEF GatewayStep

\* A step of a worker, or a time limit.
LEMMA WorkerIsLifecycle ==
    ASSUME TypeOK, TypeOK', StoredInv, LifeInv, [Next]_vars, NEW w \in Workers,
           WorkerStep(w) \/ SoftLimit(w) \/ HardLimit(w)
    PROVE  [Lifecycle!Next]_(Lifecycle!vars)
<1>t. status \in [Docs -> {"none", "queued", "failed", "indexed"}] /\ crashes \in Nat
  BY DEF TypeOK, TableTypeOK
<1>1. CASE TakeMessage(w)
  <2>1. UNCHANGED <<status, points, crashes, gateway, trouble>>
    BY <1>1, TakeMoves DEF TakeMessage
  <2> QED BY <2>1 DEF Broken, Lifecycle!vars
<1>2. CASE ~TakeMessage(w)
  <2>1. Continues(w)
    BY <1>2, RunContinues
  <2>2. PICK d \in Docs : d = worker[w].doc
    BY <2>1 DEF Continues
  <2>3. /\ status[d] # "none" /\ UNCHANGED <<crashes, gateway>>
        /\ Broken(d) => Broken(d)'
    BY <2>1, <2>2, BrokenStays DEF Continues, BeforeSend, LifeInv, RequestInv, RunsFor
  <2>4. OnlyAbout(d)
    <3>1. \A e \in Docs : e # d => points'[e] = points[e]
      BY <2>2, PointsMove
    <3>2. \A e \in Docs : e # d => (Broken(e)' <=> Broken(e))
      BY <2>1, <2>2, TroubleWorker DEF Continues, TroubleAbout, Broken
    <3> QED BY <2>3, <3>1, <3>2 DEF OnlyAbout
  <2>5. CASE UNCHANGED status
    <3>1. \A b \in Batches : points[d][b] > 0 => points'[d][b] > 0
      BY <2>2, PointsMove
    <3> QED BY <2>3, <2>4, <2>5, <3>1, StoringIsStore
  <2>6. CASE /\ worker[w].pc = "mark" /\ UNCHANGED points
             /\ status' = [status EXCEPT ![d] = "indexed"]
    <3>1. \A b \in Batches : points[d][b] > 0
      BY <2>2, <2>6 DEF StoredInv, StoredBy
    <3>2. CASE status[d] = "indexed"
      <4>1. UNCHANGED status
        BY <1>t, <2>6, <3>2
      <4> QED BY <2>5, <4>1
    <3>3. CASE status[d] # "indexed"
      <4>1. status[d] \in {"queued", "failed"}
        BY <1>t, <2>3, <3>3
      <4> QED BY <2>3, <2>4, <2>6, <3>1, <4>1, StatusIsLifecycle
    <3> QED BY <3>2, <3>3
  <2>7. CASE /\ worker[w].pc = "fail" /\ UNCHANGED points
             /\ status' = [status EXCEPT ![d] = "failed"]
    <3>1. status[d] = "indexed" => crashes > 0 \/ Broken(d)
      <4>1. Open(d)
        BY <2>2, <2>7 DEF Open, Active, Handler
      <4> QED BY <1>t, <4>1 DEF LifeInv, OnlyOne
    <3>2. \/ status[d] \in {"queued", "failed"}
          \/ (crashes > 0 \/ Broken(d)) /\ status[d] = "indexed"
      BY <1>t, <2>3, <3>1
    <3> QED BY <2>3, <2>4, <2>7, <3>2, StatusIsLifecycle
  <2> QED BY <1>2, <2>2, <2>5, <2>6, <2>7, WritesWhere
<1> QED BY <1>1, <1>2

\* Every step is one of the abstract life cycle, or changes nothing in it.
LEMMA StepIsLifecycle ==
    ASSUME TypeOK, TypeOK', StoredInv, LifeInv, [Next]_vars
    PROVE  [Lifecycle!Next]_(Lifecycle!vars)
<1>1. ASSUME NEW d \in Docs, GatewayStep(d) \/ GatewayDies(d) \/ Evict(d)
      PROVE  [Lifecycle!Next]_(Lifecycle!vars)
  BY <1>1, GatewayIsLifecycle
<1>2. ASSUME NEW w \in Workers, WorkerStep(w) \/ SoftLimit(w) \/ HardLimit(w)
      PROVE  [Lifecycle!Next]_(Lifecycle!vars)
  BY <1>2, WorkerIsLifecycle
<1>3. CASE CrashContainer
  <2>1. UNCHANGED <<status, points, gateway, trouble>> /\ crashes' = crashes + 1
    BY <1>3 DEF CrashContainer, table, stores
  <2>2. (crashes' > 0) = TRUE
    BY <2>1 DEF TypeOK
  <2>3. Lifecycle!Redeliver
    BY <2>1, <2>2 DEF Broken, Lifecycle!Redeliver
  <2> QED BY <2>3 DEF Lifecycle!Next
<1>4. CASE UNCHANGED vars
  BY <1>4 DEF vars, stores, table, Broken, Lifecycle!vars
<1> QED BY <1>1, <1>2, <1>3, <1>4 DEF Next

\* The pipeline implements the safety of the life cycle, whatever fails and
\* however often the container crashes.  No late step of an attempt takes an
\* indexed document back or indexes a half stored one, unless a crash had a
\* message delivered twice or the chain of the document was broken, and one of
\* the gateway does so once, when it answers with a 500.
THEOREM ImplementsLifecycleSteps ==
    Spec => Lifecycle!Init /\ [][Lifecycle!Next]_(Lifecycle!vars)
<1>1. Init => Lifecycle!Init
  <2> SUFFICES ASSUME Init PROVE Lifecycle!Init
    OBVIOUS
  <2>1. 1 \in Batches
    BY PipelineAssumption DEF Batches
  <2>2. \A d \in Docs : (\A b \in Batches : points[d][b] > 0) = FALSE
    BY <2>1 DEF Init
  <2>3. \A d \in Docs : (gateway[d] = "refused") = FALSE /\ Broken(d) = FALSE
    BY DEF Init, Broken
  <2>4. (crashes > 0) = FALSE
    BY DEF Init
  <2> QED BY <2>2, <2>3, <2>4 DEF Init, Lifecycle!Init
<1>2. TypeOK /\ TypeOK' /\ StoredInv /\ LifeInv /\ [Next]_vars
        => [Lifecycle!Next]_(Lifecycle!vars)
  BY StepIsLifecycle
<1> QED BY <1>1, <1>2, TypeCorrect, StoredInvariant, LifeInvariant, PTL DEF Spec
=============================================================================
