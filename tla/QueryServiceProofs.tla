-------------------------- MODULE QueryServiceProofs --------------------------
(* Theorems of QueryService for any number of requests, documents and        *)
(* scopes, any cache and run time and any choice of faults.                  *)
EXTENDS QueryService, FiniteSetTheorems, FunctionTheorems, RecursionProofs

--------------------------------------------------------------------------
\* The indexes on their own

IndexSpec == IndexInit /\ [][IndexStep]_indexVars

--------------------------------------------------------------------------
\* Types

\* The numbers of an instance.
LEMMA IndexNumbers ==
    /\ NumPassages \in Nat /\ NumPassages # 0 /\ MaxCopies \in Nat /\ MaxCopies # 0
    /\ ScrollLimit \in Nat /\ MaxEvents \in Nat
<1>1. NumPassages \in Nat \ {0} /\ MaxCopies \in Nat \ {0}
  BY IndexAssumption DEF IndexAssumption
<1>2. ScrollLimit \in Nat /\ MaxEvents \in Nat
  BY IndexAssumption DEF IndexAssumption
<1> QED BY <1>1, <1>2

\* There are finitely many points an instance can hold.
LEMMA PointsAreFinite == IsFiniteSet(Point)
<1> DEFINE D == Docs \X Passages
           E == D \X (1..MaxCopies)
           f == [x \in E |-> [doc |-> x[1][1], n |-> x[1][2], copy |-> x[2]]]
<1>1. IsFiniteSet(Docs) /\ IsFiniteSet(Passages) /\ IsFiniteSet(1..MaxCopies)
  BY IndexAssumption, IndexNumbers, FS_Interval DEF IndexAssumption, Passages
<1>2. IsFiniteSet(D)
  BY <1>1, FS_Product
<1>3. IsFiniteSet(E)
  BY <1>1, <1>2, FS_Product
<1>4. f \in [E -> Point]
  BY DEF Point
<1>5. ASSUME NEW p \in Point PROVE \E x \in E : f[x] = p
  <2> DEFINE x == <<<<p.doc, p.n>>, p.copy>>
  <2>1. x \in E /\ p = [doc |-> p.doc, n |-> p.n, copy |-> p.copy]
    BY DEF Point
  <2>2. f[x] = p
    BY <2>1
  <2> QED BY <2>1, <2>2
<1> HIDE DEF f, E
<1>6. f \in Surjection(E, Point)
  BY <1>4, <1>5, Fun_IsSurj
<1> QED BY <1>3, <1>6, FS_Surjection

\* While a run is about to store its points, there is a copy left for them.
RoomForCopies ==
    \A d \in Docs : writer[d] = "upsert" => Unused(d) # {}

IndexTypes == IndexTypeOK /\ RoomForCopies

\* The points a run stores.
LEMMA BatchIsOfDoc ==
    ASSUME NEW d \in Docs, Unused(d) # {}
    PROVE  Batch(d) \subseteq Point /\ \A p \in Batch(d) : p.doc = d
<1> DEFINE c == CHOOSE c \in Unused(d) : TRUE
<1>1. c \in 1..MaxCopies
  BY DEF Unused
<1> HIDE DEF c
<1>2. Batch(d) = [doc : {d}, n : Passages, copy : {c}]
  BY DEF Batch, c
<1> QED BY <1>1, <1>2 DEF Point

\* The indexes begin well typed.
LEMMA IndexBegins == IndexInit => IndexTypes
<1> SUFFICES ASSUME IndexInit PROVE IndexTypes
  OBVIOUS
<1>1. PICK D \in SUBSET Docs :
        points = [doc : D, n : Passages, copy : {1}] /\ keys = {"tokens", "chunks"} \X D
  BY DEF IndexInit
<1>2. points \subseteq Point
  BY <1>1, IndexNumbers DEF Point
<1>3. keys \subseteq Keys
  BY <1>1 DEF Keys
<1>4. NoTask \in Task
  BY DEF NoTask, Task
<1> QED BY <1>2, <1>3, <1>4, IndexNumbers
        DEF IndexInit, IndexTypes, IndexTypeOK, RoomForCopies

\* Storing, keeping or removing points of one document leaves room for those
\* of the others.
LEMMA RoomIsKept ==
    ASSUME RoomForCopies, NEW d \in Docs,
           \A p \in points' : p.doc # d => p \in points,
           \A e \in Docs : writer'[e] = "upsert" => writer[e] = "upsert" /\ e # d
    PROVE  RoomForCopies'
<1>1. ASSUME NEW e \in Docs, writer'[e] = "upsert" PROVE Unused(e) \subseteq Unused(e)'
  BY <1>1 DEF Unused, PointsOf
<1> QED BY <1>1 DEF RoomForCopies

\* Every step of the indexes keeps their types.
LEMMA IndexStepKeepsTypes == ASSUME IndexTypes, IndexStep PROVE IndexTypes'
<1>0. IndexTypeOK /\ RoomForCopies /\ MaxEvents \in Nat
        /\ points \subseteq Point /\ keys \subseteq Keys /\ hidden \subseteq Docs
        /\ writer \in [Docs -> {"idle", "upsert", "tokens", "chunks"}]
        /\ task \in Task /\ events \in 0..MaxEvents
  BY IndexNumbers DEF IndexTypes, IndexTypeOK
<1>1. ASSUME NEW d \in Docs, StartIngestion(d) PROVE IndexTypes'
  <2>0. \A b \in BOOLEAN : [task EXCEPT !.alone = b] \in Task
    BY <1>0 DEF Task
  <2> DEFINE b == task.alone /\ (task.pc \in {"none", "done"} \/ task.doc # d)
  <2>a. b \in BOOLEAN
    OBVIOUS
  <2>t. task' = [task EXCEPT !.alone = b]
    BY <1>1 DEF StartIngestion
  <2> HIDE DEF b
  <2>1. UNCHANGED <<points, keys, hidden>> /\ events' \in 0..MaxEvents /\ task' \in Task
    BY <1>0, <1>1, <2>0, <2>a, <2>t DEF StartIngestion, Event
  <2>2. writer' = [writer EXCEPT ![d] = "upsert"] /\ Unused(d) # {}
    BY <1>1 DEF StartIngestion, WriterAt
  <2>3. RoomForCopies'
    BY <1>0, <2>1, <2>2 DEF RoomForCopies, Unused, PointsOf
  <2> QED BY <1>0, <2>1, <2>2, <2>3 DEF IndexTypes, IndexTypeOK
<1>2. ASSUME NEW d \in Docs, UpsertPoints(d) PROVE IndexTypes'
  <2>1. /\ points' = points \cup Batch(d) /\ writer' = [writer EXCEPT ![d] = "tokens"]
        /\ UNCHANGED <<keys, hidden, task, events>> /\ writer[d] = "upsert"
    BY <1>2 DEF UpsertPoints, WriterAt
  <2>2. Batch(d) \subseteq Point /\ \A p \in Batch(d) : p.doc = d
    BY <1>0, <2>1, BatchIsOfDoc DEF RoomForCopies
  <2>3. RoomForCopies'
    BY <1>0, <2>1, <2>2, RoomIsKept
  <2> QED BY <1>0, <2>1, <2>2, <2>3 DEF IndexTypes, IndexTypeOK
<1>3. ASSUME NEW d \in Docs, SetTokens(d) \/ SetChunks(d) PROVE IndexTypes'
  <2>1. /\ UNCHANGED <<points, hidden, task, events>> /\ keys' \subseteq Keys
        /\ \/ writer' = [writer EXCEPT ![d] = "chunks"]
           \/ writer' = [writer EXCEPT ![d] = "idle"]
    BY <1>0, <1>3 DEF SetTokens, SetChunks, WriterAt, Keys
  <2>2. RoomForCopies'
    BY <1>0, <2>1, RoomIsKept
  <2> QED BY <1>0, <2>1, <2>2 DEF IndexTypes, IndexTypeOK
<1>4. ASSUME NEW d \in Docs, WriterFails(d) PROVE IndexTypes'
  <2>1. /\ UNCHANGED <<hidden, task, events>> /\ writer' = [writer EXCEPT ![d] = "idle"]
        /\ \/ writer[d] = "upsert" /\ points' \in {points, points \cup Batch(d)}
           \/ UNCHANGED points
    BY <1>4 DEF WriterFails, WriterAt
  <2>2. keys' \subseteq Keys
    BY <1>0, <1>4 DEF WriterFails, Keys
  <2>3. writer[d] = "upsert" => Batch(d) \subseteq Point /\ \A p \in Batch(d) : p.doc = d
    BY <1>0, BatchIsOfDoc DEF RoomForCopies
  <2>4. RoomForCopies'
    BY <1>0, <2>1, <2>3, RoomIsKept
  <2> QED BY <1>0, <2>1, <2>2, <2>3, <2>4 DEF IndexTypes, IndexTypeOK
<1>5. ASSUME NEW d \in Docs, HideDocument(d) \/ SendDeletion(d) PROVE IndexTypes'
  <2>1. UNCHANGED <<points, keys, writer>> /\ hidden' \subseteq Docs /\ events' \in 0..MaxEvents
    BY <1>0, <1>5 DEF HideDocument, SendDeletion, Event
  <2>2. task' \in Task
    BY <1>0, <1>5 DEF HideDocument, SendDeletion, NoTask, Task
  <2>3. RoomForCopies'
    BY <1>0, <2>1 DEF RoomForCopies, Unused, PointsOf
  <2> QED BY <1>0, <2>1, <2>2, <2>3 DEF IndexTypes, IndexTypeOK
<1>6. CASE DeletionStep
  <2>1. points' \subseteq points /\ keys' \subseteq keys /\ UNCHANGED <<hidden, writer, events>>
    BY <1>6 DEF DeletionStep, Scroll, DeletePoints, DeleteKey
  <2>2. PointsOf(task.doc) \subseteq Point
    BY <1>0 DEF PointsOf
  <2>3. ASSUME Scroll PROVE task' \in Task
    <3>1. CASE task' = [task EXCEPT !.pc = "tokens"]
      BY <1>0, <3>1 DEF Task
    <3>2. ASSUME NEW found \in SUBSET PointsOf(task.doc),
                 task' = [task EXCEPT
                   !.pc = IF found = {} THEN "tokens" ELSE "delete",
                   !.deleted = found = {},
                   !.found = found,
                   !.before = PointsOf(task.doc)]
          PROVE  task' \in Task
      <4> DEFINE none == found = {}
      <4>1. none \in BOOLEAN
        OBVIOUS
      <4>2. task' = [task EXCEPT !.pc = IF none THEN "tokens" ELSE "delete",
                       !.deleted = none, !.found = found, !.before = PointsOf(task.doc)]
        BY <3>2
      <4> HIDE DEF none
      <4> QED BY <1>0, <2>2, <4>1, <4>2 DEF Task
    <3> QED BY <2>3, <3>1, <3>2 DEF Scroll
  <2>4. ASSUME DeletePoints PROVE task' \in Task
    BY <1>0, <2>4 DEF DeletePoints, Task
  <2>5. ASSUME DeleteKey("tokens", "chunks") \/ DeleteKey("chunks", "done")
      PROVE  task' \in Task
    BY <1>0, <2>5 DEF DeleteKey, Task
  <2>6. task' \in Task
    BY <1>6, <2>3, <2>4, <2>5 DEF DeletionStep
  <2>7. RoomForCopies'
    BY <1>0, <2>1 DEF RoomForCopies, Unused, PointsOf
  <2> QED BY <1>0, <2>1, <2>6, <2>7 DEF IndexTypes, IndexTypeOK
<1>7. CASE Evict
  <2>1. /\ keys' \subseteq keys /\ events' \in 0..MaxEvents
        /\ UNCHANGED <<points, hidden, writer, task>>
    BY <1>0, <1>7 DEF Evict, Event
  <2>2. RoomForCopies'
    BY <1>0, <2>1 DEF RoomForCopies, Unused, PointsOf
  <2> QED BY <1>0, <2>1, <2>2 DEF IndexTypes, IndexTypeOK
<1> QED BY <1>1, <1>2, <1>3, <1>4, <1>5, <1>6, <1>7 DEF IndexStep

\* The indexes, the runs that write them and the task have their types, and a
\* run that stores its points finds ids for them.
LEMMA IndexTypeCorrect == IndexSpec => []IndexTypes
<1>1. IndexTypes /\ UNCHANGED indexVars => IndexTypes'
  BY DEF IndexTypes, IndexTypeOK, RoomForCopies, Unused, PointsOf, indexVars
<1>2. IndexTypes /\ [IndexStep]_indexVars => IndexTypes'
  BY <1>1, IndexStepKeepsTypes
<1> QED BY <1>2, IndexBegins, PTL DEF IndexSpec

--------------------------------------------------------------------------
\* A deletion that nobody disturbs

\* The document is off the list, so that no ingestion of it starts any more.
Undisturbed ==
    task.pc # "none" =>
        task.doc \in hidden /\ (task.alone => writer[task.doc] = "idle")

NotYetDeleted == task.pc \in {"scroll", "delete"} => ~task.deleted

\* Between the two calls the points are those the scroll saw.
Scrolled ==
    task.pc = "delete" /\ task.alone =>
        /\ PointsOf(task.doc) = task.before
        /\ task.found \subseteq task.before
        /\ Cardinality(task.found) = ScrollLimit \/ task.found = task.before

PointsGone ==
    task.pc \in {"tokens", "chunks", "done"} /\ task.alone /\ task.deleted =>
        /\ PointsOf(task.doc) \subseteq task.before
        /\ \/ PointsOf(task.doc) = {}
           \/ Cardinality(PointsOf(task.doc)) + ScrollLimit <= Cardinality(task.before)

KeysGone ==
    /\ task.pc = "chunks" /\ task.alone => <<"tokens", task.doc>> \notin keys
    /\ task.pc = "done" /\ task.alone =>
         task.raised \/ {<<"tokens", task.doc>>, <<"chunks", task.doc>>} \cap keys = {}

DeletionInv == Undisturbed /\ NotYetDeleted /\ Scrolled /\ PointsGone /\ KeysGone

\* A step of somebody else keeps all of it.
LEMMA OthersKeepDeletion ==
    ASSUME IndexTypes, DeletionInv, hidden \subseteq hidden',
           NEW b \in BOOLEAN, task' = [task EXCEPT !.alone = b], b => task.alone,
           task.pc # "none" /\ b =>
             /\ writer'[task.doc] = "idle"
             /\ \A p \in points \cup points' : p.doc = task.doc => (p \in points' <=> p \in points)
             /\ \A k \in {"tokens", "chunks"} :
                  <<k, task.doc>> \in keys' => <<k, task.doc>> \in keys
    PROVE  DeletionInv'
<1>1. task \in Task
  BY DEF IndexTypes, IndexTypeOK
<1>2. /\ task'.pc = task.pc /\ task'.doc = task.doc /\ task'.found = task.found
      /\ task'.before = task.before /\ task'.deleted = task.deleted
      /\ task'.raised = task.raised /\ task'.alone = b
  BY <1>1 DEF Task
<1>3. task.pc # "none" /\ b => PointsOf(task.doc)' = PointsOf(task.doc)
  <2> SUFFICES ASSUME task.pc # "none", b PROVE PointsOf(task.doc)' = PointsOf(task.doc)
    OBVIOUS
  <2>1. \A p : (p \in points' /\ p.doc = task.doc) <=> (p \in points /\ p.doc = task.doc)
    OBVIOUS
  <2>2. PointsOf(task.doc)' = {p \in points' : p.doc = task.doc}
    BY <1>2 DEF PointsOf
  <2>3. PointsOf(task.doc) = {p \in points : p.doc = task.doc}
    BY DEF PointsOf
  <2> QED BY <2>1, <2>2, <2>3
<1>4. Undisturbed' /\ NotYetDeleted'
  BY <1>2 DEF DeletionInv, Undisturbed, NotYetDeleted
<1>5. Scrolled'
  BY <1>2, <1>3 DEF DeletionInv, Scrolled
<1>6. PointsGone'
  BY <1>2, <1>3 DEF DeletionInv, PointsGone
<1>7. KeysGone'
  BY <1>2 DEF DeletionInv, KeysGone
<1> QED BY <1>4, <1>5, <1>6, <1>7 DEF DeletionInv

\* Taking one page of points away.
LEMMA PageIsGone ==
    ASSUME IndexTypes, NEW P \in SUBSET points, NEW found \in SUBSET P,
           Cardinality(found) = ScrollLimit \/ found = P
    PROVE  \/ P \ found = {}
           \/ Cardinality(P \ found) + ScrollLimit <= Cardinality(P)
<1>1. points \subseteq Point
  BY DEF IndexTypes, IndexTypeOK
<1>2. IsFiniteSet(P)
  BY <1>1, PointsAreFinite, FS_Subset
<1>3. P \cap found = found
  OBVIOUS
<1>4. /\ IsFiniteSet(P \ found)
      /\ Cardinality(P \ found) = Cardinality(P) - Cardinality(P \cap found)
  BY <1>2, FS_Difference
<1>5. Cardinality(P) \in Nat /\ Cardinality(P \ found) \in Nat /\ ScrollLimit \in Nat
  BY <1>2, <1>4, FS_CardinalityType, IndexNumbers
<1> QED BY <1>3, <1>4, <1>5

\* A call of a deletion task establishes what the next one rests on.
LEMMA TaskKeepsDeletion == ASSUME IndexTypes, DeletionInv, DeletionStep PROVE DeletionInv'
<1>0. task \in Task /\ points \subseteq Point
  BY DEF IndexTypes, IndexTypeOK
<1>i. Undisturbed /\ NotYetDeleted /\ Scrolled /\ PointsGone /\ KeysGone
  BY DEF DeletionInv
<1>1. UNCHANGED <<hidden, writer>> /\ task.pc # "none"
  BY DEF DeletionStep, Scroll, DeletePoints, DeleteKey
<1>2. CASE Scroll
  <2>1. task.pc = "scroll" /\ ~task.deleted /\ UNCHANGED <<points, keys>>
    BY <1>2, <1>i DEF Scroll, NotYetDeleted
  <2>2. CASE task' = [task EXCEPT !.pc = "tokens"]
    <3>1. /\ task'.pc = "tokens" /\ task'.doc = task.doc /\ ~task'.deleted
          /\ task'.alone = task.alone
      BY <1>0, <2>1, <2>2 DEF Task
    <3> QED BY <1>1, <1>i, <3>1
            DEF DeletionInv, Undisturbed, NotYetDeleted, Scrolled, PointsGone, KeysGone
  <2>3. ASSUME NEW found \in SUBSET PointsOf(task.doc),
               \/ Cardinality(found) = ScrollLimit
               \/ Cardinality(found) < ScrollLimit /\ found = PointsOf(task.doc),
               task' = [task EXCEPT
                 !.pc = IF found = {} THEN "tokens" ELSE "delete",
                 !.deleted = found = {},
                 !.found = found,
                 !.before = PointsOf(task.doc)]
        PROVE  DeletionInv'
    <3> DEFINE none == found = {}
               P == PointsOf(task.doc)
    <3>1. none \in BOOLEAN /\ (none <=> found = {})
      OBVIOUS
    <3>2. task' = [task EXCEPT !.pc = IF none THEN "tokens" ELSE "delete",
                     !.deleted = none, !.found = found, !.before = P]
      BY <2>3
    <3> HIDE DEF none
    <3>3. /\ task'.pc = IF none THEN "tokens" ELSE "delete"
          /\ task'.doc = task.doc /\ task'.deleted = none /\ task'.found = found
          /\ task'.before = P /\ task'.alone = task.alone
      BY <1>0, <3>2 DEF Task
    <3>4. PointsOf(task.doc)' = P
      BY <2>1, <3>3 DEF PointsOf
    <3>5. P \subseteq points
      BY DEF PointsOf
    <3> HIDE DEF P
    <3>6. P \ found = {} \/ Cardinality(P \ found) + ScrollLimit <= Cardinality(P)
      BY <2>3, <3>5, PageIsGone DEF P
    <3>7. none => P \ found = P
      BY <3>1
    <3>8. Undisturbed' /\ NotYetDeleted'
      BY <1>1, <1>i, <3>1, <3>3 DEF Undisturbed, NotYetDeleted
    <3>9. Scrolled'
      BY <2>3, <3>3, <3>4 DEF Scrolled, P
    <3>10. PointsGone'
      <4> SUFFICES ASSUME none
                   PROVE  /\ PointsOf(task.doc)' \subseteq task'.before
                          /\ \/ PointsOf(task.doc)' = {}
                             \/ Cardinality(PointsOf(task.doc)') + ScrollLimit
                                  <= Cardinality(task'.before)
        BY <3>3 DEF PointsGone
      <4>1. P = {} \/ Cardinality(P) + ScrollLimit <= Cardinality(P)
        BY <3>6, <3>7
      <4> QED BY <3>3, <3>4, <4>1
    <3>11. KeysGone'
      BY <3>3 DEF KeysGone
    <3> QED BY <3>8, <3>9, <3>10, <3>11 DEF DeletionInv
  <2> QED BY <1>2, <2>2, <2>3 DEF Scroll
<1>3. CASE DeletePoints
  <2>1. /\ task.pc = "delete" /\ ~task.deleted /\ UNCHANGED keys
        /\ points' \in {points, points \ task.found}
        /\ \/ /\ points' = points \ task.found
              /\ task' = [task EXCEPT !.pc = "tokens", !.deleted = TRUE]
           \/ task' = [task EXCEPT !.pc = "tokens"]
    BY <1>3, <1>i DEF DeletePoints, NotYetDeleted
  <2>2. /\ task'.pc = "tokens" /\ task'.doc = task.doc /\ task'.found = task.found
        /\ task'.before = task.before /\ task'.alone = task.alone
        /\ task'.deleted => points' = points \ task.found
    BY <1>0, <2>1 DEF Task
  <2>3. Undisturbed' /\ NotYetDeleted' /\ Scrolled' /\ KeysGone'
    BY <1>1, <1>i, <2>2 DEF Undisturbed, NotYetDeleted, Scrolled, KeysGone
  <2>4. PointsGone'
    <3> SUFFICES ASSUME task.alone, points' = points \ task.found
                 PROVE  /\ PointsOf(task.doc)' \subseteq task'.before
                        /\ \/ PointsOf(task.doc)' = {}
                           \/ Cardinality(PointsOf(task.doc)') + ScrollLimit
                                <= Cardinality(task'.before)
      BY <2>2 DEF PointsGone
    <3>1. /\ PointsOf(task.doc) = task.before /\ task.found \subseteq task.before
          /\ Cardinality(task.found) = ScrollLimit \/ task.found = task.before
      BY <1>i, <2>1 DEF Scrolled
    <3>2. task.before \subseteq points
      BY <3>1 DEF PointsOf
    <3>3. PointsOf(task.doc)' = task.before \ task.found
      BY <2>2, <3>1 DEF PointsOf
    <3>4. \/ task.before \ task.found = {}
          \/ Cardinality(task.before \ task.found) + ScrollLimit <= Cardinality(task.before)
      BY <3>1, <3>2, PageIsGone
    <3> QED BY <2>2, <3>3, <3>4
  <2> QED BY <2>3, <2>4 DEF DeletionInv
<1>4. ASSUME NEW key \in {"tokens", "chunks"}, NEW next \in {"chunks", "done"},
             key = "tokens" <=> next = "chunks", DeleteKey(key, next)
      PROVE  DeletionInv'
  <2>1. /\ task.pc = key /\ UNCHANGED points /\ keys' \subseteq keys
        /\ \/ keys' = keys \ {<<key, task.doc>>} /\ task' = [task EXCEPT !.pc = next]
           \/ task' = [task EXCEPT !.pc = "done", !.raised = TRUE]
    BY <1>4 DEF DeleteKey
  <2>2. /\ task'.doc = task.doc /\ task'.deleted = task.deleted
        /\ task'.before = task.before /\ task'.alone = task.alone
        /\ \/ task'.pc = next /\ keys' = keys \ {<<key, task.doc>>}
           \/ task'.pc = "done" /\ task'.raised
    BY <1>0, <2>1 DEF Task
  <2>3. PointsOf(task.doc)' = PointsOf(task.doc)
    BY <2>1, <2>2 DEF PointsOf
  <2>4. Undisturbed' /\ NotYetDeleted' /\ Scrolled'
    BY <1>1, <1>4, <1>i, <2>2 DEF Undisturbed, NotYetDeleted, Scrolled
  <2>5. PointsGone'
    BY <1>4, <1>i, <2>1, <2>2, <2>3 DEF PointsGone
  <2>6. KeysGone'
    BY <1>4, <1>i, <2>1, <2>2 DEF KeysGone
  <2> QED BY <2>4, <2>5, <2>6 DEF DeletionInv
<1> QED BY <1>2, <1>3, <1>4 DEF DeletionStep

\* The writers, the gateway, Redis and the sending of a task.
LEMMA IndexStepKeepsDeletion == ASSUME IndexTypes, DeletionInv, IndexStep PROVE DeletionInv'
<1>0. /\ task \in Task /\ hidden \subseteq Docs /\ task.alone \in BOOLEAN
      /\ writer \in [Docs -> {"idle", "upsert", "tokens", "chunks"}]
      /\ RoomForCopies
  BY DEF IndexTypes, IndexTypeOK, Task
<1>i. Undisturbed
  BY DEF DeletionInv
<1>k. /\ task = [task EXCEPT !.alone = task.alone]
      /\ task.pc # "none" /\ task.alone =>
           task.doc \in Docs /\ task.doc \in hidden /\ writer[task.doc] = "idle"
  BY <1>0, <1>i DEF Task, Undisturbed
<1>1. ASSUME NEW d \in Docs, StartIngestion(d) PROVE DeletionInv'
  <2> DEFINE b == task.alone /\ (task.pc \in {"none", "done"} \/ task.doc # d)
  <2>1. /\ b \in BOOLEAN /\ (b => task.alone) /\ task' = [task EXCEPT !.alone = b]
        /\ writer' = [writer EXCEPT ![d] = "upsert"] /\ d \notin hidden
        /\ UNCHANGED <<points, keys, hidden>>
    BY <1>1 DEF StartIngestion, WriterAt
  <2> HIDE DEF b
  <2>2. task.pc # "none" /\ b => writer'[task.doc] = "idle"
    BY <1>0, <1>k, <2>1
  <2> QED BY <2>1, <2>2, OthersKeepDeletion
<1>2. ASSUME NEW d \in Docs,
             UpsertPoints(d) \/ SetTokens(d) \/ SetChunks(d) \/ WriterFails(d)
      PROVE  DeletionInv'
  <2>1. /\ UNCHANGED <<hidden, task>> /\ writer[d] # "idle"
        /\ \E pc \in {"idle", "tokens", "chunks"} : writer' = [writer EXCEPT ![d] = pc]
        /\ \/ UNCHANGED points
           \/ writer[d] = "upsert" /\ points' = points \cup Batch(d)
        /\ \/ UNCHANGED keys
           \/ \E k \in {"tokens", "chunks"} : keys' = keys \cup {<<k, d>>}
    BY <1>2 DEF UpsertPoints, SetTokens, SetChunks, WriterFails, WriterAt
  <2>2. writer[d] = "upsert" => \A p \in Batch(d) : p.doc = d
    BY <1>0, BatchIsOfDoc DEF RoomForCopies
  <2>3. ASSUME task.pc # "none", task.alone
        PROVE  /\ writer'[task.doc] = "idle"
               /\ \A p \in points \cup points' :
                    p.doc = task.doc => (p \in points' <=> p \in points)
               /\ \A k \in {"tokens", "chunks"} :
                    <<k, task.doc>> \in keys' => <<k, task.doc>> \in keys
    <3>1. task.doc # d /\ writer'[task.doc] = "idle"
      BY <1>0, <1>k, <2>1, <2>3
    <3> QED BY <2>1, <2>2, <3>1
  <2> QED BY <1>0, <1>k, <2>1, <2>3, OthersKeepDeletion
<1>3. ASSUME \/ \E d \in Docs : HideDocument(d)
             \/ Evict
      PROVE  DeletionInv'
  <2>1. UNCHANGED <<points, writer, task>> /\ keys' \subseteq keys /\ hidden \subseteq hidden'
    BY <1>3 DEF HideDocument, Evict
  <2> QED BY <1>0, <1>k, <2>1, OthersKeepDeletion
<1>4. ASSUME NEW d \in Docs, SendDeletion(d) PROVE DeletionInv'
  <2> DEFINE b == writer[d] = "idle"
  <2>1. b \in BOOLEAN /\ (b => writer[d] = "idle")
    OBVIOUS
  <2>2. /\ task' = [NoTask EXCEPT !.pc = "scroll", !.doc = d, !.alone = b]
        /\ d \in hidden /\ UNCHANGED <<hidden, writer>>
    BY <1>4 DEF SendDeletion
  <2> HIDE DEF b
  <2>3. task'.pc = "scroll" /\ task'.doc = d /\ task'.deleted = FALSE /\ task'.alone = b
    BY <2>2 DEF NoTask
  <2> QED BY <2>1, <2>2, <2>3
          DEF DeletionInv, Undisturbed, NotYetDeleted, Scrolled, PointsGone, KeysGone
<1> QED BY <1>1, <1>2, <1>3, <1>4, TaskKeepsDeletion DEF IndexStep

\* A deletion that returns deleted = TRUE, was alone and found one page of points has
\* removed what delete_document_vectors says it removes, over any number of documents
\* and points, whatever the workers, Redis and the gateway do between its calls.
THEOREM DeletionCompletes == IndexSpec => []DeletionIsComplete
<1>1. IndexInit => DeletionInv
  BY DEF IndexInit, NoTask, DeletionInv, Undisturbed, NotYetDeleted, Scrolled, PointsGone, KeysGone
<1>2. IndexTypes /\ DeletionInv /\ [IndexStep]_indexVars => DeletionInv'
  <2>1. DeletionInv /\ UNCHANGED indexVars => DeletionInv'
    BY DEF indexVars, DeletionInv, Undisturbed, NotYetDeleted, Scrolled, PointsGone, KeysGone,
           PointsOf
  <2> QED BY <2>1, IndexStepKeepsDeletion
<1>3. IndexTypes /\ DeletionInv => DeletionIsComplete
  <2> SUFFICES ASSUME IndexTypes, DeletionInv, task.pc = "done", task.deleted, task.alone,
                      Cardinality(task.before) <= ScrollLimit
               PROVE  /\ PointsOf(task.doc) = {}
                      /\ \/ task.raised
                         \/ {<<"tokens", task.doc>>, <<"chunks", task.doc>>} \cap keys = {}
    BY DEF DeletionIsComplete
  <2>1. task.before \subseteq Point /\ points \subseteq Point
    BY DEF IndexTypes, IndexTypeOK, Task
  <2>2. IsFiniteSet(task.before) /\ IsFiniteSet(PointsOf(task.doc))
    BY <2>1, PointsAreFinite, FS_Subset DEF PointsOf
  <2>3. /\ Cardinality(task.before) \in Nat /\ Cardinality(PointsOf(task.doc)) \in Nat
        /\ ScrollLimit \in Nat
    BY <2>2, FS_CardinalityType, IndexNumbers
  <2>4. \/ PointsOf(task.doc) = {}
        \/ Cardinality(PointsOf(task.doc)) + ScrollLimit <= Cardinality(task.before)
    BY DEF DeletionInv, PointsGone
  <2>5. PointsOf(task.doc) = {} \/ Cardinality(PointsOf(task.doc)) = 0
    BY <2>3, <2>4
  <2>6. PointsOf(task.doc) = {}
    BY <2>2, <2>5, FS_EmptySet
  <2> QED BY <2>6 DEF DeletionInv, KeysGone
<1> QED BY <1>1, <1>2, <1>3, IndexTypeCorrect, PTL DEF IndexSpec
--------------------------------------------------------------------------
\* Deletions beside requests

\* A request never writes an index: what QueryService does to the indexes is
\* what SearchIndex does.
LEMMA IndexesAreShared == Spec => IndexSpec
<1>1. Init => IndexInit
  BY DEF Init
<1>2. [Next]_vars => [IndexStep]_indexVars
  <2>1. ASSUME NEW q \in Runs, QueryStep(q) PROVE UNCHANGED indexVars
    BY <2>1 DEF QueryStep, Ask, Embed, VectorSearch, Scan, GetTokens, GetChunks, EndOfScan,
                Rank, Rerank, Generate, Log, Store, Leave
  <2> QED BY <2>1 DEF Next, OthersStep, Tick, vars
<1> QED BY <1>1, <1>2, PTL DEF Spec, IndexSpec

\* Beside any number of requests too, a deletion that returns deleted = TRUE, was
\* alone and found one page of points has removed them all and, unless Redis raised,
\* the BM25 keys of the document.
THEOREM DeletionCompletesBesideQueries == Spec => []DeletionIsComplete
BY IndexesAreShared, DeletionCompletes, PTL

--------------------------------------------------------------------------
\* The age of answers

\* The fields of a request that the age of its answer depends on.
RunKept(r) ==
    /\ {"pc", "age"} \subseteq DOMAIN r
    /\ r.age \in Nat
    /\ r.pc \in Waiting \cup Searching => r.age <= MaxRun
    /\ r.pc = "answered" => r.age < CacheTTL + MaxRun

\* An entry is as old as the run that made it was, and as the time it has spent
\* of its life makes it.
EntryKept(e) ==
    /\ DOMAIN e = {"left", "age"} /\ e.left \in Nat /\ e.age \in Nat
    /\ e.left > 0 => e.age + e.left <= CacheTTL + MaxRun

AgeInv ==
    /\ DOMAIN run = Runs
    /\ \A q \in Runs : RunKept(run[q])
    /\ DOMAIN cache = Scopes
    /\ \A s \in Scopes : EntryKept(cache[s])

\* The numbers of an instance.
LEMMA QueryNumbers == MaxRun \in Nat /\ CacheTTL \in Nat /\ CacheTTL >= 1
<1>1. MaxRun \in Nat /\ CacheTTL \in Nat \ {0}
  BY QueryAssumption DEF QueryAssumption
<1> QED BY <1>1

\* A request that has read nothing, or has ended, has missed nothing.
LEMMA IdleIsKept ==
    /\ RunKept(Idle)
    /\ \A S : RunKept(Asked(S))
    /\ RunKept([Idle EXCEPT !.pc = "failed"])
    /\ \A a \in Nat : a < CacheTTL + MaxRun =>
         RunKept([Idle EXCEPT !.pc = "answered", !.age = a])
<1>1. /\ "pc" \in DOMAIN Idle /\ "age" \in DOMAIN Idle /\ "scope" \in DOMAIN Idle
      /\ "offList" \in DOMAIN Idle /\ Idle.pc = "idle" /\ Idle.age = 0
  BY DEF Idle
<1>2. MaxRun \in Nat /\ CacheTTL \in Nat /\ CacheTTL >= 1
  BY QueryNumbers
<1> QED BY <1>1, <1>2 DEF RunKept, Asked, Waiting, Searching, Reading

\* A run that only becomes what r is leaves the others as they are.
LEMMA BecomeKeeps ==
    ASSUME AgeInv, NEW q \in Runs, NEW r, Become(q, r), RunKept(r),
           DOMAIN cache' = Scopes, \A s \in Scopes : EntryKept(cache'[s])
    PROVE  AgeInv'
<1>1. run' = [run EXCEPT ![q] = r] /\ DOMAIN run = Runs /\ \A p \in Runs : RunKept(run[p])
  BY DEF Become, AgeInv
<1>2. DOMAIN run' = Runs /\ \A p \in Runs : run'[p] = IF p = q THEN r ELSE run[p]
  BY <1>1
<1>3. \A p \in Runs : RunKept(run'[p])
  BY <1>1, <1>2
<1> QED BY <1>2, <1>3 DEF AgeInv, RunKept, EntryKept

\* What a run between its first and its last step becomes.
Onward(q, r) ==
    /\ {"pc", "age"} \subseteq DOMAIN r
    /\ r.age = run[q].age
    /\ r.pc \in Waiting \cup Searching \cup {"failed"}

\* On its way to an answer a request does not grow older and leaves the cache alone.
LEMMA StepsGoOnward ==
    ASSUME AgeInv, NEW q \in Runs,
           \/ Embed(q) \/ VectorSearch(q) \/ Scan(q) \/ GetTokens(q) \/ GetChunks(q)
           \/ EndOfScan(q) \/ Rank(q) \/ Rerank(q) \/ Generate(q) \/ Log(q)
    PROVE  /\ run[q].pc \in Waiting \cup Searching
           /\ UNCHANGED cache
           /\ \E r : Become(q, r) /\ Onward(q, r)
<1>0. "pc" \in DOMAIN run[q] /\ "age" \in DOMAIN run[q]
  BY DEF AgeInv, RunKept
<1>1. ASSUME Embed(q) PROVE \E r : Become(q, r) /\ Onward(q, r)
  <2>1. Become(q, [run[q] EXCEPT !.pc = "search"])
    BY <1>1 DEF Embed
  <2>2. Onward(q, [run[q] EXCEPT !.pc = "search"])
    BY <1>0 DEF Onward, Waiting, Searching, Reading
  <2> QED BY <2>1, <2>2
<1>2. ASSUME EndOfScan(q) PROVE \E r : Become(q, r) /\ Onward(q, r)
  <2>1. Become(q, [run[q] EXCEPT !.pc = "rank"])
    BY <1>2 DEF EndOfScan
  <2>2. Onward(q, [run[q] EXCEPT !.pc = "rank"])
    BY <1>0 DEF Onward, Waiting, Searching, Reading
  <2> QED BY <2>1, <2>2
<1>3. ASSUME Log(q) PROVE \E r : Become(q, r) /\ Onward(q, r)
  <2>1. Become(q, [run[q] EXCEPT !.pc = "store", !.prompt = <<>>, !.sources = <<>>])
    BY <1>3 DEF Log
  <2>2. Onward(q, [run[q] EXCEPT !.pc = "store", !.prompt = <<>>, !.sources = <<>>])
    BY <1>0 DEF Onward, Waiting, Searching, Reading
  <2> QED BY <2>1, <2>2
<1>4. ASSUME Generate(q) PROVE \E r : Become(q, r) /\ Onward(q, r)
  <2>1. \/ \E s : Become(q, [run[q] EXCEPT !.pc = "log", !.sources = s, !.offList = {}])
        \/ Become(q, [run[q] EXCEPT !.pc = "failed"])
    BY <1>4 DEF Generate
  <2>2. \A s : Onward(q, [run[q] EXCEPT !.pc = "log", !.sources = s, !.offList = {}])
    BY <1>0 DEF Onward, Waiting, Searching, Reading
  <2>3. Onward(q, [run[q] EXCEPT !.pc = "failed"])
    BY <1>0 DEF Onward, Waiting, Searching, Reading
  <2> QED BY <2>1, <2>2, <2>3
<1>5. ASSUME VectorSearch(q) PROVE \E r : Become(q, r) /\ Onward(q, r)
  <2>1. \E v : Become(q, [run[q] EXCEPT !.pc = "scan", !.vector = v])
    BY <1>5 DEF VectorSearch
  <2>2. \A v : Onward(q, [run[q] EXCEPT !.pc = "scan", !.vector = v])
    BY <1>0 DEF Onward, Waiting, Searching, Reading
  <2> QED BY <2>1, <2>2
<1>6. ASSUME Scan(q) PROVE \E r : Become(q, r) /\ Onward(q, r)
  <2>1. run[q].pc \in {"scan", "scanning"}
    BY <1>6 DEF Scan
  <2>2. PICK before : /\ {"pc", "age"} \subseteq DOMAIN before /\ before.age = run[q].age
                      /\ ScanCall(q, before)
    <3>1. \/ \E S : ScanCall(q, [run[q] EXCEPT !.relevant = S, !.always = keys])
          \/ ScanCall(q, run[q])
      BY <1>6 DEF Scan
    <3>2. \A S : LET r == [run[q] EXCEPT !.relevant = S, !.always = keys]
                 IN  {"pc", "age"} \subseteq DOMAIN r /\ r.age = run[q].age
      BY <1>0
    <3> QED BY <1>0, <3>1, <3>2
  <2>3. \/ \E o : Become(q, [before EXCEPT !.pc = "scanning", !.pending = o])
        \/ \E o : Become(q, [before EXCEPT !.pc = "tokens", !.pending = o])
        \/ Become(q, [before EXCEPT !.pc = "tokens", !.pending = <<>>, !.always = {}])
    BY <2>2 DEF ScanCall
  <2>4. \A pc \in {"scanning", "tokens"} : \A o :
          Onward(q, [before EXCEPT !.pc = pc, !.pending = o])
    BY <1>0, <2>1, <2>2 DEF Onward, Waiting, Searching, Reading
  <2>5. Onward(q, [before EXCEPT !.pc = "tokens", !.pending = <<>>, !.always = {}])
    BY <1>0, <2>1, <2>2 DEF Onward, Waiting, Searching, Reading
  <2> QED BY <2>3, <2>4, <2>5
<1>7. ASSUME SkipDoc(q) PROVE \E r : Become(q, r) /\ Onward(q, r)
  <2>1. \E o, a : Become(q, [run[q] EXCEPT
          !.pc = "tokens", !.pending = o, !.tokens = FALSE, !.always = a])
    BY <1>7 DEF SkipDoc
  <2>2. \A o, a : Onward(q, [run[q] EXCEPT
          !.pc = "tokens", !.pending = o, !.tokens = FALSE, !.always = a])
    BY <1>0 DEF Onward, Waiting, Searching, Reading
  <2> QED BY <2>1, <2>2
<1>8. ASSUME GetTokens(q) PROVE \E r : Become(q, r) /\ Onward(q, r)
  <2>1. \/ SkipDoc(q)
        \/ \E t : Become(q, [run[q] EXCEPT !.pc = "chunks", !.tokens = t])
    BY <1>8 DEF GetTokens
  <2>2. \A t : Onward(q, [run[q] EXCEPT !.pc = "chunks", !.tokens = t])
    BY <1>0 DEF Onward, Waiting, Searching, Reading
  <2> QED BY <1>7, <2>1, <2>2
<1>9. ASSUME GetChunks(q) PROVE \E r : Become(q, r) /\ Onward(q, r)
  <2>1. \/ SkipDoc(q)
        \/ \E o : Become(q, [run[q] EXCEPT !.pc = "tokens", !.pending = o, !.tokens = FALSE])
        \/ \E o, k : Become(q, [run[q] EXCEPT
             !.pc = "tokens", !.pending = o, !.tokens = FALSE, !.keyword = k])
    BY <1>9 DEF GetChunks
  <2>2. \A o : Onward(q, [run[q] EXCEPT !.pc = "tokens", !.pending = o, !.tokens = FALSE])
    BY <1>0 DEF Onward, Waiting, Searching, Reading
  <2>3. \A o, k : Onward(q, [run[q] EXCEPT
          !.pc = "tokens", !.pending = o, !.tokens = FALSE, !.keyword = k])
    BY <1>0 DEF Onward, Waiting, Searching, Reading
  <2> QED BY <1>7, <2>1, <2>2, <2>3
<1>10. ASSUME Rank(q) PROVE \E r : Become(q, r) /\ Onward(q, r)
  <2>1. \E p : Become(q, [run[q] EXCEPT
          !.pc = "rerank", !.relevant = {}, !.always = {}, !.prompt = p])
    BY <1>10 DEF Rank
  <2>2. \A p : Onward(q, [run[q] EXCEPT
          !.pc = "rerank", !.relevant = {}, !.always = {}, !.prompt = p])
    BY <1>0 DEF Onward, Waiting, Searching, Reading
  <2> QED BY <2>1, <2>2
<1>11. ASSUME Rerank(q) PROVE \E r : Become(q, r) /\ Onward(q, r)
  <2>1. \E p : Become(q, [run[q] EXCEPT
          !.pc = "generate", !.vector = <<>>, !.keyword = <<>>, !.prompt = p])
    BY <1>11 DEF Rerank
  <2>2. \A p : Onward(q, [run[q] EXCEPT
          !.pc = "generate", !.vector = <<>>, !.keyword = <<>>, !.prompt = p])
    BY <1>0 DEF Onward, Waiting, Searching, Reading
  <2> QED BY <2>1, <2>2
<1>12. run[q].pc \in Waiting \cup Searching /\ UNCHANGED cache
  BY DEF Embed, VectorSearch, Scan, GetTokens, GetChunks, EndOfScan, Rank, Rerank, Generate, Log,
         Waiting, Searching, Reading
<1> QED BY <1>1, <1>2, <1>3, <1>4, <1>5, <1>6, <1>8, <1>9, <1>10, <1>11, <1>12

\* A step of a request keeps the ages of answers in bounds.
LEMMA RequestKeepsAges == ASSUME AgeInv, NEW q \in Runs, QueryStep(q) PROVE AgeInv'
<1>0. /\ MaxRun \in Nat /\ CacheTTL \in Nat /\ CacheTTL >= 1
      /\ RunKept(run[q]) /\ DOMAIN cache = Scopes /\ \A s \in Scopes : EntryKept(cache[s])
  BY QueryNumbers DEF AgeInv
<1>1. ASSUME Ask(q) PROVE AgeInv'
  <2>1. PICK scope \in Scopes : LookUp(q, scope)
    BY <1>1 DEF Ask
  <2>2. UNCHANGED cache
    BY <2>1 DEF LookUp
  <2>3. \E r : Become(q, r) /\ RunKept(r)
    <3>1. CASE cache[scope].left > 0
                 /\ Become(q, [Idle EXCEPT !.pc = "answered", !.age = cache[scope].age])
      <4>1. cache[scope].age \in Nat /\ cache[scope].age < CacheTTL + MaxRun
        BY <1>0, <3>1 DEF EntryKept
      <4> QED BY <3>1, <4>1, IdleIsKept
    <3> QED BY <2>1, <3>1, IdleIsKept DEF LookUp
  <2> QED BY <1>0, <2>2, <2>3, BecomeKeeps
<1>2. ASSUME \/ Embed(q) \/ VectorSearch(q) \/ Scan(q) \/ GetTokens(q) \/ GetChunks(q)
             \/ EndOfScan(q) \/ Rank(q) \/ Rerank(q) \/ Generate(q) \/ Log(q)
      PROVE  AgeInv'
  <2>1. PICK r : Become(q, r) /\ Onward(q, r)
    BY <1>2, StepsGoOnward
  <2>2. run[q].pc \in Waiting \cup Searching /\ UNCHANGED cache
    BY <1>2, StepsGoOnward
  <2>3. RunKept(r)
    BY <1>0, <2>1, <2>2 DEF RunKept, Onward, Waiting, Searching, Reading
  <2> QED BY <1>0, <2>1, <2>2, <2>3, BecomeKeeps
<1>3. ASSUME Store(q) PROVE AgeInv'
  <2> DEFINE e == [left |-> CacheTTL, age |-> run[q].age]
  <2>1. /\ run[q].age \in Nat /\ run[q].age <= MaxRun
        /\ "pc" \in DOMAIN run[q] /\ "age" \in DOMAIN run[q]
    BY <1>0, <1>3 DEF Store, RunKept, Waiting
  <2>2. EntryKept(e)
    BY <1>0, <2>1 DEF EntryKept
  <2> HIDE DEF e
  <2>3. cache' \in {cache, [cache EXCEPT ![run[q].scope] = e]}
    BY <1>3 DEF Store, e
  <2>4. DOMAIN cache' = Scopes /\ \A s \in Scopes : EntryKept(cache'[s])
    BY <1>0, <2>2, <2>3
  <2>5. \E pc \in {"answered", "failed"} : Become(q, [run[q] EXCEPT !.pc = pc])
    BY <1>3 DEF Store
  <2>6. \A pc \in {"answered", "failed"} : RunKept([run[q] EXCEPT !.pc = pc])
    BY <1>0, <2>1 DEF RunKept, Waiting, Searching, Reading
  <2> QED BY <2>4, <2>5, <2>6, BecomeKeeps
<1>4. ASSUME Leave(q) PROVE AgeInv'
  BY <1>0, <1>4, IdleIsKept, BecomeKeeps DEF Leave
<1> QED BY <1>1, <1>2, <1>3, <1>4 DEF QueryStep

\* Writers change nothing of a run but which documents are still whole.
LEMMA OthersKeepAges == ASSUME AgeInv, OthersStep PROVE AgeInv'
<1>1. /\ UNCHANGED cache
      /\ run' = [q \in Runs |->
           IF run[q].pc \in Reading THEN [run[q] EXCEPT !.always = @ \cap keys']
           ELSE run[q]]
  BY DEF OthersStep
<1>2. DOMAIN run' = Runs
  BY <1>1
<1>3. ASSUME NEW q \in Runs PROVE RunKept(run'[q])
  <2>1. RunKept(run[q])
    BY DEF AgeInv
  <2>2. \A S : RunKept([run[q] EXCEPT !.always = S])
    BY <2>1 DEF RunKept
  <2>3. \/ run'[q] = run[q]
        \/ run'[q] = [run[q] EXCEPT !.always = run[q].always \cap keys']
    BY <1>1
  <2> QED BY <2>1, <2>2, <2>3
<1> QED BY <1>1, <1>2, <1>3 DEF AgeInv, RunKept, EntryKept

\* Time keeps the ages of answers in bounds.
LEMMA TickKeepsAges == ASSUME AgeInv, Tick PROVE AgeInv'
<1>0. MaxRun \in Nat /\ CacheTTL \in Nat
  BY QueryNumbers
<1>1. ASSUME NEW q \in Runs PROVE RunKept(run'[q])
  <2>1. RunKept(run[q]) /\ run[q].pc \notin {"answered", "failed"}
    BY DEF AgeInv, Tick
  <2>2. CASE Active(q)
    <3>1. run'[q] = [run[q] EXCEPT !.age = @ + 1] /\ run[q].age < MaxRun
      BY <2>2 DEF Tick
    <3> QED BY <1>0, <2>1, <3>1 DEF RunKept
  <2>3. CASE ~Active(q)
    <3>1. run'[q] = run[q]
      BY <2>3 DEF Tick
    <3> QED BY <2>1, <3>1
  <2> QED BY <2>2, <2>3
<1>2. ASSUME NEW s \in Scopes PROVE EntryKept(cache'[s])
  <2>1. EntryKept(cache[s]) /\ cache'[s] = Older(cache[s])
    BY DEF AgeInv, Tick
  <2>2. EntryKept(NoEntry)
    BY DEF EntryKept, NoEntry
  <2>3. ASSUME cache[s].left > 1
        PROVE  EntryKept([cache[s] EXCEPT !.left = @ - 1, !.age = @ + 1])
    BY <1>0, <2>1, <2>3 DEF EntryKept
  <2> QED BY <2>1, <2>2, <2>3 DEF Older, EntryKept
<1>3. DOMAIN run' = Runs /\ DOMAIN cache' = Scopes
  BY DEF Tick
<1> QED BY <1>1, <1>2, <1>3 DEF AgeInv, RunKept, EntryKept

\* AgeInv is an invariant.
LEMMA AgesAreKept == Spec => []AgeInv
<1>1. Init => AgeInv
  <2>1. EntryKept(NoEntry)
    BY DEF EntryKept, NoEntry
  <2> QED BY <2>1, IdleIsKept DEF Init, AgeInv
<1>2. AgeInv /\ [Next]_vars => AgeInv'
  <2>1. AgeInv /\ UNCHANGED vars => AgeInv'
    BY DEF AgeInv, RunKept, EntryKept, vars
  <2> QED BY <2>1, RequestKeepsAges, OthersKeepAges, TickKeepsAges DEF Next
<1> QED BY <1>1, <1>2, PTL DEF Spec

\* An answer, made now or taken from the cache, is younger than one time to live
\* and one run, for any number of requests, hits, faults and expiries.
THEOREM AnswersAreYoung == Spec => []AnswersAge
<1>1. AgeInv => AnswersAge
  BY DEF AgeInv, RunKept, AnswersAge
<1> QED BY <1>1, AgesAreKept, PTL

--------------------------------------------------------------------------
\* The keyword search beside the workers

FoundBy(list) == {list[i].doc : i \in DOMAIN list}
OnList(list) == {list[i] : i \in DOMAIN list}

\* The documents a run must find.
Wanted(r) == WholeIndex(r.always) \cap r.relevant

\* A wanted document is read or on the list to be read; a run that got its tokens goes
\* on to its chunks.
SearchKept(r, K) ==
    /\ {"pc", "pending", "tokens", "keyword", "relevant", "always"} \subseteq DOMAIN r
    /\ r.pc \in {"embed", "search", "scan"} => r.pending = <<>> /\ r.keyword = <<>>
    /\ r.pc \in Reading =>
         r.pending \in Seq(Docs) /\ r.keyword \in Seq(Result) /\ r.always \subseteq K
    /\ r.pc \in {"tokens", "chunks"} =>
         Wanted(r) \subseteq FoundBy(r.keyword) \cup OnList(r.pending)
    /\ r.pc = "chunks" =>
         /\ r.pending # <<>>
         /\ Head(r.pending) \in Wanted(r) => r.tokens
    /\ r.pc = "rank" => Wanted(r) \subseteq FoundBy(r.keyword)

SearchInv == DOMAIN run = Runs /\ \A q \in Runs : SearchKept(run[q], keys)

\* Fewer keys, fewer documents with both.
LEMMA FewerKeys ==
    \A S, T : S \subseteq T => WholeIndex(S) \subseteq WholeIndex(T)
BY DEF WholeIndex

\* What SCAN returns at a time is a list of documents.
LEMMA BatchesAreLists ==
    ASSUME NEW K, NEW n \in Int, NEW batch \in SeqOf(TokenDocs(K), n)
    PROVE  batch \in Seq(Docs)
<1>1. PICK m \in 0..n : batch \in [1..m -> TokenDocs(K)]
  BY DEF SeqOf
<1>2. m \in Nat
  OBVIOUS
<1>3. batch \in [1..m -> Docs]
  BY <1>1 DEF TokenDocs
<1> QED BY <1>2, <1>3

\* An order of at most k things is a sequence of them.
LEMMA OrdersAreLists ==
    ASSUME NEW S, IsFiniteSet(S), NEW k \in Nat, NEW f \in Orders(S, k)
    PROVE  f \in Seq(S) /\ (S # {} /\ k > 0 => Len(f) > 0)
<1> DEFINE n == IF Cardinality(S) < k THEN Cardinality(S) ELSE k
<1>1. Cardinality(S) \in Nat /\ n \in Nat
  BY FS_CardinalityType
<1>2. f \in [1..n -> S]
  BY DEF Orders
<1>3. S # {} => Cardinality(S) # 0
  BY FS_EmptySet
<1> HIDE DEF n
<1>4. f \in Seq(S) /\ Len(f) = n
  BY <1>1, <1>2
<1>5. S # {} /\ k > 0 => n > 0
  BY <1>1, <1>3 DEF n
<1> QED BY <1>4, <1>5

\* A result of one of the searches.
LEMMA ResultsAreResults ==
    ASSUME NEW search \in {"cosine", "bm25"}, NEW d \in Docs, NEW n \in Passages
    PROVE  ResultOf(search, d, n) \in Result /\ ResultOf(search, d, n).doc = d
<1>1. <<search, d, n>> \in Score
  BY DEF Score
<1>2. <<n, IF n \in Alike THEN {} ELSE {d}>> \in Key
  BY DEF Key
<1> QED BY <1>1, <1>2 DEF ResultOf, Result

\* What a document that is read contributes is its own, and not nothing when it is
\* relevant.
LEMMA HitsAreFromDoc ==
    ASSUME NEW q, NEW d \in Docs, NEW h \in Hits(q, d)
    PROVE  /\ h \in Seq(Result) /\ \A i \in 1..Len(h) : h[i].doc = d
           /\ d \in run[q].relevant => Len(h) > 0
<1>1. CASE d \in run[q].relevant
  <2>1. PICK S \in (SUBSET Passages) \ {{}} : \E f \in Orders(S, TopKBm25) :
          h = [i \in DOMAIN f |-> ResultOf("bm25", d, f[i])]
    BY <1>1 DEF Hits
  <2>2. PICK f \in Orders(S, TopKBm25) : h = [i \in DOMAIN f |-> ResultOf("bm25", d, f[i])]
    BY <2>1
  <2>3. IsFiniteSet(S) /\ S # {} /\ S \subseteq Passages
    <3>1. IsFiniteSet(Passages)
      BY IndexNumbers, FS_Interval DEF Passages
    <3> QED BY <3>1, FS_Subset
  <2>4. TopKBm25 \in Nat /\ TopKBm25 > 0
    <3>1. TopKBm25 \in Nat \ {0}
      BY QueryAssumption DEF QueryAssumption
    <3> QED BY <3>1
  <2>5. f \in Seq(S) /\ Len(f) > 0
    BY <2>2, <2>3, <2>4, OrdersAreLists
  <2>6. \A n \in Passages : /\ ResultOf("bm25", d, n) \in Result
                            /\ ResultOf("bm25", d, n).doc = d
    BY ResultsAreResults
  <2>7. DOMAIN f = 1..Len(f) /\ Len(f) \in Nat /\ \A i \in 1..Len(f) : f[i] \in Passages
    BY <2>3, <2>5
  <2>8. h \in [1..Len(f) -> Result] /\ \A i \in 1..Len(f) : h[i].doc = d
    BY <2>2, <2>6, <2>7
  <2>9. h \in Seq(Result) /\ Len(h) = Len(f)
    BY <2>7, <2>8
  <2> QED BY <2>5, <2>8, <2>9
<1>2. CASE d \notin run[q].relevant
  <2>1. h = <<>>
    BY <1>2 DEF Hits
  <2> QED BY <1>2, <2>1
<1> QED BY <1>1, <1>2

\* Going to the next document.
LEMMA TailOfList ==
    ASSUME NEW list \in Seq(Docs), list # <<>>
    PROVE  /\ Head(list) \in Docs /\ Tail(list) \in Seq(Docs)
           /\ OnList(list) = {Head(list)} \cup OnList(Tail(list))
<1>1. /\ Len(list) \in Nat /\ Len(list) # 0 /\ DOMAIN list = 1..Len(list)
      /\ Head(list) = list[1] /\ list[1] \in Docs /\ Tail(list) \in Seq(Docs)
      /\ Len(Tail(list)) = Len(list) - 1 /\ DOMAIN Tail(list) = 1..(Len(list) - 1)
      /\ \A i \in 1..(Len(list) - 1) : Tail(list)[i] = list[i + 1]
  OBVIOUS
<1>2. ASSUME NEW i \in 1..Len(list) PROVE list[i] \in {Head(list)} \cup OnList(Tail(list))
  <2>1. CASE i = 1
    BY <1>1, <2>1
  <2>2. CASE i # 1
    <3>1. i - 1 \in 1..(Len(list) - 1) /\ list[i] = Tail(list)[i - 1]
      BY <1>1, <2>2
    <3> QED BY <1>1, <3>1 DEF OnList
  <2> QED BY <2>1, <2>2
<1>3. ASSUME NEW i \in 1..(Len(list) - 1) PROVE Tail(list)[i] \in OnList(list)
  <2>1. i + 1 \in 1..Len(list) /\ Tail(list)[i] = list[i + 1]
    BY <1>1
  <2> QED BY <1>1, <2>1 DEF OnList
<1>4. list[1] \in OnList(list)
  BY <1>1 DEF OnList
<1> QED BY <1>1, <1>2, <1>3, <1>4 DEF OnList

\* Adding the hits of a document.
LEMMA HitsAreAdded ==
    ASSUME NEW list \in Seq(Result), NEW q, NEW d \in Docs, NEW h \in Hits(q, d)
    PROVE  /\ list \o h \in Seq(Result)
           /\ FoundBy(list) \subseteq FoundBy(list \o h)
           /\ d \in run[q].relevant => d \in FoundBy(list \o h)
<1>1. /\ h \in Seq(Result) /\ \A i \in 1..Len(h) : h[i].doc = d
      /\ d \in run[q].relevant => Len(h) > 0
  BY HitsAreFromDoc
<1>2. /\ Len(list) \in Nat /\ Len(h) \in Nat /\ list \o h \in Seq(Result)
      /\ DOMAIN list = 1..Len(list) /\ DOMAIN (list \o h) = 1..(Len(list) + Len(h))
      /\ \A i \in 1..(Len(list) + Len(h)) :
           (list \o h)[i] = IF i <= Len(list) THEN list[i] ELSE h[i - Len(list)]
  BY <1>1
<1>3. ASSUME NEW i \in 1..Len(list) PROVE list[i].doc \in FoundBy(list \o h)
  <2>1. i \in 1..(Len(list) + Len(h)) /\ (list \o h)[i] = list[i]
    BY <1>2
  <2> QED BY <1>2, <2>1 DEF FoundBy
<1>4. d \in run[q].relevant => d \in FoundBy(list \o h)
  <2> SUFFICES ASSUME d \in run[q].relevant PROVE d \in FoundBy(list \o h)
    OBVIOUS
  <2> DEFINE j == Len(list) + 1
  <2>1. j \in 1..(Len(list) + Len(h)) /\ (list \o h)[j] = h[1] /\ 1 \in 1..Len(h)
    BY <1>1, <1>2
  <2> QED BY <1>1, <1>2, <2>1 DEF FoundBy
<1> QED BY <1>2, <1>3, <1>4 DEF FoundBy

\* A request that moves concerns no other.
LEMMA BecomeKeepsSearch ==
    ASSUME SearchInv, NEW q \in Runs, NEW r, Become(q, r), UNCHANGED keys, SearchKept(r, keys)
    PROVE  SearchInv'
<1>1. DOMAIN run' = Runs /\ \A p \in Runs : run'[p] = IF p = q THEN r ELSE run[p]
  BY DEF Become, SearchInv
<1>2. \A p \in Runs : SearchKept(run'[p], keys)
  BY <1>1 DEF SearchInv
<1>3. keys' = keys
  OBVIOUS
<1>4. \A p \in Runs : SearchKept(run'[p], keys')
  BY <1>2, <1>3
<1> QED BY <1>1, <1>4 DEF SearchInv

\* The next document of the list, whether this one was found, had lost a key or
\* could not be read.
LEMMA NextDocument ==
    ASSUME NEW r, NEW K, SearchKept(r, K), r.pc \in {"tokens", "chunks"}, r.pending # <<>>,
           NEW k \in Seq(Result), NEW S \in SUBSET r.always,
           FoundBy(r.keyword) \subseteq FoundBy(k),
           Head(r.pending) \in WholeIndex(S) \cap r.relevant => Head(r.pending) \in FoundBy(k)
    PROVE  SearchKept([r EXCEPT !.pc = "tokens", !.pending = Tail(@), !.tokens = FALSE,
                                !.keyword = k, !.always = S], K)
<1> DEFINE t == [r EXCEPT !.pc = "tokens", !.pending = Tail(@), !.tokens = FALSE,
                          !.keyword = k, !.always = S]
<1>1. /\ {"pc", "pending", "tokens", "keyword", "relevant", "always"} \subseteq DOMAIN r
      /\ r.pending \in Seq(Docs) /\ r.always \subseteq K
      /\ Wanted(r) \subseteq FoundBy(r.keyword) \cup OnList(r.pending)
  BY DEF SearchKept, Reading
<1>2. /\ {"pc", "pending", "tokens", "keyword", "relevant", "always"} \subseteq DOMAIN t
      /\ t.pc = "tokens" /\ t.pending = Tail(r.pending) /\ t.keyword = k /\ t.always = S
      /\ t.relevant = r.relevant
  BY <1>1
<1> HIDE DEF t
<1>3. /\ Tail(r.pending) \in Seq(Docs)
      /\ OnList(r.pending) = {Head(r.pending)} \cup OnList(Tail(r.pending))
  BY <1>1, TailOfList
<1>4. Wanted(t) = WholeIndex(S) \cap r.relevant /\ Wanted(t) \subseteq Wanted(r)
  BY <1>2, FewerKeys DEF Wanted
<1>5. Wanted(t) \subseteq FoundBy(k) \cup OnList(Tail(r.pending))
  BY <1>1, <1>3, <1>4
<1>6. SearchKept(t, K)
  BY <1>1, <1>2, <1>3, <1>5 DEF SearchKept
<1> QED BY <1>6 DEF t

\* A call of SCAN: at the end every wanted document is on the list.
LEMMA ScanKeepsSearch ==
    ASSUME SearchInv, NEW q \in Runs, Scan(q)
    PROVE  \E r : Become(q, r) /\ SearchKept(r, keys)
<1> DEFINE Fields == {"pc", "pending", "tokens", "keyword", "relevant", "always"}
<1>0. SearchKept(run[q], keys) /\ Fields \subseteq DOMAIN run[q]
  BY DEF SearchInv, SearchKept
<1>1. /\ run[q].pending \in Seq(Docs) /\ run[q].keyword \in Seq(Result)
      /\ run[q].pc = "scanning" => run[q].always \subseteq keys
  <2>1. <<>> \in Seq(Docs) /\ <<>> \in Seq(Result)
    OBVIOUS
  <2>2. run[q].pc \in {"scan", "scanning"}
    BY DEF Scan
  <2> QED BY <1>0, <2>1, <2>2 DEF SearchKept, Reading
<1>2. \E r : /\ ScanCall(q, r) /\ Fields \subseteq DOMAIN r
             /\ r.pending = run[q].pending /\ r.keyword = run[q].keyword
             /\ r.always \subseteq keys
  <2>1. CASE run[q].pc = "scan"
    <3>1. PICK relevant : ScanCall(q, [run[q] EXCEPT !.relevant = relevant, !.always = keys])
      BY <2>1 DEF Scan
    <3> DEFINE r == [run[q] EXCEPT !.relevant = relevant, !.always = keys]
    <3>2. /\ Fields \subseteq DOMAIN r /\ r.pending = run[q].pending
          /\ r.keyword = run[q].keyword /\ r.always = keys
      BY <1>0
    <3> HIDE DEF r
    <3> QED BY <3>1, <3>2 DEF r
  <2>2. CASE run[q].pc = "scanning" /\ ScanCall(q, run[q])
    BY <1>0, <1>1, <2>2
  <2> QED BY <2>1, <2>2 DEF Scan
<1>3. PICK r : /\ ScanCall(q, r) /\ Fields \subseteq DOMAIN r
               /\ r.pending = run[q].pending /\ r.keyword = run[q].keyword
               /\ r.always \subseteq keys
  BY <1>2
<1>4. MaxScanned - Len(r.pending) \in Int
  BY <1>1, <1>3, QueryAssumption DEF QueryAssumption
<1>5. ASSUME NEW batch \in SeqOf(TokenDocs(keys), MaxScanned - Len(r.pending)),
             Become(q, [r EXCEPT !.pc = "scanning", !.pending = r.pending \o batch])
      PROVE  \E t : Become(q, t) /\ SearchKept(t, keys)
  <2> DEFINE found == r.pending \o batch
             t == [r EXCEPT !.pc = "scanning", !.pending = found]
  <2>1. found \in Seq(Docs)
    BY <1>1, <1>3, <1>4, BatchesAreLists
  <2> HIDE DEF found
  <2>2. /\ Fields \subseteq DOMAIN t /\ t.pc = "scanning" /\ t.pending = found
        /\ t.keyword = run[q].keyword /\ t.always = r.always
    BY <1>3
  <2> HIDE DEF t
  <2>3. SearchKept(t, keys)
    BY <1>1, <1>3, <2>1, <2>2 DEF SearchKept
  <2> QED BY <1>5, <2>3 DEF t, found
<1>6. ASSUME NEW batch \in SeqOf(TokenDocs(keys), MaxScanned - Len(r.pending)),
             TokenDocs(r.always) \subseteq
               {(r.pending \o batch)[i] : i \in DOMAIN (r.pending \o batch)},
             Become(q, [r EXCEPT !.pc = "tokens", !.pending = r.pending \o batch])
      PROVE  \E t : Become(q, t) /\ SearchKept(t, keys)
  <2> DEFINE found == r.pending \o batch
             t == [r EXCEPT !.pc = "tokens", !.pending = found]
  <2>1. found \in Seq(Docs)
    BY <1>1, <1>3, <1>4, BatchesAreLists
  <2>2. TokenDocs(r.always) \subseteq OnList(found)
    BY <1>6 DEF OnList
  <2> HIDE DEF found
  <2>3. /\ Fields \subseteq DOMAIN t /\ t.pc = "tokens" /\ t.pending = found
        /\ t.keyword = run[q].keyword /\ t.always = r.always
    BY <1>3
  <2> HIDE DEF t
  <2>4. Wanted(t) \subseteq TokenDocs(r.always)
    BY <2>3 DEF Wanted, WholeIndex, TokenDocs
  <2>5. SearchKept(t, keys)
    BY <1>1, <1>3, <2>1, <2>2, <2>3, <2>4 DEF SearchKept
  <2> QED BY <1>6, <2>5 DEF t, found
<1>7. ASSUME Become(q, [r EXCEPT !.pc = "tokens", !.pending = <<>>, !.always = {}])
      PROVE  \E t : Become(q, t) /\ SearchKept(t, keys)
  <2> DEFINE t == [r EXCEPT !.pc = "tokens", !.pending = <<>>, !.always = {}]
  <2>1. /\ Fields \subseteq DOMAIN t /\ t.pc = "tokens" /\ t.pending = <<>>
        /\ t.keyword = run[q].keyword /\ t.always = {}
    BY <1>3
  <2>2. <<>> \in Seq(Docs)
    OBVIOUS
  <2> HIDE DEF t
  <2>3. Wanted(t) = {}
    BY <2>1 DEF Wanted, WholeIndex
  <2>4. SearchKept(t, keys)
    BY <1>1, <2>1, <2>2, <2>3 DEF SearchKept
  <2> QED BY <1>7, <2>4 DEF t
<1> QED BY <1>3, <1>5, <1>6, <1>7 DEF ScanCall

\* A step of a request misses no document that was there all the time.
LEMMA RequestKeepsSearch == ASSUME SearchInv, NEW q \in Runs, QueryStep(q) PROVE SearchInv'
<1> DEFINE Fields == {"pc", "pending", "tokens", "keyword", "relevant", "always"}
<1>0. SearchKept(run[q], keys) /\ Fields \subseteq DOMAIN run[q]
  BY DEF SearchInv, SearchKept
<1>k. UNCHANGED keys
  BY DEF QueryStep, Ask, Embed, VectorSearch, Scan, GetTokens, GetChunks, EndOfScan,
         Rank, Rerank, Generate, Log, Store, Leave, indexVars
<1>s. ASSUME NEW r, Become(q, r), SearchKept(r, keys) PROVE SearchInv'
  BY <1>k, <1>s, BecomeKeepsSearch
<1>1. ASSUME Ask(q) \/ Leave(q) PROVE SearchInv'
  <2>1. /\ Fields \cup {"age", "scope", "offList"} \subseteq DOMAIN Idle /\ Idle.pc = "idle"
        /\ Idle.pending = <<>> /\ Idle.keyword = <<>>
    BY DEF Idle
  <2>2. SearchKept(Idle, keys)
    BY <2>1 DEF SearchKept, Reading
  <2>3. \A scope : SearchKept(Asked(scope), keys)
    BY <2>1 DEF SearchKept, Asked, Reading
  <2>4. \A a : SearchKept([Idle EXCEPT !.pc = "answered", !.age = a], keys)
    BY <2>1 DEF SearchKept, Reading
  <2>5. SearchKept([Idle EXCEPT !.pc = "failed"], keys)
    BY <2>1 DEF SearchKept, Reading
  <2>6. \/ Become(q, Idle)
        \/ \E scope : Become(q, Asked(scope))
        \/ \E a : Become(q, [Idle EXCEPT !.pc = "answered", !.age = a])
        \/ Become(q, [Idle EXCEPT !.pc = "failed"])
    BY <1>1 DEF Ask, LookUp, Leave
  <2> QED BY <1>s, <2>2, <2>3, <2>4, <2>5, <2>6
<1>2. ASSUME Embed(q) PROVE SearchInv'
  <2>1. run[q].pc = "embed" /\ Become(q, [run[q] EXCEPT !.pc = "search"])
    BY <1>2 DEF Embed
  <2>2. SearchKept([run[q] EXCEPT !.pc = "search"], keys)
    BY <1>0, <2>1 DEF SearchKept, Reading, Wanted
  <2> QED BY <1>s, <2>1, <2>2
<1>3. ASSUME VectorSearch(q) PROVE SearchInv'
  <2>1. run[q].pc = "search" /\ \E v : Become(q, [run[q] EXCEPT !.pc = "scan", !.vector = v])
    BY <1>3 DEF VectorSearch
  <2>2. \A v : SearchKept([run[q] EXCEPT !.pc = "scan", !.vector = v], keys)
    BY <1>0, <2>1 DEF SearchKept, Reading, Wanted
  <2> QED BY <1>s, <2>1, <2>2
<1>4. ASSUME Scan(q) PROVE SearchInv'
  BY <1>s, <1>4, ScanKeepsSearch
<1>5. ASSUME SkipDoc(q), run[q].pc \in {"tokens", "chunks"}, run[q].pending # <<>>
      PROVE  SearchInv'
  <2> DEFINE S == run[q].always \ ({"tokens", "chunks"} \X {Head(run[q].pending)})
             r == [run[q] EXCEPT !.pc = "tokens", !.pending = Tail(@), !.tokens = FALSE,
                                 !.keyword = run[q].keyword, !.always = S]
  <2>1. Become(q, [run[q] EXCEPT !.pc = "tokens", !.pending = Tail(@), !.tokens = FALSE,
                    !.always = @ \ ({"tokens", "chunks"} \X {Head(run[q].pending)})])
    BY <1>5 DEF SkipDoc
  <2>2. r = [run[q] EXCEPT !.pc = "tokens", !.pending = Tail(@), !.tokens = FALSE,
                  !.always = @ \ ({"tokens", "chunks"} \X {Head(run[q].pending)})]
    BY <1>0
  <2>3. run[q].keyword \in Seq(Result) /\ S \in SUBSET run[q].always
    BY <1>0, <1>5 DEF SearchKept, Reading
  <2>n. Head(run[q].pending) \notin WholeIndex(S)
    BY DEF WholeIndex
  <2> HIDE DEF S
  <2>4. SearchKept(r, keys)
    BY <1>0, <1>5, <2>3, <2>n, NextDocument
  <2> HIDE DEF r
  <2> QED BY <1>s, <2>1, <2>2, <2>4 DEF S
<1>6. ASSUME GetTokens(q) PROVE SearchInv'
  <2>1. run[q].pc = "tokens" /\ run[q].pending # <<>>
    BY <1>6 DEF GetTokens
  <2>2. ASSUME Become(q, [run[q] EXCEPT
                 !.pc = "chunks", !.tokens = <<"tokens", Head(run[q].pending)>> \in keys])
        PROVE  SearchInv'
    <3> DEFINE b == <<"tokens", Head(run[q].pending)>> \in keys
    <3>1. b \in BOOLEAN
      OBVIOUS
    <3>2. Head(run[q].pending) \in Wanted(run[q]) => b
      BY <1>0, <2>1 DEF SearchKept, Reading, Wanted, WholeIndex
    <3>3. Become(q, [run[q] EXCEPT !.pc = "chunks", !.tokens = b])
      BY <2>2
    <3> HIDE DEF b
    <3>4. SearchKept([run[q] EXCEPT !.pc = "chunks", !.tokens = b], keys)
      BY <1>0, <2>1, <3>1, <3>2 DEF SearchKept, Reading, Wanted
    <3> QED BY <1>s, <3>3, <3>4
  <2> QED BY <1>5, <1>6, <2>1, <2>2 DEF GetTokens
<1>7. ASSUME GetChunks(q) PROVE SearchInv'
  <2> DEFINE d == Head(run[q].pending)
  <2>1. /\ run[q].pc = "chunks" /\ run[q].pending # <<>> /\ run[q].pending \in Seq(Docs)
        /\ run[q].keyword \in Seq(Result) /\ run[q].always \subseteq keys
        /\ d \in Wanted(run[q]) => run[q].tokens
    BY <1>0, <1>7 DEF GetChunks, SearchKept, Reading
  <2>2. d \in Docs
    BY <2>1, TailOfList
  <2>3. ASSUME NEW hits \in Hits(q, d),
               Become(q, [run[q] EXCEPT !.pc = "tokens", !.pending = Tail(@),
                                        !.tokens = FALSE, !.keyword = @ \o hits])
        PROVE  SearchInv'
    <3> DEFINE k == run[q].keyword \o hits
               r == [run[q] EXCEPT !.pc = "tokens", !.pending = Tail(@), !.tokens = FALSE,
                                   !.keyword = k, !.always = run[q].always]
    <3>1. /\ k \in Seq(Result) /\ FoundBy(run[q].keyword) \subseteq FoundBy(k)
          /\ d \in run[q].relevant => d \in FoundBy(k)
      BY <2>1, <2>2, HitsAreAdded
    <3>2. r = [run[q] EXCEPT !.pc = "tokens", !.pending = Tail(@),
                             !.tokens = FALSE, !.keyword = @ \o hits]
      BY <1>0
    <3>3. SearchKept(r, keys)
      <4> HIDE DEF k
      <4> QED BY <1>0, <2>1, <3>1, NextDocument
    <3> HIDE DEF r, k
    <3> QED BY <1>s, <2>3, <3>2, <3>3
  <2>4. ASSUME ~run[q].tokens \/ <<"chunks", d>> \notin keys,
               Become(q, [run[q] EXCEPT !.pc = "tokens", !.pending = Tail(@), !.tokens = FALSE])
        PROVE  SearchInv'
    <3> DEFINE r == [run[q] EXCEPT !.pc = "tokens", !.pending = Tail(@), !.tokens = FALSE,
                                   !.keyword = run[q].keyword, !.always = run[q].always]
    <3>1. d \notin Wanted(run[q])
      BY <2>1, <2>4 DEF Wanted, WholeIndex
    <3>2. r = [run[q] EXCEPT !.pc = "tokens", !.pending = Tail(@), !.tokens = FALSE]
      BY <1>0
    <3>3. SearchKept(r, keys)
      BY <1>0, <2>1, <3>1, NextDocument DEF Wanted
    <3> HIDE DEF r
    <3> QED BY <1>s, <2>4, <3>2, <3>3
  <2> QED BY <1>5, <1>7, <2>1, <2>3, <2>4 DEF GetChunks
<1>8. ASSUME EndOfScan(q) PROVE SearchInv'
  <2>1. /\ run[q].pc = "tokens" /\ run[q].pending = <<>>
        /\ Become(q, [run[q] EXCEPT !.pc = "rank"])
    BY <1>8 DEF EndOfScan
  <2>2. OnList(<<>>) = {}
    BY DEF OnList
  <2>3. Wanted(run[q]) \subseteq FoundBy(run[q].keyword)
    BY <1>0, <2>1, <2>2 DEF SearchKept
  <2>4. SearchKept([run[q] EXCEPT !.pc = "rank"], keys)
    BY <1>0, <2>3 DEF SearchKept, Reading, Wanted
  <2> QED BY <1>s, <2>1, <2>4
<1>9. ASSUME Rank(q) \/ Rerank(q) \/ Generate(q) \/ Log(q) \/ Store(q) PROVE SearchInv'
  <2>1. \/ \E p : Become(q, [run[q] EXCEPT
                    !.pc = "rerank", !.relevant = {}, !.always = {}, !.prompt = p])
        \/ \E p : Become(q, [run[q] EXCEPT
                    !.pc = "generate", !.vector = <<>>, !.keyword = <<>>, !.prompt = p])
        \/ \E c : Become(q, [run[q] EXCEPT !.pc = "log", !.sources = c, !.offList = {}])
        \/ Become(q, [run[q] EXCEPT !.pc = "store", !.prompt = <<>>, !.sources = <<>>])
        \/ Become(q, [run[q] EXCEPT !.pc = "answered"])
        \/ Become(q, [run[q] EXCEPT !.pc = "failed"])
    BY <1>9 DEF Rank, Rerank, Generate, Log, Store
  <2>2. /\ \A p : SearchKept([run[q] EXCEPT
                    !.pc = "rerank", !.relevant = {}, !.always = {}, !.prompt = p], keys)
        /\ \A p : SearchKept([run[q] EXCEPT
                    !.pc = "generate", !.vector = <<>>, !.keyword = <<>>, !.prompt = p], keys)
    BY <1>0 DEF SearchKept, Reading
  <2>3. /\ \A c : SearchKept([run[q] EXCEPT !.pc = "log", !.sources = c, !.offList = {}], keys)
        /\ SearchKept([run[q] EXCEPT !.pc = "store", !.prompt = <<>>, !.sources = <<>>], keys)
    BY <1>0 DEF SearchKept, Reading
  <2>4. \A pc \in {"answered", "failed"} : SearchKept([run[q] EXCEPT !.pc = pc], keys)
    BY <1>0 DEF SearchKept, Reading
  <2> QED BY <1>s, <2>1, <2>2, <2>3, <2>4
<1> QED BY <1>1, <1>2, <1>3, <1>4, <1>6, <1>7, <1>8, <1>9 DEF QueryStep

\* Others may take documents out of the search, never put a missed one in.
LEMMA OthersKeepSearch == ASSUME SearchInv, OthersStep PROVE SearchInv'
<1>1. run' = [q \in Runs |->
        IF run[q].pc \in Reading THEN [run[q] EXCEPT !.always = @ \cap keys'] ELSE run[q]]
  BY DEF OthersStep
<1>2. ASSUME NEW q \in Runs PROVE SearchKept(run'[q], keys')
  <2>1. SearchKept(run[q], keys)
    BY DEF SearchInv
  <2>2. CASE run[q].pc \notin Reading
    <3>1. run'[q] = run[q]
      BY <1>1, <2>2
    <3> QED BY <2>1, <2>2, <3>1 DEF SearchKept, Reading
  <2>3. CASE run[q].pc \in Reading
    <3> DEFINE S == run[q].always \cap keys'
               t == [run[q] EXCEPT !.always = S]
    <3>1. run'[q] = t
      BY <1>1, <2>3
    <3>2. S \subseteq run[q].always /\ S \subseteq keys'
      OBVIOUS
    <3> HIDE DEF S
    <3>3. /\ {"pc", "pending", "tokens", "keyword", "relevant", "always"} \subseteq DOMAIN t
          /\ t.pc = run[q].pc /\ t.pending = run[q].pending /\ t.tokens = run[q].tokens
          /\ t.keyword = run[q].keyword /\ t.relevant = run[q].relevant /\ t.always = S
      BY <2>1 DEF SearchKept
    <3> HIDE DEF t
    <3>4. Wanted(t) \subseteq Wanted(run[q])
      BY <3>2, <3>3, FewerKeys DEF Wanted
    <3>5. SearchKept(t, keys')
      BY <2>1, <2>3, <3>2, <3>3, <3>4 DEF SearchKept, Reading
    <3> QED BY <3>1, <3>5
  <2> QED BY <2>2, <2>3
<1>3. DOMAIN run' = Runs
  BY <1>1
<1> QED BY <1>2, <1>3 DEF SearchInv

\* Time changes nothing in a search.
LEMMA TickKeepsSearch == ASSUME SearchInv, Tick PROVE SearchInv'
<1>1. /\ UNCHANGED keys
      /\ run' = [q \in Runs |->
           IF Active(q) THEN [run[q] EXCEPT !.age = @ + 1] ELSE run[q]]
  BY DEF Tick, indexVars
<1>2. ASSUME NEW q \in Runs PROVE SearchKept(run'[q], keys)
  <2>1. SearchKept(run[q], keys)
    BY DEF SearchInv
  <2>2. SearchKept([run[q] EXCEPT !.age = @ + 1], keys)
    BY <2>1 DEF SearchKept, Wanted
  <2> QED BY <1>1, <2>1, <2>2
<1>3. \A q \in Runs : SearchKept(run'[q], keys')
  BY <1>1, <1>2
<1>4. DOMAIN run' = Runs
  BY <1>1
<1> QED BY <1>3, <1>4 DEF SearchInv

\* SearchInv is an invariant.
LEMMA SearchIsKept == Spec => []SearchInv
<1>1. Init => SearchInv
  <2>1. SearchKept(Idle, keys)
    BY DEF SearchKept, Idle, Reading
  <2> QED BY <2>1 DEF Init, SearchInv
<1>2. SearchInv /\ [Next]_vars => SearchInv'
  <2>1. SearchInv /\ UNCHANGED vars => SearchInv'
    BY DEF SearchInv, vars, indexVars
  <2> QED BY <2>1, RequestKeepsSearch, OthersKeepSearch, TickKeepsSearch DEF Next
<1> QED BY <1>1, <1>2, PTL DEF Spec

\* The keyword search lists keys call by call and reads them one at a time while others
\* write, delete and evict them: it misses no relevant document whose keys stayed and
\* could be read, for any number of documents, passages, calls and requests.
THEOREM NothingIsMissed == Spec => []KeywordSearchMissesNothing
<1>1. SearchInv => KeywordSearchMissesNothing
  BY DEF SearchInv, SearchKept, Wanted, FoundBy, KeywordSearchMissesNothing
<1> QED BY <1>1, SearchIsKept, PTL
--------------------------------------------------------------------------
\* The recursive functions of the fusion

\* The constants of the fusion are numbers.
LEMMA FusionNumbers == RRF_K \in Nat /\ MaxRank \in Nat /\ MaxRank >= 1
BY FusionAssumption DEF FusionAssumption

\* Product is what its definition says.
LEMMA ProductIs ==
    /\ Product \in [0..MaxRank -> Nat]
    /\ Product[0] = 1
    /\ \A r \in 1..MaxRank : Product[r] = Product[r - 1] * (RRF_K + r)
<1> DEFINE step == [p \in Nat \X (1..MaxRank) |-> p[1] * (RRF_K + p[2])]
           Def(f) == [r \in 0..MaxRank |-> IF r = 0 THEN 1 ELSE f[r - 1] * (RRF_K + r)]
<1>1. \A p \in Nat \X (1..MaxRank) : p[1] \in Nat /\ p[2] \in 1..MaxRank
  OBVIOUS
<1>2. \A a, b \in Nat : a * (RRF_K + b) \in Nat
  BY FusionNumbers
<1>3. step \in [Nat \X (1..MaxRank) -> Nat]
  <2>1. \A p \in Nat \X (1..MaxRank) : p[1] * (RRF_K + p[2]) \in Nat
    BY <1>1, <1>2
  <2> QED BY <2>1
<1>4. \A a \in Nat, r \in 1..MaxRank : step[<<a, r>>] = a * (RRF_K + r)
  OBVIOUS
<1> HIDE DEF step
<1>5. PICK f \in [0..MaxRank -> Nat] : Iterates(f, MaxRank, 1, step)
  BY <1>3, IteratesExist, FusionNumbers
<1>6. f = Def(f)
  <2>1. \A r \in 1..MaxRank : f[r - 1] \in Nat
    BY FusionNumbers
  <2> QED BY <1>4, <1>5, <2>1, FusionNumbers DEF Iterates
<1>7. Product = Def(Product)
  BY <1>6, Zenon DEF Product
<1>8. /\ Product[0] = 1
      /\ \A r \in 1..MaxRank : Product[r] = Product[r - 1] * (RRF_K + r)
  BY <1>7, FusionNumbers
<1>9. Product = [r \in 0..MaxRank |-> Product[r]]
  BY <1>7
<1>10. Product \in [0..MaxRank -> Nat]
  <2>1. Computes(Product, MaxRank, 1, step, Nat)
    BY <1>4, <1>8 DEF Computes
  <2>2. \A r \in 0..MaxRank : Product[r] \in Nat
    BY <1>3, <2>1, IteratesKeepTo, FusionNumbers
  <2> QED BY <1>9, <2>2
<1> QED BY <1>8, <1>10

\* A share is a natural number.
LEMMA SharesAreNumbers == \A rank \in Nat \ {0} : Share(rank) \in Nat
<1>1. Scale \in Nat
  BY ProductIs, FusionNumbers DEF Scale
<1>2. SUFFICES ASSUME NEW rank \in Nat \ {0} PROVE Share(rank) \in Nat
  OBVIOUS
<1>3. RRF_K + rank \in Nat /\ RRF_K + rank > 0
  BY FusionNumbers
<1>4. ASSUME NEW a \in Nat, NEW b \in Nat, b > 0 PROVE a \div b \in Nat
  BY <1>4
<1> QED BY <1>1, <1>3, <1>4 DEF Share

\* One more result leaves a list of chunks.
LEMMA AddShareType ==
    ASSUME NEW merged \in Seq(Chunk), NEW result \in Result, NEW rank \in Nat \ {0}
    PROVE  AddShare(merged, result, rank) \in Seq(Chunk)
<1>1. Share(rank) \in Nat
  BY SharesAreNumbers
<1>2. CASE \E i \in DOMAIN merged : merged[i].key = result.key
  <2>1. ASSUME NEW i \in DOMAIN merged
        PROVE  [merged[i] EXCEPT !.rrf = @ + Share(rank)] \in Chunk
    <3>1. merged[i] \in Chunk
      OBVIOUS
    <3>2. merged[i].rrf + Share(rank) \in Nat
      BY <1>1, <3>1 DEF Chunk
    <3> QED BY <3>1, <3>2 DEF Chunk
  <2>2. AddShare(merged, result, rank) =
          [i \in 1..Len(merged) |->
             IF merged[i].key = result.key
             THEN [merged[i] EXCEPT !.rrf = @ + Share(rank)]
             ELSE merged[i]]
    <3>1. DOMAIN merged = 1..Len(merged)
      OBVIOUS
    <3> QED BY <1>2, <3>1, Zenon DEF AddShare
  <2>3. \A i \in 1..Len(merged) : merged[i] \in Chunk /\ i \in DOMAIN merged
    OBVIOUS
  <2>4. Len(merged) \in Nat
    OBVIOUS
  <2> QED BY <2>1, <2>2, <2>3, <2>4
<1>3. CASE ~(\E i \in DOMAIN merged : merged[i].key = result.key)
  <2>1. [result |-> result, key |-> result.key, rrf |-> Share(rank)] \in Chunk
    BY <1>1 DEF Chunk, Result
  <2> QED BY <1>3, <2>1 DEF AddShare
<1> QED BY <1>2, <1>3

\* Merging is what its definition says.
LEMMA MergingIs ==
    ASSUME NEW merged \in Seq(Chunk), NEW list \in Seq(Result)
    PROVE  /\ Merging(merged, list) \in [0..Len(list) -> Seq(Chunk)]
           /\ Merging(merged, list)[0] = merged
           /\ \A r \in 1..Len(list) :
                Merging(merged, list)[r] =
                AddShare(Merging(merged, list)[r - 1], list[r], r)
<1> DEFINE n == Len(list)
           V == Seq(Chunk)
           step == [p \in V \X (1..n) |-> AddShare(p[1], list[p[2]], p[2])]
           Def(f) == [r \in 0..n |-> IF r = 0 THEN merged
                                     ELSE AddShare(f[r - 1], list[r], r)]
<1>1. n \in Nat
  OBVIOUS
<1>2. \A r \in 1..n : r \in Nat \ {0} /\ list[r] \in Result
  OBVIOUS
<1>3. step \in [V \X (1..n) -> V]
  <2>1. ASSUME NEW p \in V \X (1..n) PROVE AddShare(p[1], list[p[2]], p[2]) \in V
    <3>1. p[1] \in Seq(Chunk) /\ p[2] \in 1..n
      OBVIOUS
    <3> QED BY <1>2, <3>1, AddShareType
  <2> QED BY <2>1
<1>4. \A a \in V, r \in 1..n : step[<<a, r>>] = AddShare(a, list[r], r)
  OBVIOUS
<1> HIDE DEF step
<1>5. PICK f \in [0..n -> V] : Iterates(f, n, merged, step)
  BY <1>1, <1>3, IteratesExist
<1>6. f = Def(f)
  <2>1. \A r \in 1..n : f[r - 1] \in V
    BY <1>1
  <2>2. ASSUME NEW r \in 0..n
        PROVE  f[r] = IF r = 0 THEN merged ELSE AddShare(f[r - 1], list[r], r)
    <3>1. f[r] = IF r = 0 THEN merged ELSE step[<<f[r - 1], r>>]
      BY <1>5 DEF Iterates
    <3>2. r # 0 => r \in 1..n
      BY <1>1
    <3> QED BY <1>4, <2>1, <3>1, <3>2
  <2> QED BY <2>2
<1> DEFINE g == Merging(merged, list)
<1>7. g = Def(g)
  BY <1>6, Zenon DEF Merging
<1> HIDE DEF g
<1>8. /\ g[0] = merged
      /\ \A r \in 1..n : g[r] = AddShare(g[r - 1], list[r], r)
  BY <1>1, <1>7
<1>9. g = [r \in 0..n |-> g[r]]
  BY <1>7
<1>10. g \in [0..n -> V]
  <2>1. Computes(g, n, merged, step, V)
    BY <1>4, <1>8 DEF Computes
  <2>2. \A r \in 0..n : g[r] \in V
    BY <1>1, <1>3, <2>1, IteratesKeepTo
  <2> QED BY <1>9, <2>2
<1> QED BY <1>8, <1>10 DEF g

--------------------------------------------------------------------------
\* The sources of an answer

Source == [place : Passages, score : Score]

\* The sources of the first m chunks of a prompt.
CitesUpTo(sources, prompt, m) ==
    /\ \A i \in 1..m : \E k \in DOMAIN sources : sources[k].place = prompt[i].result.place
    /\ \A k, l \in DOMAIN sources : sources[k].place = sources[l].place => k = l
    /\ \A k \in DOMAIN sources : \E i \in 1..m :
         /\ sources[k] = [place |-> prompt[i].result.place, score |-> prompt[i].result.score]
         /\ \A j \in 1..(i - 1) : prompt[j].result.place # sources[k].place

\* One more passage leaves a list of sources.
LEMMA AddSourceType ==
    ASSUME NEW sources \in Seq(Source), NEW chunk \in Chunk
    PROVE  AddSource(sources, chunk) \in Seq(Source)
<1>1. [place |-> chunk.result.place, score |-> chunk.result.score] \in Source
  BY DEF Chunk, Result, Source
<1> QED BY <1>1 DEF AddSource

\* One more chunk of the prompt is cited.
LEMMA AddSourceCites ==
    ASSUME NEW sources \in Seq(Source), NEW prompt \in Seq(Chunk), NEW m \in 1..Len(prompt),
           CitesUpTo(sources, prompt, m - 1)
    PROVE  CitesUpTo(AddSource(sources, prompt[m]), prompt, m)
<1> DEFINE place == prompt[m].result.place
           new == [place |-> place, score |-> prompt[m].result.score]
<1>0. /\ \A i \in 1..(m - 1) :
             \E k \in DOMAIN sources : sources[k].place = prompt[i].result.place
      /\ \A k, l \in DOMAIN sources : sources[k].place = sources[l].place => k = l
      /\ \A k \in DOMAIN sources : \E i \in 1..(m - 1) :
           /\ sources[k] = [place |-> prompt[i].result.place, score |-> prompt[i].result.score]
           /\ \A j \in 1..(i - 1) : prompt[j].result.place # sources[k].place
  BY DEF CitesUpTo
<1>1. m \in Nat /\ \A i \in 1..m : i \in 1..(m - 1) \/ i = m
  OBVIOUS
<1>2. CASE \E k \in DOMAIN sources : sources[k].place = place
  <2>1. AddSource(sources, prompt[m]) = sources
    BY <1>2 DEF AddSource
  <2>2. \A i \in 1..m :
          \E k \in DOMAIN sources : sources[k].place = prompt[i].result.place
    BY <1>0, <1>1, <1>2
  <2>3. ASSUME NEW k \in DOMAIN sources
        PROVE  \E i \in 1..m :
                 /\ sources[k] =
                      [place |-> prompt[i].result.place, score |-> prompt[i].result.score]
                 /\ \A j \in 1..(i - 1) : prompt[j].result.place # sources[k].place
    <3>1. 1..(m - 1) \subseteq 1..m
      BY <1>1
    <3> QED BY <1>0, <3>1, Zenon
  <2>4. CitesUpTo(sources, prompt, m)
    BY <1>0, <2>2, <2>3 DEF CitesUpTo
  <2> QED BY <2>1, <2>4
<1>3. CASE ~(\E k \in DOMAIN sources : sources[k].place = place)
  <2> DEFINE all == Append(sources, new)
             n == Len(sources)
  <2>1. AddSource(sources, prompt[m]) = all
    BY <1>3 DEF AddSource
  <2>2. /\ n \in Nat /\ DOMAIN sources = 1..n /\ DOMAIN all = 1..(n + 1)
        /\ all[n + 1] = new /\ \A k \in 1..n : all[k] = sources[k]
    OBVIOUS
  <2>3. new.place = place
    OBVIOUS
  <2> HIDE DEF all, new
  <2>4. ASSUME NEW i \in 1..m
        PROVE  \E k \in DOMAIN all : all[k].place = prompt[i].result.place
    <3>1. CASE i = m
      BY <2>2, <2>3, <3>1
    <3>2. CASE i \in 1..(m - 1)
      <4>1. PICK k \in 1..n : sources[k].place = prompt[i].result.place
        BY <1>0, <2>2, <3>2
      <4>2. k \in DOMAIN all /\ all[k] = sources[k]
        BY <2>2
      <4> QED BY <4>1, <4>2
    <3> QED BY <1>1, <3>1, <3>2
  <2>5. ASSUME NEW k \in DOMAIN all, NEW l \in DOMAIN all, all[k].place = all[l].place
        PROVE  k = l
    <3>1. \A j \in 1..n : sources[j].place # place
      BY <1>3, <2>2
    <3>2. \A j \in DOMAIN all :
            \/ j = n + 1 /\ all[j].place = place
            \/ /\ j \in 1..n /\ all[j].place = sources[j].place
               /\ all[j].place # place
      BY <2>2, <2>3, <3>1
    <3>3. (k = n + 1 /\ l = n + 1) \/ (k \in 1..n /\ l \in 1..n)
      BY <2>5, <3>2
    <3>4. k \in 1..n /\ l \in 1..n => sources[k].place = sources[l].place
      BY <2>2, <2>5
    <3> QED BY <1>0, <2>2, <3>3, <3>4
  <2>6. ASSUME NEW k \in DOMAIN all
        PROVE  \E i \in 1..m :
                 /\ all[k] = [place |-> prompt[i].result.place, score |-> prompt[i].result.score]
                 /\ \A j \in 1..(i - 1) : prompt[j].result.place # all[k].place
    <3>1. CASE k \in 1..n
      <4>1. PICK i \in 1..(m - 1) :
              /\ sources[k] = [place |-> prompt[i].result.place, score |-> prompt[i].result.score]
              /\ \A j \in 1..(i - 1) : prompt[j].result.place # sources[k].place
        BY <1>0, <2>2, <3>1
      <4>2. i \in 1..m /\ all[k] = sources[k]
        BY <1>1, <2>2, <3>1
      <4> QED BY <4>1, <4>2
    <3>2. CASE k = n + 1
      <4>1. all[k] = [place |-> prompt[m].result.place, score |-> prompt[m].result.score]
        BY <2>2, <3>2 DEF new
      <4>2. ASSUME NEW j \in 1..(m - 1) PROVE prompt[j].result.place # all[k].place
        <5>1. PICK l \in DOMAIN sources : sources[l].place = prompt[j].result.place
          BY <1>0
        <5> QED BY <1>3, <2>2, <2>3, <3>2, <5>1
      <4>3. m \in 1..m
        BY <1>1
      <4> QED BY <4>1, <4>2, <4>3
    <3> QED BY <2>2, <3>1, <3>2
  <2> HIDE DEF n
  <2>7. CitesUpTo(all, prompt, m)
    BY <2>4, <2>5, <2>6 DEF CitesUpTo
  <2> QED BY <2>1, <2>7
<1> QED BY <1>2, <1>3

\* Citing is what its definition says.
LEMMA CitingIs ==
    ASSUME NEW prompt \in Seq(Chunk)
    PROVE  /\ Citing(prompt) \in [0..Len(prompt) -> Seq(Source)]
           /\ Citing(prompt)[0] = <<>>
           /\ \A i \in 1..Len(prompt) :
                Citing(prompt)[i] = AddSource(Citing(prompt)[i - 1], prompt[i])
<1> DEFINE n == Len(prompt)
           V == Seq(Source)
           step == [p \in V \X (1..n) |-> AddSource(p[1], prompt[p[2]])]
           Def(f) == [i \in 0..n |-> IF i = 0 THEN <<>> ELSE AddSource(f[i - 1], prompt[i])]
<1>1. n \in Nat /\ <<>> \in V
  OBVIOUS
<1>2. \A i \in 1..n : prompt[i] \in Chunk
  OBVIOUS
<1>3. step \in [V \X (1..n) -> V]
  <2>1. ASSUME NEW p \in V \X (1..n) PROVE AddSource(p[1], prompt[p[2]]) \in V
    <3>1. p[1] \in Seq(Source) /\ p[2] \in 1..n
      OBVIOUS
    <3> QED BY <1>2, <3>1, AddSourceType
  <2> QED BY <2>1
<1>4. \A a \in V, i \in 1..n : step[<<a, i>>] = AddSource(a, prompt[i])
  OBVIOUS
<1> HIDE DEF step
<1>5. PICK f \in [0..n -> V] : Iterates(f, n, <<>>, step)
  BY <1>1, <1>3, IteratesExist
<1>6. f = Def(f)
  <2>1. \A i \in 1..n : f[i - 1] \in V
    BY <1>1
  <2>2. ASSUME NEW i \in 0..n
        PROVE  f[i] = IF i = 0 THEN <<>> ELSE AddSource(f[i - 1], prompt[i])
    <3>1. f[i] = IF i = 0 THEN <<>> ELSE step[<<f[i - 1], i>>]
      BY <1>5 DEF Iterates
    <3>2. i # 0 => i \in 1..n
      BY <1>1
    <3> QED BY <1>4, <2>1, <3>1, <3>2
  <2> QED BY <2>2
<1> DEFINE g == Citing(prompt)
<1>7. g = Def(g)
  BY <1>6, Zenon DEF Citing
<1> HIDE DEF g
<1>8. /\ g[0] = <<>>
      /\ \A i \in 1..n : g[i] = AddSource(g[i - 1], prompt[i])
  BY <1>1, <1>7
<1>9. g = [i \in 0..n |-> g[i]]
  BY <1>7
<1>10. g \in [0..n -> V]
  <2>1. Computes(g, n, <<>>, step, V)
    BY <1>4, <1>8 DEF Computes
  <2>2. \A i \in 0..n : g[i] \in V
    BY <1>1, <1>3, <2>1, IteratesKeepTo
  <2> QED BY <1>9, <2>2
<1> QED BY <1>8, <1>10 DEF g

\* extract_sources names the place of every chunk once, with the score of the first
\* chunk from there: by induction over the prompt.
LEMMA SourcesCite ==
    ASSUME NEW prompt \in Seq(Chunk)
    PROVE  SourcesOf(prompt) \in Seq(Source) /\ CitesPrompt(SourcesOf(prompt), prompt)
<1> DEFINE n == Len(prompt)
           g == Citing(prompt)
           S == {m \in 0..n : CitesUpTo(g[m], prompt, m)}
<1>1. /\ n \in Nat /\ g[0] = <<>> /\ \A m \in 0..n : g[m] \in Seq(Source)
      /\ \A m \in 1..n : g[m] = AddSource(g[m - 1], prompt[m])
  <2>1. /\ g \in [0..n -> Seq(Source)] /\ g[0] = <<>>
        /\ \A m \in 1..n : g[m] = AddSource(g[m - 1], prompt[m])
    BY CitingIs, Zenon
  <2>2. n \in Nat
    OBVIOUS
  <2> HIDE DEF g
  <2> QED BY <2>1, <2>2
<1> HIDE DEF g
<1>2. 0 \in S
  BY <1>1 DEF CitesUpTo
<1>3. ASSUME NEW m \in 1..n, m - 1 \in S PROVE m \in S
  <2>1. m - 1 \in 0..n /\ m \in 0..n /\ CitesUpTo(g[m - 1], prompt, m - 1)
    BY <1>3
  <2>2. g[m - 1] \in Seq(Source)
    BY <1>1, <2>1
  <2>3. CitesUpTo(AddSource(g[m - 1], prompt[m]), prompt, m)
    BY <2>1, <2>2, AddSourceCites
  <2> QED BY <1>1, <2>1, <2>3
<1>4. CitesUpTo(g[n], prompt, n)
  <2>1. \A m \in 0..n : m \in S
    <3> HIDE DEF S
    <3> QED BY <1>1, <1>2, <1>3, CountUp
  <2> QED BY <1>1, <2>1
<1>5. PICK sources \in Seq(Source) : sources = SourcesOf(prompt)
  BY <1>1 DEF SourcesOf, g
<1>6. CitesUpTo(sources, prompt, n)
  BY <1>4, <1>5 DEF SourcesOf, g
<1>7. DOMAIN prompt = 1..n
  OBVIOUS
<1>8. ASSUME NEW i \in 1..n
      PROVE  Cardinality({k \in DOMAIN sources :
                            sources[k].place = prompt[i].result.place}) = 1
  <2>1. PICK k \in DOMAIN sources : sources[k].place = prompt[i].result.place
    BY <1>6 DEF CitesUpTo
  <2>2. {l \in DOMAIN sources : sources[l].place = prompt[i].result.place} = {k}
    BY <1>6, <2>1 DEF CitesUpTo
  <2> QED BY <2>2, FS_Singleton
<1>9. CitesPrompt(sources, prompt)
  <2>1. \A k \in DOMAIN sources : \E i \in DOMAIN prompt :
          /\ sources[k] = [place |-> prompt[i].result.place, score |-> prompt[i].result.score]
          /\ \A j \in 1..(i - 1) : prompt[j].result.place # sources[k].place
    BY <1>6, <1>7, Zenon DEF CitesUpTo
  <2> QED BY <1>7, <1>8, <2>1 DEF CitesPrompt
<1> QED BY <1>5, <1>9

--------------------------------------------------------------------------
\* Sorting

\* i is placed before j: it has more, or as much and was there first.
Before(score, i, j) ==
    \/ score[i] > score[j]
    \/ score[i] = score[j] /\ i < j

\* at says where each element of a sorted list was.
Sorts(at, n, score) ==
    /\ at \in [1..n -> 1..n]
    /\ \A i \in 1..n : \E k \in 1..n : at[k] = i
    /\ \A k, l \in 1..n : k < l => Before(score, at[k], at[l])

RankOf(score, n, i) == Cardinality({j \in 1..n : Before(score, j, i)}) + 1

SortedOn(list, D, score) ==
    [k \in D |-> list[CHOOSE i \in D : Cardinality({j \in D : Before(score, j, i)}) + 1 = k]]

\* The rank is a number from 1 to n, and a different one for each element.
LEMMA RanksAreDifferent ==
    ASSUME NEW n \in Nat, NEW score \in [1..n -> Nat]
    PROVE  /\ \A i \in 1..n : RankOf(score, n, i) \in 1..n
           /\ \A i, j \in 1..n : Before(score, i, j) => RankOf(score, n, i) < RankOf(score, n, j)
           /\ \A i, j \in 1..n : i = j \/ Before(score, i, j) \/ Before(score, j, i)
<1> DEFINE B(i) == {j \in 1..n : Before(score, j, i)}
<1>1. \A i \in 1..n : score[i] \in Nat /\ i \in Nat
  OBVIOUS
<1>2. \A i, j \in 1..n : i = j \/ Before(score, i, j) \/ Before(score, j, i)
  BY <1>1 DEF Before
<1>3. \A i \in 1..n : i \notin B(i)
  BY <1>1 DEF Before
<1>4. ASSUME NEW i \in 1..n, NEW j \in 1..n, NEW k \in 1..n,
             Before(score, i, j), Before(score, j, k)
      PROVE  Before(score, i, k)
  BY <1>1, <1>4 DEF Before
<1>5. IsFiniteSet(1..n) /\ Cardinality(1..n) = n
  <2>1. Cardinality(1..n) = IF 1 > n THEN 0 ELSE n - 1 + 1
    BY FS_Interval
  <2> QED BY <2>1, FS_Interval
<1>6. \A i \in 1..n : IsFiniteSet(B(i)) /\ Cardinality(B(i)) \in Nat
  <2>1. \A i \in 1..n : B(i) \in SUBSET (1..n)
    OBVIOUS
  <2> HIDE DEF B
  <2> QED BY <1>5, <2>1, FS_Subset, FS_CardinalityType
<1>7. ASSUME NEW i \in 1..n, NEW S \in SUBSET (1..n), i \in S, B(i) \subseteq S
      PROVE  Cardinality(S) \in Nat /\ Cardinality(B(i)) < Cardinality(S)
  <2>1. B(i) \in SUBSET (S \ {i})
    BY <1>3, <1>7
  <2>2. IsFiniteSet(S) /\ Cardinality(S) \in Nat
    BY <1>5, FS_Subset, FS_CardinalityType
  <2>3. IsFiniteSet(S \ {i}) /\ Cardinality(S \ {i}) = Cardinality(S) - 1
    BY <1>7, <2>2, FS_RemoveElement
  <2> HIDE DEF B
  <2>4. Cardinality(B(i)) <= Cardinality(S \ {i})
    BY <2>1, <2>3, FS_Subset
  <2> QED BY <1>6, <2>2, <2>3, <2>4
<1>8. ASSUME NEW i \in 1..n PROVE RankOf(score, n, i) \in 1..n
  <2>1. Cardinality(B(i)) \in Nat /\ RankOf(score, n, i) = Cardinality(B(i)) + 1
    BY <1>6 DEF RankOf
  <2>2. Cardinality(B(i)) < n
    BY <1>5, <1>7
  <2> HIDE DEF B
  <2> QED BY <2>1, <2>2
<1>9. ASSUME NEW i \in 1..n, NEW j \in 1..n, Before(score, i, j)
      PROVE  RankOf(score, n, i) < RankOf(score, n, j)
  <2>1. i \in B(j) /\ B(i) \subseteq B(j) /\ B(j) \in SUBSET (1..n)
    BY <1>4, <1>9
  <2>2. Cardinality(B(i)) < Cardinality(B(j))
    <3> HIDE DEF B
    <3> QED BY <1>7, <2>1
  <2>3. /\ Cardinality(B(i)) \in Nat /\ RankOf(score, n, i) = Cardinality(B(i)) + 1
        /\ Cardinality(B(j)) \in Nat /\ RankOf(score, n, j) = Cardinality(B(j)) + 1
    BY <1>6 DEF RankOf
  <2> HIDE DEF B
  <2> QED BY <2>2, <2>3
<1> QED BY <1>2, <1>8, <1>9

\* Sorted puts every element of the list in its place: no two have one rank, so
\* every rank is taken.
LEMMA SortedSorts ==
    ASSUME NEW S, NEW list \in Seq(S), NEW score \in [1..Len(list) -> Nat]
    PROVE  \E at : /\ Sorts(at, Len(list), score)
                   /\ Sorted(list, score) = [k \in 1..Len(list) |-> list[at[k]]]
<1> DEFINE n == Len(list)
           D == 1..n
           rank == [i \in D |-> RankOf(score, n, i)]
           at == [k \in D |-> CHOOSE i \in D : rank[i] = k]
<1>1. n \in Nat /\ DOMAIN list = D
  OBVIOUS
<1> HIDE DEF n
<1>2. /\ \A i \in D : rank[i] \in D
      /\ \A i, j \in D : Before(score, i, j) => rank[i] < rank[j]
      /\ \A i, j \in D : i = j \/ Before(score, i, j) \/ Before(score, j, i)
  BY <1>1, RanksAreDifferent DEF n
<1>3. rank \in Injection(D, D)
  <2>1. rank \in [D -> D]
    BY <1>2
  <2> HIDE DEF rank
  <2>2. \A i \in D : rank[i] \in Int
    BY <1>1, <1>2
  <2>3. \A i, j \in D : rank[i] = rank[j] => i = j
    BY <1>2, <2>2
  <2> QED BY <2>1, <2>3, Fun_IsInj
<1>4. \A k \in D : \E i \in D : rank[i] = k
  <2>1. IsFiniteSet(D)
    BY <1>1, FS_Interval
  <2> HIDE DEF rank
  <2>2. rank \in Surjection(D, D)
    BY <1>3, <2>1, FS_Injection
  <2> QED BY <2>2 DEF Surjection
<1> HIDE DEF rank
<1>5. \A k \in D : at[k] \in D /\ rank[at[k]] = k
  BY <1>4
<1>6. Sorted(list, score) = [k \in D |-> list[at[k]]]
  <2>1. Sorted(list, score) = [k \in D |-> list[CHOOSE i \in D : RankOf(score, n, i) = k]]
    <3>1. Sorted(list, score) = SortedOn(list, DOMAIN list, score)
      BY DEF Sorted, SortedOn, Before
    <3>2. Sorted(list, score) = SortedOn(list, 1..n, score)
      BY <1>1, <3>1
    <3> QED BY <3>2 DEF SortedOn, RankOf
  <2>2. ASSUME NEW k \in D
        PROVE  (CHOOSE i \in D : RankOf(score, n, i) = k) = at[k]
    BY DEF rank
  <2> HIDE DEF at
  <2> QED BY <2>1, <2>2
<1> HIDE DEF at
<1>7. at \in [D -> D]
  BY <1>5 DEF at
<1>8. ASSUME NEW i \in D PROVE \E k \in D : at[k] = i
  <2>1. rank[i] \in D /\ rank[at[rank[i]]] = rank[i] /\ at[rank[i]] \in D
    BY <1>2, <1>5
  <2>2. PICK j \in D : j = at[rank[i]]
    BY <2>1
  <2>3. rank[j] = rank[i]
    BY <2>1, <2>2
  <2>4. j = i
    BY <1>3, <2>3 DEF Injection, IsInjective
  <2> QED BY <2>1, <2>2, <2>4
<1>9. ASSUME NEW k \in D, NEW l \in D, k < l PROVE Before(score, at[k], at[l])
  <2>1. at[k] \in D /\ at[l] \in D /\ rank[at[k]] = k /\ rank[at[l]] = l
    BY <1>5
  <2>2. k \in Int /\ l \in Int /\ ~(l < k) /\ k # l
    BY <1>1, <1>9
  <2>3. at[k] # at[l] /\ ~Before(score, at[l], at[k])
    BY <1>2, <2>1, <2>2
  <2> QED BY <1>2, <2>1, <2>3
<1>10. Sorts(at, n, score)
  BY <1>7, <1>8, <1>9 DEF Sorts
<1> QED BY <1>6, <1>10 DEF n

\* A sorted list has the elements' type and the length of the list.
LEMMA SortedType ==
    ASSUME NEW S, NEW list \in Seq(S), NEW score \in [1..Len(list) -> Nat]
    PROVE  Sorted(list, score) \in Seq(S) /\ Len(Sorted(list, score)) = Len(list)
<1>1. PICK at : /\ Sorts(at, Len(list), score)
                /\ Sorted(list, score) = [k \in 1..Len(list) |-> list[at[k]]]
  BY SortedSorts
<1>2. Len(list) \in Nat /\ \A k \in 1..Len(list) : list[at[k]] \in S
  BY <1>1 DEF Sorts
<1> QED BY <1>1, <1>2

\* Take cuts a list and leaves the rest in its place.
LEMMA TakeIs ==
    ASSUME NEW S, NEW list \in Seq(S), NEW k \in Nat
    PROVE  /\ Take(list, k) \in Seq(S)
           /\ Len(Take(list, k)) = IF k < Len(list) THEN k ELSE Len(list)
           /\ \A i \in 1..Len(Take(list, k)) : Take(list, k)[i] = list[i]
<1> DEFINE m == IF k < Len(list) THEN k ELSE Len(list)
<1>1. m \in 0..Len(list) /\ Take(list, k) = SubSeq(list, 1, m)
  BY DEF Take
<1> HIDE DEF m
<1>2. /\ SubSeq(list, 1, m) \in Seq(S) /\ Len(SubSeq(list, 1, m)) = m
      /\ \A i \in 1..m : SubSeq(list, 1, m)[i] = list[i]
  BY <1>1
<1> QED BY <1>1, <1>2 DEF m

\* The fusion makes a list of chunks.
LEMMA FuseType ==
    ASSUME NEW vector \in Seq(Result), NEW keyword \in Seq(Result)
    PROVE  Fuse(vector, keyword) \in Seq(Chunk)
<1>1. ASSUME NEW merged \in Seq(Chunk), NEW list \in Seq(Result)
      PROVE  AddAll(merged, list) \in Seq(Chunk)
  <2>1. Merging(merged, list) \in [0..Len(list) -> Seq(Chunk)]
    BY MergingIs
  <2>2. Len(list) \in 0..Len(list)
    OBVIOUS
  <2> QED BY <2>1, <2>2 DEF AddAll
<1>2. <<>> \in Seq(Chunk)
  OBVIOUS
<1> QED BY <1>1, <1>2 DEF Fuse

Scores(merged) == [i \in DOMAIN merged |-> merged[i].rrf]

\* The scores of chunks are numbers.
LEMMA ScoresType ==
    ASSUME NEW merged \in Seq(Chunk)
    PROVE  Scores(merged) \in [1..Len(merged) -> Nat]
<1>1. DOMAIN merged = 1..Len(merged) /\ \A i \in 1..Len(merged) : merged[i] \in Chunk
  OBVIOUS
<1>2. \A i \in 1..Len(merged) : merged[i].rrf \in Nat
  BY <1>1 DEF Chunk
<1> QED BY <1>1, <1>2 DEF Scores

\* The search returns a list of chunks.
LEMMA RankedType ==
    ASSUME NEW vector \in Seq(Result), NEW keyword \in Seq(Result), NEW topK \in Nat
    PROVE  Ranked(vector, keyword, topK) \in Seq(Chunk)
<1>1. PICK merged \in Seq(Chunk) : merged = Fuse(vector, keyword)
  BY FuseType
<1>2. Sorted(merged, Scores(merged)) \in Seq(Chunk)
  BY ScoresType, SortedType
<1> QED BY <1>1, <1>2, TakeIs DEF Ranked, Scores

\* A chunk keeps its type with the score of the cross-encoder.
LEMMA RescoredType ==
    ASSUME NEW chunk \in Chunk, NEW relevance \in Relevances
    PROVE  Rescored(chunk, relevance) \in Chunk
<1> DEFINE s == <<"relevance", relevance>>
           r == [chunk.result EXCEPT !.score = s]
<1>1. s \in Score
  BY DEF Score
<1> HIDE DEF s
<1>2. r \in Result
  BY <1>1 DEF Chunk, Result
<1>3. Rescored(chunk, relevance) = [chunk EXCEPT !.result = r]
  BY DEF Rescored, Chunk, Result, s
<1> HIDE DEF r
<1> QED BY <1>2, <1>3 DEF Chunk

\* The reranker returns a list of chunks, no more than asked for.
LEMMA RerankedType ==
    ASSUME NEW ranked \in Seq(Chunk), NEW finalK \in Nat, NEW loaded \in BOOLEAN,
           NEW relevance \in [DOMAIN ranked -> Relevances]
    PROVE  /\ Reranked(ranked, finalK, loaded, relevance) \in Seq(Chunk)
           /\ Len(Reranked(ranked, finalK, loaded, relevance)) <= finalK
<1>1. CASE Len(ranked) <= finalK
  BY <1>1 DEF Reranked
<1>2. CASE ~(Len(ranked) <= finalK) /\ ~loaded
  <2>1. Reranked(ranked, finalK, loaded, relevance) = Take(ranked, finalK)
    BY <1>2 DEF Reranked
  <2>2. finalK < Len(ranked)
    BY <1>2
  <2> QED BY <2>1, <2>2, TakeIs
<1>3. CASE ~(Len(ranked) <= finalK) /\ loaded
  <2> DEFINE again == [i \in DOMAIN ranked |-> Rescored(ranked[i], relevance[i])]
  <2>1. DOMAIN ranked = 1..Len(ranked) /\ Len(ranked) \in Nat /\ finalK < Len(ranked)
    BY <1>3
  <2>2. \A i \in 1..Len(ranked) : Rescored(ranked[i], relevance[i]) \in Chunk
    <3>1. \A i \in 1..Len(ranked) : ranked[i] \in Chunk /\ relevance[i] \in Relevances
      BY <2>1
    <3> QED BY <3>1, RescoredType
  <2>3. again \in Seq(Chunk) /\ Len(again) = Len(ranked)
    BY <2>1, <2>2
  <2>4. Reranked(ranked, finalK, loaded, relevance) = Take(Sorted(again, relevance), finalK)
    BY <1>3 DEF Reranked
  <2>5. relevance \in [1..Len(again) -> Nat]
    BY <2>1, <2>3 DEF Relevances
  <2> HIDE DEF again
  <2>6. PICK s \in Seq(Chunk) : s = Sorted(again, relevance) /\ Len(s) = Len(ranked)
    BY <2>3, <2>5, SortedType
  <2>7. Take(s, finalK) \in Seq(Chunk) /\ Len(Take(s, finalK)) = finalK
    BY <2>1, <2>6, TakeIs
  <2> QED BY <2>4, <2>6, <2>7
<1> QED BY <1>1, <1>2, <1>3

--------------------------------------------------------------------------
\* The types of a request

Run == [pc : {"idle", "answered", "failed"} \cup Waiting \cup Searching,
        scope : Scopes \cup {{}}, age : Ages, vector : Seq(Result), pending : Seq(Docs),
        tokens : BOOLEAN, keyword : Seq(Result), prompt : Seq(Chunk),
        sources : Seq(Source), relevant : SUBSET Docs, always : SUBSET Keys,
        offList : SUBSET Docs]

Early == {"embed", "search", "scan"} \cup Reading

\* What a request makes of its lists.
Made(r) ==
    /\ r.pc = "rerank" => r.prompt = Ranked(r.vector, r.keyword, TopK)
    /\ r.pc \notin {"rank", "rerank"} => \E k \in FinalKs : Len(r.prompt) <= k
    /\ r.pc \in Early \cup {"rank"} => r.prompt = <<>>
    /\ r.pc = "log" => r.sources = SourcesOf(r.prompt)

Entry == [left : 0..CacheTTL, age : Ages]

QueryTypes ==
    /\ run \in [Runs -> Run]
    /\ \A q \in Runs : Made(run[q])
    /\ cache \in [Scopes -> Entry]

\* An empty prompt is short enough.
LEMMA EmptyPrompt == Len(<<>>) = 0 /\ \E k \in FinalKs : Len(<<>>) <= k
<1>1. FinalKs # {} /\ FinalKs \subseteq Nat
  BY QueryAssumption DEF QueryAssumption
<1>2. PICK k \in FinalKs : k \in Nat
  BY <1>1
<1>3. Len(<<>>) = 0 /\ 0 <= k
  BY <1>2
<1> QED BY <1>2, <1>3

\* The constants of a request are numbers.
LEMMA QueryNumbersToo ==
    /\ TopK \in Nat /\ TopKVector \in Nat /\ FinalKs \subseteq Nat
    /\ 0 \in Ages /\ 0 \in 0..CacheTTL /\ CacheTTL \in 0..CacheTTL
<1>1. TopK \in Nat /\ TopKVector \in Nat /\ FinalKs \subseteq Nat
  BY QueryAssumption DEF QueryAssumption
<1> QED BY <1>1, QueryNumbers DEF Ages

\* The requests that begin or end are well typed.
LEMMA IdleTypes ==
    /\ Idle \in Run /\ Made(Idle)
    /\ \A S \in Scopes : \A h \in SUBSET Docs :
         LET r == [Idle EXCEPT !.pc = "embed", !.scope = S, !.offList = h]
         IN  r \in Run /\ Made(r)
    /\ \A a \in Ages :
         LET r == [Idle EXCEPT !.pc = "answered", !.age = a] IN r \in Run /\ Made(r)
    /\ LET r == [Idle EXCEPT !.pc = "failed"] IN r \in Run /\ Made(r)
<1>1. /\ {} \in Scopes \cup {{}} /\ 0 \in Ages /\ {} \in SUBSET Docs /\ {} \in SUBSET Keys
      /\ <<>> \in Seq(Result) /\ <<>> \in Seq(Docs) /\ <<>> \in Seq(Chunk) /\ <<>> \in Seq(Source)
  BY QueryNumbersToo
<1>2. Idle \in Run
  BY <1>1 DEF Idle, Run
<1>3. Idle.pc = "idle" /\ Idle.prompt = <<>>
  BY DEF Idle
<1> HIDE DEF Idle
<1> QED BY <1>2, <1>3, EmptyPrompt DEF Run, Made, Waiting, Searching, Early, Reading

\* A step that only changes one request, and leaves it well typed.
LEMMA BecomeKeepsTypes ==
    ASSUME QueryTypes, NEW q \in Runs, NEW r \in Run, Made(r), Become(q, r),
           cache' \in [Scopes -> Entry]
    PROVE  QueryTypes'
<1>1. run \in [Runs -> Run] /\ \A p \in Runs : Made(run[p])
  BY DEF QueryTypes
<1>2. run' \in [Runs -> Run] /\ \A p \in Runs : run'[p] = IF p = q THEN r ELSE run[p]
  BY <1>1 DEF Become
<1>3. \A p \in Runs : Made(run'[p])
  BY <1>1, <1>2
<1> QED BY <1>2, <1>3 DEF QueryTypes, Made, Run, Entry

\* The fields of a well-typed request.
LEMMA RunFields ==
    ASSUME QueryTypes, NEW q \in Runs
    PROVE  /\ run[q] \in Run /\ Made(run[q])
           /\ run[q].vector \in Seq(Result) /\ run[q].keyword \in Seq(Result)
           /\ run[q].prompt \in Seq(Chunk) /\ run[q].always \in SUBSET Keys
           /\ run[q].age \in Ages /\ run[q].scope \in Scopes \cup {{}}
BY DEF QueryTypes, Run

\* The steps of the search keep the types.
LEMMA EarlyStepsKeepTypes ==
    ASSUME QueryTypes, IndexTypeOK, SearchInv, NEW q \in Runs,
           \/ Embed(q) \/ VectorSearch(q) \/ Scan(q) \/ GetTokens(q) \/ GetChunks(q)
           \/ EndOfScan(q)
    PROVE  QueryTypes'
<1>0. /\ run[q] \in Run /\ Made(run[q]) /\ SearchKept(run[q], keys)
      /\ cache \in [Scopes -> Entry]
  BY RunFields DEF SearchInv, QueryTypes
<1>c. UNCHANGED cache
  BY DEF Embed, VectorSearch, Scan, GetTokens, GetChunks, EndOfScan
<1>d. cache' \in [Scopes -> Entry]
  BY <1>0, <1>c
<1>k. \E k \in FinalKs : Len(<<>>) <= k
  BY EmptyPrompt
<1>s. ASSUME NEW r \in Run, Made(r), Become(q, r) PROVE QueryTypes'
  BY <1>d, <1>s, BecomeKeepsTypes
<1>e. ASSUME NEW r \in Run, run[q].pc \in Early, r.pc \in Early, r.prompt = run[q].prompt
      PROVE  Made(r)
  BY <1>0, <1>e, EmptyPrompt DEF Made, Early, Reading
<1>1. ASSUME Embed(q) PROVE QueryTypes'
  <2> DEFINE r == [run[q] EXCEPT !.pc = "search"]
  <2>1. run[q].pc \in Early /\ Become(q, r)
    BY <1>1 DEF Embed, Early
  <2>2. r \in Run /\ r.pc \in Early /\ r.prompt = run[q].prompt
    BY <1>0 DEF Run, Searching, Early, Reading
  <2> QED BY <1>s, <1>e, <2>1, <2>2
<1>2. ASSUME VectorSearch(q) PROVE QueryTypes'
  <2> DEFINE near == {p \in points : p.doc \in run[q].scope}
  <2>1. /\ run[q].pc \in Early
        /\ \E hits \in Orders(near, TopKVector) \cup {<<>>} :
             Become(q, [run[q] EXCEPT
               !.pc = "scan",
               !.vector = [i \in DOMAIN hits |-> ResultOf("cosine", hits[i].doc, hits[i].n)]])
    BY <1>2 DEF VectorSearch, Early
  <2>2. near \subseteq Point /\ IsFiniteSet(near)
    <3>1. near \in SUBSET Point
      BY DEF IndexTypeOK
    <3> HIDE DEF near
    <3> QED BY <3>1, PointsAreFinite, FS_Subset
  <2> HIDE DEF near
  <2>3. PICK hits \in Orders(near, TopKVector) \cup {<<>>} :
          Become(q, [run[q] EXCEPT
            !.pc = "scan",
            !.vector = [i \in DOMAIN hits |-> ResultOf("cosine", hits[i].doc, hits[i].n)]])
    BY <2>1
  <2>4. hits \in Seq(near)
    <3>1. hits \in Orders(near, TopKVector) => hits \in Seq(near)
      BY <2>2, OrdersAreLists, QueryNumbersToo
    <3>2. <<>> \in Seq(near)
      OBVIOUS
    <3> QED BY <3>1, <3>2
  <2> DEFINE v == [i \in DOMAIN hits |-> ResultOf("cosine", hits[i].doc, hits[i].n)]
             r == [run[q] EXCEPT !.pc = "scan", !.vector = v]
  <2>5. \A p \in Point : ResultOf("cosine", p.doc, p.n) \in Result
    BY ResultsAreResults DEF Point
  <2>6. v \in Seq(Result)
    <3>1. /\ DOMAIN hits = 1..Len(hits) /\ Len(hits) \in Nat
          /\ \A i \in 1..Len(hits) : hits[i] \in Point
      BY <2>2, <2>4
    <3> QED BY <2>5, <3>1
  <2> HIDE DEF v
  <2>7. r \in Run /\ r.pc \in Early /\ r.prompt = run[q].prompt
    BY <1>0, <2>6 DEF Run, Searching, Early, Reading
  <2>8. Become(q, r)
    BY <2>3 DEF v
  <2> HIDE DEF r
  <2> QED BY <1>s, <1>e, <2>1, <2>7, <2>8
<1>3. ASSUME Scan(q) PROVE QueryTypes'
  <2>1. run[q].pc \in {"scan", "scanning"} /\ run[q].pc \in Early
    BY <1>3 DEF Scan, Early, Reading
  <2>2. PICK r0 \in Run : ScanCall(q, r0) /\ r0.prompt = run[q].prompt
    <3>1. CASE run[q].pc = "scan"
      <4>1. PICK relevant \in SUBSET Scorable :
              ScanCall(q, [run[q] EXCEPT !.relevant = relevant, !.always = keys])
        BY <1>3, <3>1 DEF Scan
      <4>2. relevant \in SUBSET Docs /\ keys \in SUBSET Keys
        BY DEF Scorable, IndexTypeOK
      <4> DEFINE r0 == [run[q] EXCEPT !.relevant = relevant, !.always = keys]
      <4>3. r0 \in Run /\ r0.prompt = run[q].prompt
        BY <1>0, <4>2 DEF Run
      <4> HIDE DEF r0
      <4> QED BY <4>1, <4>3 DEF r0
    <3>2. CASE run[q].pc = "scanning"
      BY <1>0, <1>3, <3>2 DEF Scan
    <3> QED BY <2>1, <3>1, <3>2
  <2>3. MaxScanned - Len(r0.pending) \in Int /\ r0.pending \in Seq(Docs) /\ <<>> \in Seq(Docs)
    BY QueryAssumption DEF Run, QueryAssumption
  <2>4. ASSUME NEW pc \in {"scanning", "tokens"}, NEW list \in Seq(Docs),
               Become(q, [r0 EXCEPT !.pc = pc, !.pending = list])
        PROVE  QueryTypes'
    <3> DEFINE r == [r0 EXCEPT !.pc = pc, !.pending = list]
    <3>1. r \in Run /\ r.pc = pc /\ r.prompt = run[q].prompt
      BY <2>2, <2>4 DEF Run, Searching, Reading
    <3>2. Become(q, r)
      BY <2>4
    <3> HIDE DEF r
    <3>3. r.pc \in Early
      BY <3>1 DEF Early, Reading
    <3> QED BY <1>s, <1>e, <2>1, <3>1, <3>2, <3>3
  <2>5. ASSUME Become(q, [r0 EXCEPT !.pc = "tokens", !.pending = <<>>, !.always = {}])
        PROVE  QueryTypes'
    <3> DEFINE r == [r0 EXCEPT !.pc = "tokens", !.pending = <<>>, !.always = {}]
    <3>1. r \in Run /\ r.pc = "tokens" /\ r.prompt = run[q].prompt
      BY <2>2, <2>3 DEF Run, Searching, Reading
    <3>2. Become(q, r)
      BY <2>5
    <3> HIDE DEF r
    <3>3. r.pc \in Early
      BY <3>1 DEF Early, Reading
    <3> QED BY <1>s, <1>e, <2>1, <3>1, <3>2, <3>3
  <2>6. ASSUME NEW batch \in SeqOf(TokenDocs(keys), MaxScanned - Len(r0.pending))
        PROVE  r0.pending \o batch \in Seq(Docs)
    BY <2>3, <2>6, BatchesAreLists
  <2> QED BY <2>2, <2>4, <2>5, <2>6 DEF ScanCall
<1>t. ASSUME run[q].pc \in Early, run[q].pending \in Seq(Docs), run[q].pending # <<>>,
             NEW k \in Seq(Result), NEW S \in SUBSET Keys,
             Become(q, [run[q] EXCEPT !.pc = "tokens", !.pending = Tail(@), !.tokens = FALSE,
                                      !.keyword = k, !.always = S])
      PROVE  QueryTypes'
  <2> DEFINE t == Tail(run[q].pending)
             r == [run[q] EXCEPT !.pc = "tokens", !.pending = t, !.tokens = FALSE,
                                 !.keyword = k, !.always = S]
  <2>1. t \in Seq(Docs)
    BY <1>t, TailOfList
  <2>2. Become(q, r)
    BY <1>t
  <2> HIDE DEF t
  <2>3. r \in Run /\ r.pc \in Early /\ r.prompt = run[q].prompt
    BY <1>0, <2>1 DEF Run, Searching, Early, Reading
  <2> HIDE DEF r
  <2> QED BY <1>s, <1>e, <1>t, <2>2, <2>3
<1>f. /\ run[q].keyword \in Seq(Result) /\ run[q].always \in SUBSET Keys
      /\ run[q].pending \in Seq(Docs) /\ run[q].tokens \in BOOLEAN
  BY <1>0 DEF Run
<1>g. /\ run[q].pc = "chunks" => run[q].pending # <<>>
      /\ DOMAIN run[q] = {"pc", "scope", "age", "vector", "pending", "tokens", "keyword",
                          "prompt", "sources", "relevant", "always", "offList"}
  BY <1>0 DEF SearchKept, Run
<1>4. ASSUME run[q].pc \in Early, run[q].pending # <<>>, SkipDoc(q) PROVE QueryTypes'
  <2> DEFINE S == run[q].always \ ({"tokens", "chunks"} \X {Head(run[q].pending)})
  <2>1. [run[q] EXCEPT !.pc = "tokens", !.pending = Tail(@), !.tokens = FALSE, !.always = S]
        = [run[q] EXCEPT !.pc = "tokens", !.pending = Tail(@), !.tokens = FALSE,
                         !.keyword = run[q].keyword, !.always = S]
    BY <1>0 DEF Run
  <2>2. Become(q, [run[q] EXCEPT !.pc = "tokens", !.pending = Tail(@), !.tokens = FALSE,
                                 !.always = S])
    BY <1>4 DEF SkipDoc
  <2>3. S \in SUBSET Keys
    BY <1>f
  <2> HIDE DEF S
  <2> QED BY <1>4, <1>f, <1>t, <2>1, <2>2, <2>3
<1>5. ASSUME GetTokens(q) PROVE QueryTypes'
  <2>1. run[q].pc \in Early /\ run[q].pending # <<>>
    BY <1>5 DEF GetTokens, Early, Reading
  <2>2. ASSUME Become(q, [run[q] EXCEPT
                 !.pc = "chunks", !.tokens = <<"tokens", Head(run[q].pending)>> \in keys])
        PROVE  QueryTypes'
    <3> DEFINE b == <<"tokens", Head(run[q].pending)>> \in keys
    <3>1. b \in BOOLEAN
      OBVIOUS
    <3> HIDE DEF b
    <3> DEFINE r == [run[q] EXCEPT !.pc = "chunks", !.tokens = b]
    <3>2. Become(q, r)
      BY <2>2 DEF b
    <3>3. r \in Run /\ r.pc \in Early /\ r.prompt = run[q].prompt
      BY <1>0, <3>1 DEF Run, Searching, Early, Reading
    <3> HIDE DEF r
    <3> QED BY <1>s, <1>e, <2>1, <3>2, <3>3
  <2> QED BY <1>4, <1>5, <2>1, <2>2 DEF GetTokens
<1>6. ASSUME GetChunks(q) PROVE QueryTypes'
  <2> DEFINE d == Head(run[q].pending)
             Next1(k) == [run[q] EXCEPT !.pc = "tokens", !.pending = Tail(@), !.tokens = FALSE,
                                        !.keyword = k, !.always = run[q].always]
  <2>1. run[q].pc \in Early /\ run[q].pending # <<>> /\ d \in Docs
    BY <1>6, <1>f, <1>g, TailOfList DEF GetChunks, Early, Reading
  <2>2. ASSUME NEW hits \in Hits(q, d),
               Become(q, [run[q] EXCEPT !.pc = "tokens", !.pending = Tail(@), !.tokens = FALSE,
                                        !.keyword = @ \o hits])
        PROVE  QueryTypes'
    <3>1. PICK k \in Seq(Result) : k = run[q].keyword \o hits
      BY <1>f, <2>1, <2>2, HitsAreAdded
    <3>2. [run[q] EXCEPT !.pc = "tokens", !.pending = Tail(@), !.tokens = FALSE,
                         !.keyword = k] = Next1(k)
      BY <1>0 DEF Run
    <3>3. Become(q, Next1(k))
      BY <2>2, <3>1, <3>2
    <3> QED BY <1>f, <1>t, <2>1, <3>1, <3>3
  <2>3. ASSUME Become(q, [run[q] EXCEPT !.pc = "tokens", !.pending = Tail(@), !.tokens = FALSE])
        PROVE  QueryTypes'
    <3>1. [run[q] EXCEPT !.pc = "tokens", !.pending = Tail(@), !.tokens = FALSE]
            = Next1(run[q].keyword)
      BY <1>0 DEF Run
    <3>2. Become(q, Next1(run[q].keyword))
      BY <2>3, <3>1
    <3> QED BY <1>f, <1>t, <2>1, <3>2
  <2> QED BY <1>4, <1>6, <2>1, <2>2, <2>3 DEF GetChunks
<1>7. ASSUME EndOfScan(q) PROVE QueryTypes'
  <2> DEFINE r == [run[q] EXCEPT !.pc = "rank"]
  <2>1. run[q].pc = "tokens" /\ Become(q, r)
    BY <1>7 DEF EndOfScan
  <2>2. r \in Run /\ r.pc = "rank" /\ r.prompt = run[q].prompt
    BY <1>0 DEF Run, Searching, Reading
  <2>3. run[q].prompt = <<>>
    BY <1>0, <2>1 DEF Made, Early, Reading
  <2>4. Made(r)
    BY <2>2, <2>3 DEF Made
  <2> HIDE DEF r
  <2> QED BY <1>s, <2>1, <2>2, <2>4
<1> QED BY <1>1, <1>2, <1>3, <1>5, <1>6, <1>7

\* The steps from the fusion to the log keep the types.
LEMMA LateStepsKeepTypes ==
    ASSUME QueryTypes, IndexTypeOK, NEW q \in Runs,
           Rank(q) \/ Rerank(q) \/ Generate(q) \/ Log(q)
    PROVE  QueryTypes'
<1>0. /\ run[q] \in Run /\ Made(run[q]) /\ cache \in [Scopes -> Entry]
      /\ run[q].vector \in Seq(Result) /\ run[q].keyword \in Seq(Result)
      /\ run[q].prompt \in Seq(Chunk)
  BY RunFields DEF QueryTypes
<1>c. UNCHANGED cache
  BY DEF Rank, Rerank, Generate, Log
<1>d. cache' \in [Scopes -> Entry]
  BY <1>0, <1>c
<1>s. ASSUME NEW r \in Run, Made(r), Become(q, r) PROVE QueryTypes'
  BY <1>d, <1>s, BecomeKeepsTypes
<1>e. <<>> \in Seq(Result) /\ <<>> \in Seq(Chunk) /\ <<>> \in Seq(Source)
  OBVIOUS
<1>1. ASSUME Rank(q) PROVE QueryTypes'
  <2>1. PICK ranked \in Seq(Chunk) : ranked = Ranked(run[q].vector, run[q].keyword, TopK)
    BY <1>0, RankedType, QueryNumbersToo
  <2> DEFINE r == [run[q] EXCEPT !.pc = "rerank", !.relevant = {}, !.always = {},
                                 !.prompt = ranked]
  <2>2. Become(q, r)
    BY <1>1, <2>1 DEF Rank
  <2>3. /\ r \in Run /\ r.pc = "rerank" /\ r.prompt = ranked
        /\ r.vector = run[q].vector /\ r.keyword = run[q].keyword
    BY <1>0, <2>1 DEF Run, Searching, Reading
  <2> HIDE DEF r
  <2>4. Made(r)
    BY <2>1, <2>3 DEF Made, Early, Reading
  <2> QED BY <1>s, <2>2, <2>3, <2>4
<1>2. ASSUME Rerank(q) PROVE QueryTypes'
  <2>1. PICK finalK \in FinalKs, loaded \in BOOLEAN,
             relevance \in [DOMAIN run[q].prompt -> Relevances] :
          Become(q, [run[q] EXCEPT
            !.pc = "generate", !.vector = <<>>, !.keyword = <<>>,
            !.prompt = Reranked(run[q].prompt, finalK, loaded, relevance)])
    BY <1>2 DEF Rerank
  <2>2. finalK \in Nat
    BY QueryNumbersToo
  <2>3. PICK chosen \in Seq(Chunk) :
          /\ chosen = Reranked(run[q].prompt, finalK, loaded, relevance)
          /\ Len(chosen) <= finalK
    BY <1>0, <2>2, RerankedType
  <2> DEFINE r == [run[q] EXCEPT !.pc = "generate", !.vector = <<>>, !.keyword = <<>>,
                                 !.prompt = chosen]
  <2>4. Become(q, r)
    BY <2>1, <2>3
  <2>5. r \in Run /\ r.pc = "generate" /\ r.prompt = chosen
    BY <1>0, <1>e, <2>3 DEF Run, Waiting
  <2> HIDE DEF r
  <2>6. Made(r)
    BY <2>3, <2>5 DEF Made, Early, Reading
  <2> QED BY <1>s, <2>4, <2>5, <2>6
<1>3. ASSUME Generate(q) PROVE QueryTypes'
  <2>1. run[q].pc = "generate"
    BY <1>3 DEF Generate
  <2>2. \E k \in FinalKs : Len(run[q].prompt) <= k
    BY <1>0, <2>1 DEF Made
  <2>3. ASSUME Become(q, [run[q] EXCEPT
                 !.pc = "log", !.sources = SourcesOf(run[q].prompt), !.offList = {}])
        PROVE  QueryTypes'
    <3>1. PICK sources \in Seq(Source) : sources = SourcesOf(run[q].prompt)
      BY <1>0, SourcesCite
    <3> DEFINE r == [run[q] EXCEPT !.pc = "log", !.sources = sources, !.offList = {}]
    <3>2. Become(q, r)
      BY <2>3, <3>1
    <3>3. /\ r \in Run /\ r.pc = "log" /\ r.prompt = run[q].prompt
          /\ r.sources = SourcesOf(run[q].prompt)
      BY <1>0, <3>1 DEF Run, Waiting
    <3> HIDE DEF r
    <3>4. Made(r)
      BY <2>2, <3>3 DEF Made, Early, Reading
    <3> QED BY <1>s, <3>2, <3>3, <3>4
  <2>4. ASSUME Become(q, [run[q] EXCEPT !.pc = "failed"]) PROVE QueryTypes'
    <3> DEFINE r == [run[q] EXCEPT !.pc = "failed"]
    <3>1. r \in Run /\ r.pc = "failed" /\ r.prompt = run[q].prompt /\ Become(q, r)
      BY <1>0, <2>4 DEF Run
    <3> HIDE DEF r
    <3>2. Made(r)
      BY <2>2, <3>1 DEF Made, Early, Reading
    <3> QED BY <1>s, <3>1, <3>2
  <2> QED BY <1>3, <2>3, <2>4 DEF Generate
<1>4. ASSUME Log(q) PROVE QueryTypes'
  <2> DEFINE r == [run[q] EXCEPT !.pc = "store", !.prompt = <<>>, !.sources = <<>>]
  <2>1. Become(q, r)
    BY <1>4 DEF Log
  <2>2. r \in Run /\ r.pc = "store" /\ r.prompt = <<>>
    BY <1>0, <1>e DEF Run, Waiting
  <2> HIDE DEF r
  <2>3. Made(r)
    BY <2>2, EmptyPrompt DEF Made, Early, Reading
  <2> QED BY <1>s, <2>1, <2>2, <2>3
<1> QED BY <1>1, <1>2, <1>3, <1>4

\* The steps at the cache keep the types.
LEMMA OuterStepsKeepTypes ==
    ASSUME QueryTypes, IndexTypeOK, AgeInv, NEW q \in Runs, Ask(q) \/ Store(q) \/ Leave(q)
    PROVE  QueryTypes'
<1>0. run[q] \in Run /\ Made(run[q]) /\ cache \in [Scopes -> Entry]
  BY RunFields DEF QueryTypes
<1>1. ASSUME Ask(q) PROVE QueryTypes'
  <2>1. PICK scope \in Scopes : LookUp(q, scope)
    BY <1>1 DEF Ask
  <2>2. cache' \in [Scopes -> Entry]
    BY <1>0, <2>1 DEF LookUp
  <2>3. cache[scope].age \in Ages
    BY <1>0 DEF Entry
  <2>4. hidden \in SUBSET Docs
    BY DEF IndexTypeOK
  <2>5. \/ Become(q, [Idle EXCEPT !.pc = "answered", !.age = cache[scope].age])
        \/ Become(q, [Idle EXCEPT !.pc = "embed", !.scope = scope, !.offList = hidden])
        \/ Become(q, [Idle EXCEPT !.pc = "failed"])
    BY <2>1 DEF LookUp, Asked
  <2>6. \E r \in Run : Made(r) /\ Become(q, r)
    BY <2>3, <2>4, <2>5, IdleTypes
  <2> QED BY <2>2, <2>6, BecomeKeepsTypes
<1>2. ASSUME Store(q) PROVE QueryTypes'
  <2> DEFINE e == [left |-> CacheTTL, age |-> run[q].age]
  <2>1. run[q].pc = "store" /\ cache' \in {cache, [cache EXCEPT ![run[q].scope] = e]}
    BY <1>2 DEF Store
  <2>2. e \in Entry
    <3>1. run[q].age \in Ages
      BY <1>0 DEF Run
    <3> QED BY <3>1, QueryNumbersToo DEF Entry
  <2> HIDE DEF e
  <2>3. cache' \in [Scopes -> Entry]
    BY <1>0, <2>1, <2>2
  <2>4. \E pc \in {"answered", "failed"} : Become(q, [run[q] EXCEPT !.pc = pc])
    BY <1>2 DEF Store
  <2>5. ASSUME NEW pc \in {"answered", "failed"} PROVE
          LET r == [run[q] EXCEPT !.pc = pc] IN r \in Run /\ Made(r)
    <3> DEFINE r == [run[q] EXCEPT !.pc = pc]
    <3>1. r \in Run /\ r.pc = pc /\ r.prompt = run[q].prompt
      BY <1>0 DEF Run
    <3>2. \E k \in FinalKs : Len(run[q].prompt) <= k
      BY <1>0, <2>1 DEF Made
    <3> HIDE DEF r
    <3>3. Made(r)
      BY <3>1, <3>2 DEF Made, Early, Reading
    <3> QED BY <3>1, <3>3 DEF r
  <2> QED BY <2>3, <2>4, <2>5, BecomeKeepsTypes
<1>3. ASSUME Leave(q) PROVE QueryTypes'
  BY <1>0, <1>3, IdleTypes, BecomeKeepsTypes DEF Leave
<1> QED BY <1>1, <1>2, <1>3

\* The steps of others keep the types.
LEMMA OthersKeepTypes == ASSUME QueryTypes, OthersStep PROVE QueryTypes'
<1>0. run \in [Runs -> Run] /\ (\A q \in Runs : Made(run[q])) /\ cache' = cache
  BY DEF QueryTypes, OthersStep
<1>1. ASSUME NEW q \in Runs PROVE run'[q] \in Run /\ Made(run'[q])
  <2> DEFINE S == run[q].always \cap keys'
  <2>1. run'[q] \in {run[q], [run[q] EXCEPT !.always = S]}
    BY DEF OthersStep
  <2>2. S \in SUBSET Keys
    BY <1>0 DEF Run
  <2> HIDE DEF S
  <2>3. run[q] \in Run /\ Made(run[q])
    BY <1>0
  <2> DEFINE r == [run[q] EXCEPT !.always = S]
  <2>4. /\ r \in Run /\ r.pc = run[q].pc /\ r.prompt = run[q].prompt
        /\ r.vector = run[q].vector /\ r.keyword = run[q].keyword /\ r.sources = run[q].sources
    BY <2>2, <2>3 DEF Run
  <2> HIDE DEF r
  <2>5. Made(r)
    BY <2>3, <2>4 DEF Made
  <2> QED BY <2>1, <2>3, <2>4, <2>5 DEF r
<1>2. run' = [q \in Runs |-> run'[q]]
  BY DEF OthersStep
<1>3. run' \in [Runs -> Run]
  BY <1>1, <1>2
<1> QED BY <1>0, <1>1, <1>3 DEF QueryTypes, Made, Run, Entry

\* Time keeps the types.
LEMMA TickKeepsTypes == ASSUME QueryTypes, AgeInv, Tick PROVE QueryTypes'
<1>0. /\ run \in [Runs -> Run] /\ (\A q \in Runs : Made(run[q]))
      /\ cache \in [Scopes -> Entry]
  BY DEF QueryTypes
<1>n. MaxRun \in Nat /\ CacheTTL \in Nat
  BY QueryNumbers
<1>1. ASSUME NEW q \in Runs PROVE run'[q] \in Run /\ Made(run'[q])
  <2>1. run[q] \in Run /\ Made(run[q])
    BY <1>0
  <2>2. CASE Active(q)
    <3> DEFINE a == run[q].age + 1
               r == [run[q] EXCEPT !.age = a]
    <3>1. run'[q] = r /\ run[q].age < MaxRun
      BY <2>2 DEF Tick
    <3>2. a \in Ages
      BY <1>n, <2>1, <3>1 DEF Run, Ages
    <3> HIDE DEF a
    <3>3. /\ r \in Run /\ r.pc = run[q].pc /\ r.prompt = run[q].prompt
          /\ r.vector = run[q].vector /\ r.keyword = run[q].keyword /\ r.sources = run[q].sources
      BY <2>1, <3>2 DEF Run
    <3> HIDE DEF r
    <3>4. Made(r)
      BY <2>1, <3>3 DEF Made
    <3> QED BY <3>1, <3>3, <3>4
  <2>3. CASE ~Active(q)
    BY <2>1, <2>3 DEF Tick
  <2> QED BY <2>2, <2>3
<1>2. ASSUME NEW s \in Scopes PROVE Older(cache[s]) \in Entry
  <2>1. /\ cache[s] \in Entry /\ cache[s].left \in 0..CacheTTL /\ cache[s].age \in Nat
        /\ cache[s].left > 0 => cache[s].age + cache[s].left <= CacheTTL + MaxRun
    BY <1>0 DEF Entry, AgeInv, EntryKept
  <2>2. CASE cache[s].left <= 1
    BY <2>2, QueryNumbersToo DEF Older, NoEntry, Entry
  <2>3. CASE ~(cache[s].left <= 1)
    <3>1. cache[s].left - 1 \in 0..CacheTTL /\ cache[s].age + 1 \in Ages
      BY <1>n, <2>1, <2>3 DEF Ages
    <3>2. Older(cache[s]) = [cache[s] EXCEPT !.left = cache[s].left - 1, !.age = cache[s].age + 1]
      BY <2>3 DEF Older
    <3> QED BY <2>1, <3>1, <3>2 DEF Entry
  <2> QED BY <2>2, <2>3
<1>3. cache' \in [Scopes -> Entry]
  BY <1>2 DEF Tick
<1>4. run' = [q \in Runs |-> run'[q]]
  BY DEF Tick
<1>5. run' \in [Runs -> Run]
  BY <1>1, <1>4
<1> QED BY <1>1, <1>3, <1>5 DEF QueryTypes, Made, Run, Entry

\* QueryTypes is an invariant.
LEMMA QueryTypesAreKept == Spec => []QueryTypes
<1>1. Init => QueryTypes
  <2> SUFFICES ASSUME Init PROVE QueryTypes
    OBVIOUS
  <2>1. NoEntry \in Entry
    BY QueryNumbersToo DEF NoEntry, Entry
  <2>2. run = [q \in Runs |-> Idle] /\ cache = [s \in Scopes |-> NoEntry]
    BY DEF Init
  <2>3. Idle \in Run /\ Made(Idle)
    BY IdleTypes
  <2>4. \A q \in Runs : run[q] = Idle
    BY <2>2
  <2>5. run \in [Runs -> Run] /\ cache \in [Scopes -> Entry]
    BY <2>1, <2>2, <2>3
  <2>6. \A q \in Runs : Made(run[q])
    BY <2>3, <2>4
  <2> QED BY <2>5, <2>6 DEF QueryTypes
<1>2. QueryTypes /\ IndexTypes /\ AgeInv /\ SearchInv /\ [Next]_vars => QueryTypes'
  <2> SUFFICES ASSUME QueryTypes, IndexTypes, AgeInv, SearchInv, [Next]_vars PROVE QueryTypes'
    OBVIOUS
  <2>0. IndexTypeOK
    BY DEF IndexTypes
  <2>1. ASSUME UNCHANGED vars PROVE QueryTypes'
    BY <2>1 DEF QueryTypes, Made, Run, Entry, vars
  <2>2. ASSUME NEW q \in Runs, QueryStep(q) PROVE QueryTypes'
    BY <2>0, <2>2, EarlyStepsKeepTypes, LateStepsKeepTypes, OuterStepsKeepTypes DEF QueryStep
  <2> QED BY <2>1, <2>2, OthersKeepTypes, TickKeepsTypes DEF Next
<1>3. Spec => []IndexTypes
  BY IndexesAreShared, IndexTypeCorrect, PTL
<1> QED BY <1>1, <1>2, <1>3, AgesAreKept, SearchIsKept, PTL DEF Spec

\* The indexes, requests and cache entries have their types, and a prompt has at most
\* as many passages as some request asked for.
THEOREM QueryTypesAreCorrect == Spec => []TypeOK
<1>1. ASSUME IndexTypes, QueryTypes PROVE TypeOK
  <2>1. ASSUME NEW q \in Runs
        PROVE  /\ run[q].pc \in {"idle", "answered", "failed"} \cup Waiting \cup Searching
               /\ run[q].scope \in Scopes \cup {{}}
               /\ run[q].age \in Ages
               /\ {run[q].vector, run[q].keyword} \subseteq Seq(Result)
               /\ run[q].pending \in Seq(Docs)
               /\ run[q].prompt \in Seq(Chunk)
               /\ run[q].relevant \cup run[q].offList \subseteq Docs
               /\ run[q].always \subseteq Keys
    BY <1>1 DEF QueryTypes, Run
  <2>2. ASSUME NEW q \in Runs, run[q].pc \notin {"rank", "rerank"}
        PROVE  \E k \in FinalKs : Len(run[q].prompt) <= k
    BY <1>1, <2>2 DEF QueryTypes, Made
  <2>3. IndexTypeOK /\ cache \in [Scopes -> [left : 0..CacheTTL, age : Ages]]
    BY <1>1 DEF IndexTypes, QueryTypes, Entry
  <2> QED BY <2>1, <2>2, <2>3 DEF TypeOK
<1>2. Spec => []IndexTypes
  BY IndexesAreShared, IndexTypeCorrect, PTL
<1> QED BY <1>1, <1>2, QueryTypesAreKept, PTL

\* An answer names the place of each of its passages, once, with the score of the
\* first passage from there, for prompts of any length.
THEOREM AnswersAreCited == Spec => []PassagesAreCited
<1>1. ASSUME QueryTypes, NEW q \in Runs, run[q].pc = "log"
      PROVE  CitesPrompt(run[q].sources, run[q].prompt)
  <2>1. run[q].prompt \in Seq(Chunk) /\ run[q].sources = SourcesOf(run[q].prompt)
    BY <1>1, RunFields DEF Made
  <2> QED BY <2>1, SourcesCite
<1>2. QueryTypes => PassagesAreCited
  BY <1>1 DEF PassagesAreCited
<1> QED BY <1>2, QueryTypesAreKept, PTL

--------------------------------------------------------------------------
\* The fusion

\* Sums is what its definition says.
LEMMA SumsAre ==
    ASSUME NEW list \in Seq(Result), NEW key
    PROVE  /\ Sums(list, key) \in [0..Len(list) -> Nat]
           /\ Sums(list, key)[0] = 0
           /\ \A r \in 1..Len(list) :
                Sums(list, key)[r] =
                Sums(list, key)[r - 1] + (IF list[r].key = key THEN Share(r) ELSE 0)
<1> DEFINE n == Len(list)
           part(r) == IF r \in Occurrences(list, key) THEN Share(r) ELSE 0
           step == [p \in Nat \X (1..n) |-> p[1] + part(p[2])]
           Def(f) == [r \in 0..n |-> IF r = 0 THEN 0 ELSE f[r - 1] + part(r)]
<1>1. n \in Nat /\ DOMAIN list = 1..n
  OBVIOUS
<1>2. \A r \in 1..n : part(r) \in Nat
  <2>1. \A r \in 1..n : Share(r) \in Nat
    BY <1>1, SharesAreNumbers
  <2> QED BY <2>1
<1>e. \A r \in 1..n : part(r) = IF list[r].key = key THEN Share(r) ELSE 0
  BY <1>1 DEF Occurrences
<1> HIDE DEF part
<1>3. step \in [Nat \X (1..n) -> Nat]
  <2>1. ASSUME NEW p \in Nat \X (1..n) PROVE p[1] + part(p[2]) \in Nat
    <3>1. p[1] \in Nat /\ p[2] \in 1..n
      OBVIOUS
    <3> QED BY <1>2, <3>1
  <2> QED BY <2>1
<1>4. \A a \in Nat, r \in 1..n : step[<<a, r>>] = a + part(r)
  OBVIOUS
<1> HIDE DEF step
<1>5. PICK f \in [0..n -> Nat] : Iterates(f, n, 0, step)
  BY <1>1, <1>3, IteratesExist
<1>6. f = Def(f)
  <2>1. \A r \in 1..n : f[r - 1] \in Nat
    BY <1>1
  <2>2. ASSUME NEW r \in 0..n PROVE f[r] = IF r = 0 THEN 0 ELSE f[r - 1] + part(r)
    <3>1. f[r] = IF r = 0 THEN 0 ELSE step[<<f[r - 1], r>>]
      BY <1>5 DEF Iterates
    <3>2. r # 0 => r \in 1..n
      BY <1>1
    <3> QED BY <1>4, <2>1, <3>1, <3>2
  <2> QED BY <2>2
<1> DEFINE g == Sums(list, key)
<1>7. g = Def(g)
  BY <1>6, Zenon DEF Sums, part
<1> HIDE DEF g
<1>8. g[0] = 0 /\ \A r \in 1..n : g[r] = g[r - 1] + part(r)
  BY <1>1, <1>7
<1>9. g = [r \in 0..n |-> g[r]]
  BY <1>7
<1>10. g \in [0..n -> Nat]
  <2>1. Computes(g, n, 0, step, Nat)
    BY <1>4, <1>8 DEF Computes
  <2>2. \A r \in 0..n : g[r] \in Nat
    BY <1>1, <1>3, <2>1, IteratesKeepTo
  <2> QED BY <1>9, <2>2
<1> QED BY <1>8, <1>10, <1>e DEF g

\* merged is what is left of the first m results of all: at[i] is the first place of
\* the key of merged[i], and sums has the scores.
Fused(merged, all, m, sums, at) ==
    /\ merged \in Seq(Chunk)
    /\ at \in [1..Len(merged) -> 1..m]
    /\ \A i \in 1..Len(merged) :
         /\ merged[i].result = all[at[i]]
         /\ merged[i].key = all[at[i]].key
         /\ merged[i].rrf = sums[merged[i].key]
         /\ \A j \in 1..(at[i] - 1) : all[j].key # merged[i].key
    /\ \A i, j \in 1..Len(merged) : i < j => at[i] < at[j]
    /\ \A j \in 1..m : \E i \in 1..Len(merged) : merged[i].key = all[j].key
    /\ \A key \in Key : (\A j \in 1..m : all[j].key # key) => sums[key] = 0

IsFusion(merged, all, m, sums) == \E at : Fused(merged, all, m, sums, at)

\* One result of a list at its rank.
LEMMA AddShareFuses ==
    ASSUME NEW all \in Seq(Result), NEW m \in 1..Len(all), NEW rank \in Nat \ {0},
           NEW merged, NEW sums \in [Key -> Nat], IsFusion(merged, all, m - 1, sums),
           NEW more \in [Key -> Nat],
           \A key \in Key : more[key] = sums[key] + (IF all[m].key = key THEN Share(rank) ELSE 0)
    PROVE  IsFusion(AddShare(merged, all[m], rank), all, m, more)
<1> DEFINE x == all[m]
           n == Len(merged)
<1>1. PICK at : Fused(merged, all, m - 1, sums, at)
  BY DEF IsFusion
<1>2. /\ merged \in Seq(Chunk) /\ n \in Nat /\ DOMAIN merged = 1..n
      /\ at \in [1..n -> 1..(m - 1)]
  BY <1>1 DEF Fused
<1>3. /\ m \in Nat /\ x \in Result /\ x.key \in Key /\ Share(rank) \in Nat
      /\ \A j \in 1..m : j \in 1..(m - 1) \/ j = m
      /\ \A j \in 1..(m - 1) : j \in 1..m /\ j < m
  <2>1. m \in Nat /\ x \in Result /\ Share(rank) \in Nat
    BY SharesAreNumbers
  <2>2. x.key \in Key
    BY <2>1 DEF Result, Key
  <2> QED BY <2>1, <2>2
<1>4. \A i \in 1..n : merged[i] \in Chunk /\ merged[i].key \in Key
  <2>1. \A i \in 1..n : merged[i] \in Chunk
    BY <1>2
  <2> QED BY <2>1 DEF Chunk, Key
<1>5. ASSUME NEW key \in Key, \A j \in 1..m : all[j].key # key
      PROVE  more[key] = 0
  <2>1. sums[key] = 0
    BY <1>1, <1>3, <1>5 DEF Fused
  <2>2. x.key # key
    BY <1>3, <1>5
  <2> QED BY <2>1, <2>2
<1>6. CASE \E i \in 1..n : merged[i].key = x.key
  <2> DEFINE new == [i \in 1..n |-> IF merged[i].key = x.key
                                    THEN [merged[i] EXCEPT !.rrf = @ + Share(rank)]
                                    ELSE merged[i]]
  <2>1. AddShare(merged, x, rank) = new
    <3>1. AddShare(merged, x, rank) =
            [i \in DOMAIN merged |-> IF merged[i].key = x.key
                                     THEN [merged[i] EXCEPT !.rrf = @ + Share(rank)]
                                     ELSE merged[i]]
      BY <1>2, <1>6 DEF AddShare
    <3> QED BY <1>2, <3>1
  <2>2. AddShare(merged, x, rank) \in Seq(Chunk)
    BY <1>2, <1>3, AddShareType
  <2>3. Len(new) = n
    BY <1>2
  <2>4. ASSUME NEW i \in 1..n
        PROVE  /\ new[i].result = merged[i].result /\ new[i].key = merged[i].key
               /\ new[i].rrf = more[merged[i].key]
    <3>1. merged[i].rrf = sums[merged[i].key] /\ merged[i].rrf \in Nat
      BY <1>1, <1>4 DEF Fused, Chunk
    <3>2. CASE merged[i].key = x.key
      <4>1. new[i] = [merged[i] EXCEPT !.rrf = merged[i].rrf + Share(rank)]
        BY <3>2
      <4>2. more[merged[i].key] = merged[i].rrf + Share(rank)
        BY <1>4, <3>1, <3>2
      <4>3. PICK c \in Chunk : c = merged[i]
        BY <1>4
      <4>4. new[i] = [c EXCEPT !.rrf = c.rrf + Share(rank)]
        BY <4>1, <4>3
      <4> HIDE DEF new
      <4>5. new[i].result = c.result /\ new[i].key = c.key /\ new[i].rrf = c.rrf + Share(rank)
        BY <4>3, <4>4 DEF Chunk
      <4> QED BY <4>2, <4>3, <4>5
    <3>3. CASE merged[i].key # x.key
      <4>1. new[i] = merged[i]
        BY <3>3
      <4>2. more[merged[i].key] = sums[merged[i].key] + 0
        BY <1>4, <3>3
      <4>3. sums[merged[i].key] \in Nat
        BY <1>4
      <4> HIDE DEF new
      <4> QED BY <3>1, <4>1, <4>2, <4>3
    <3> QED BY <3>2, <3>3
  <2> HIDE DEF new
  <2>5. at \in [1..n -> 1..m]
    BY <1>2, <1>3
  <2>6. ASSUME NEW i \in 1..n
        PROVE  /\ new[i].result = all[at[i]]
               /\ new[i].key = all[at[i]].key
               /\ new[i].rrf = more[new[i].key]
               /\ \A j \in 1..(at[i] - 1) : all[j].key # new[i].key
    <3>1. /\ merged[i].result = all[at[i]] /\ merged[i].key = all[at[i]].key
          /\ \A j \in 1..(at[i] - 1) : all[j].key # merged[i].key
      BY <1>1 DEF Fused
    <3> QED BY <2>4, <3>1
  <2>7. ASSUME NEW j \in 1..m PROVE \E i \in 1..n : new[i].key = all[j].key
    <3>1. CASE j = m
      BY <1>6, <2>4, <3>1
    <3>2. CASE j \in 1..(m - 1)
      <4>1. PICK i \in 1..n : merged[i].key = all[j].key
        BY <1>1, <3>2 DEF Fused
      <4> QED BY <2>4, <4>1
    <3> QED BY <1>3, <3>1, <3>2
  <2>8. \A i, j \in 1..n : i < j => at[i] < at[j]
    BY <1>1 DEF Fused
  <2>9. Fused(new, all, m, more, at)
    BY <1>5, <2>1, <2>2, <2>3, <2>5, <2>6, <2>7, <2>8 DEF Fused
  <2> QED BY <2>1, <2>9 DEF IsFusion
<1>7. CASE ~(\E i \in 1..n : merged[i].key = x.key)
  <2> DEFINE c == [result |-> x, key |-> x.key, rrf |-> Share(rank)]
             new == Append(merged, c)
             to == [i \in 1..(n + 1) |-> IF i = n + 1 THEN m ELSE at[i]]
  <2>1. AddShare(merged, x, rank) = new
    BY <1>2, <1>7 DEF AddShare
  <2>2. new \in Seq(Chunk)
    <3> HIDE DEF new, x
    <3> QED BY <1>2, <1>3, <2>1, AddShareType
  <2>3. /\ Len(new) = n + 1 /\ new[n + 1] = c /\ \A i \in 1..n : new[i] = merged[i]
    BY <1>2
  <2>4. c.result = x /\ c.key = x.key /\ c.rrf = Share(rank)
    OBVIOUS
  <2> HIDE DEF c, new
  <2>5. to[n + 1] = m /\ \A i \in 1..n : to[i] = at[i]
    BY <1>2
  <2>6. to \in [1..(n + 1) -> 1..m]
    BY <1>2, <1>3
  <2> HIDE DEF to
  <2>7. \A i \in 1..(n + 1) : i \in 1..n \/ i = n + 1
    BY <1>2
  <2>8. \A j \in 1..(m - 1) : all[j].key # x.key
    BY <1>1, <1>7 DEF Fused
  <2>9. sums[x.key] = 0
    BY <1>1, <1>3, <2>8 DEF Fused
  <2>10. ASSUME NEW i \in 1..(n + 1)
         PROVE  /\ new[i].result = all[to[i]]
                /\ new[i].key = all[to[i]].key
                /\ new[i].rrf = more[new[i].key]
                /\ \A j \in 1..(to[i] - 1) : all[j].key # new[i].key
    <3>1. CASE i = n + 1
      <4>1. more[x.key] = Share(rank)
        BY <1>3, <2>9
      <4> QED BY <2>3, <2>4, <2>5, <2>8, <3>1, <4>1
    <3>2. CASE i \in 1..n
      <4>1. /\ merged[i].result = all[at[i]] /\ merged[i].key = all[at[i]].key
            /\ merged[i].rrf = sums[merged[i].key]
            /\ \A j \in 1..(at[i] - 1) : all[j].key # merged[i].key
        BY <1>1, <3>2 DEF Fused
      <4>2. more[merged[i].key] = sums[merged[i].key] + 0 /\ sums[merged[i].key] \in Nat
        BY <1>4, <1>7, <3>2
      <4> QED BY <2>3, <2>5, <3>2, <4>1, <4>2
    <3> QED BY <2>7, <3>1, <3>2
  <2>11. ASSUME NEW i \in 1..(n + 1), NEW j \in 1..(n + 1), i < j PROVE to[i] < to[j]
    <3>1. i \in 1..n /\ at[i] \in 1..(m - 1) /\ to[i] = at[i]
      BY <1>2, <2>5, <2>7, <2>11
    <3>2. CASE j = n + 1
      BY <1>3, <2>5, <3>1, <3>2
    <3>3. CASE j \in 1..n
      BY <1>1, <2>5, <2>11, <3>1, <3>3 DEF Fused
    <3> QED BY <2>7, <3>2, <3>3
  <2>12. ASSUME NEW j \in 1..m PROVE \E i \in 1..(n + 1) : new[i].key = all[j].key
    <3>1. CASE j = m
      <4>1. n + 1 \in 1..(n + 1)
        BY <1>2
      <4> QED BY <2>3, <2>4, <3>1, <4>1
    <3>2. CASE j \in 1..(m - 1)
      <4>1. PICK i \in 1..n : merged[i].key = all[j].key
        BY <1>1, <3>2 DEF Fused
      <4>2. i \in 1..(n + 1)
        BY <1>2
      <4> QED BY <2>3, <4>1, <4>2
    <3> QED BY <1>3, <3>1, <3>2
  <2>13. Fused(new, all, m, more, to)
    BY <1>5, <2>2, <2>3, <2>6, <2>10, <2>11, <2>12 DEF Fused
  <2> QED BY <2>1, <2>13 DEF IsFusion
<1> QED BY <1>6, <1>7

Plus(sums, list, r) == [key \in Key |-> sums[key] + Sums(list, key)[r]]

\* A whole list, whose results come after the first m of all: by induction over it.
LEMMA AddAllFuses ==
    ASSUME NEW all \in Seq(Result), NEW m \in Nat, NEW list \in Seq(Result),
           m + Len(list) <= Len(all), \A r \in 1..Len(list) : all[m + r] = list[r],
           NEW merged \in Seq(Chunk), NEW sums \in [Key -> Nat], IsFusion(merged, all, m, sums)
    PROVE  IsFusion(AddAll(merged, list), all, m + Len(list), Plus(sums, list, Len(list)))
<1> DEFINE n == Len(list)
           g == Merging(merged, list)
           S == {r \in 0..n : IsFusion(g[r], all, m + r, Plus(sums, list, r))}
<1>1. /\ n \in Nat /\ g[0] = merged
      /\ \A r \in 1..n : g[r] = AddShare(g[r - 1], list[r], r)
  <2>1. g[0] = merged /\ \A r \in 1..n : g[r] = AddShare(g[r - 1], list[r], r)
    BY MergingIs, Zenon
  <2> QED BY <2>1
<1> HIDE DEF g
<1>2. \A key \in Key :
        /\ Sums(list, key) \in [0..n -> Nat] /\ Sums(list, key)[0] = 0
        /\ \A r \in 1..n : Sums(list, key)[r] =
             Sums(list, key)[r - 1] + (IF list[r].key = key THEN Share(r) ELSE 0)
  BY SumsAre
<1>3. \A r \in 0..n : Plus(sums, list, r) \in [Key -> Nat]
  <2>1. ASSUME NEW r \in 0..n, NEW key \in Key PROVE sums[key] + Sums(list, key)[r] \in Nat
    <3>1. Sums(list, key)[r] \in Nat /\ sums[key] \in Nat
      BY <1>2
    <3> QED BY <3>1
  <2> QED BY <2>1 DEF Plus
<1>4. 0 \in S
  <2>1. Plus(sums, list, 0) = sums
    <3>1. \A key \in Key : sums[key] \in Nat /\ sums[key] + Sums(list, key)[0] = sums[key]
      BY <1>2
    <3> QED BY <3>1 DEF Plus
  <2>2. m + 0 = m /\ 0 \in 0..n
    BY <1>1
  <2> QED BY <1>1, <2>1, <2>2
<1>5. ASSUME NEW r \in 1..n, r - 1 \in S PROVE r \in S
  <2>1. /\ r \in 0..n /\ r - 1 \in 0..n /\ r \in Nat \ {0}
        /\ m + r \in 1..Len(all) /\ m + (r - 1) = (m + r) - 1 /\ all[m + r] = list[r]
    BY <1>1
  <2> DEFINE old == Plus(sums, list, r - 1)
             more == Plus(sums, list, r)
             k == m + r
  <2>2. IsFusion(g[r - 1], all, k - 1, old)
    BY <1>5, <2>1
  <2>3. old \in [Key -> Nat] /\ more \in [Key -> Nat]
    BY <1>3, <2>1
  <2>4. ASSUME NEW key \in Key
        PROVE  more[key] = old[key] + (IF all[k].key = key THEN Share(r) ELSE 0)
    <3>1. Sums(list, key)[r] = Sums(list, key)[r - 1] + (IF list[r].key = key THEN Share(r) ELSE 0)
      BY <1>2
    <3>2. Sums(list, key)[r - 1] \in Nat /\ sums[key] \in Nat /\ Share(r) \in Nat
      BY <1>2, <2>1, SharesAreNumbers
    <3>3. /\ old[key] = sums[key] + Sums(list, key)[r - 1]
          /\ more[key] = sums[key] + Sums(list, key)[r]
      BY DEF Plus
    <3>4. ASSUME NEW a \in Nat, NEW b \in Nat, NEW c \in Nat
          PROVE  /\ a + (b + c) = (a + b) + c
                 /\ a + (b + 0) = (a + b) + 0
      OBVIOUS
    <3>5. (all[k].key = key) <=> (list[r].key = key)
      BY <2>1
    <3> HIDE DEF old, more, k
    <3>6. CASE list[r].key = key
      BY <3>1, <3>2, <3>3, <3>4, <3>5, <3>6
    <3>7. CASE list[r].key # key
      BY <3>1, <3>2, <3>3, <3>4, <3>5, <3>7
    <3> QED BY <3>6, <3>7
  <2>5. k \in 1..Len(all)
    BY <2>1
  <2> HIDE DEF old, more, k
  <2>6. IsFusion(AddShare(g[r - 1], all[k], r), all, k, more)
    BY <2>1, <2>2, <2>3, <2>4, <2>5, AddShareFuses
  <2>7. IsFusion(g[r], all, k, more)
    BY <1>1, <2>1, <2>6 DEF k
  <2> QED BY <2>1, <2>7 DEF k, more
<1>6. n \in S
  <2>1. \A r \in 0..n : r \in S
    <3> HIDE DEF S
    <3> QED BY <1>1, <1>4, <1>5, CountUp
  <2>2. n \in 0..n
    BY <1>1
  <2> QED BY <2>1, <2>2
<1> QED BY <1>6 DEF AddAll, g

\* The fusion keeps the first result of every key, in the order of the firsts, with the
\* sum of its shares of both lists.
LEMMA FuseFuses ==
    ASSUME NEW vector \in Seq(Result), NEW keyword \in Seq(Result)
    PROVE  IsFusion(Fuse(vector, keyword), vector \o keyword, Len(vector \o keyword),
                    [key \in Key |-> ScoreOf(vector, keyword, key)])
<1> DEFINE all == vector \o keyword
           zero == [key \in Key |-> 0]
           v == Len(vector)
           w == Len(keyword)
           one == Plus(zero, vector, v)
           two == Plus(one, keyword, w)
           first == AddAll(<<>>, vector)
<1>1. /\ v \in Nat /\ w \in Nat /\ all \in Seq(Result) /\ Len(all) = v + w
      /\ \A r \in 1..v : all[0 + r] = vector[r]
      /\ \A r \in 1..w : all[v + r] = keyword[r]
  OBVIOUS
<1> HIDE DEF all
<1>2. IsFusion(<<>>, all, 0, zero)
  <2>1. Fused(<<>>, all, 0, zero, <<>>)
    BY DEF Fused
  <2> QED BY <2>1 DEF IsFusion
<1>3. \A list \in Seq(Result), key \in Key :
        Sums(list, key)[Len(list)] \in Nat /\ Shares(list, key) = Sums(list, key)[Len(list)]
  <2>1. ASSUME NEW list \in Seq(Result), NEW key \in Key
        PROVE  Sums(list, key)[Len(list)] \in Nat
    <3>1. Sums(list, key) \in [0..Len(list) -> Nat] /\ Len(list) \in 0..Len(list)
      BY SumsAre
    <3> QED BY <3>1
  <2> QED BY <2>1 DEF Shares
<1>4. /\ zero \in [Key -> Nat] /\ one \in [Key -> Nat]
      /\ \A key \in Key : one[key] = Shares(vector, key)
  <2>1. \A key \in Key : zero[key] = 0
    OBVIOUS
  <2> QED BY <1>3, <2>1 DEF Plus
<1>5. two = [key \in Key |-> ScoreOf(vector, keyword, key)]
  <2> HIDE DEF one
  <2>1. \A key \in Key : one[key] + Sums(keyword, key)[w] = ScoreOf(vector, keyword, key)
    BY <1>3, <1>4 DEF ScoreOf
  <2> QED BY <2>1 DEF Plus
<1> HIDE DEF zero
<1>6. IsFusion(first, all, v, one)
  <2>1. <<>> \in Seq(Chunk) /\ 0 \in Nat /\ 0 + v <= Len(all) /\ 0 + v = v
    BY <1>1
  <2>2. IsFusion(first, all, 0 + v, one)
    BY <1>1, <1>2, <1>4, <2>1, AddAllFuses
  <2> QED BY <2>1, <2>2
<1>7. first \in Seq(Chunk)
  <2>1. <<>> \in Seq(Chunk) /\ v \in 0..v
    BY <1>1
  <2>2. Merging(<<>>, vector) \in [0..v -> Seq(Chunk)]
    BY <2>1, MergingIs
  <2> QED BY <2>1, <2>2 DEF AddAll
<1> HIDE DEF one, first
<1>8. IsFusion(AddAll(first, keyword), all, v + w, two)
  <2>1. v + w <= Len(all)
    BY <1>1
  <2> QED BY <1>1, <1>4, <1>6, <1>7, <2>1, AddAllFuses
<1> QED BY <1>1, <1>5, <1>8 DEF Fuse, first, all

\* Min of a set is its least element.
LEMMA LeastIs ==
    ASSUME NEW S \in SUBSET Int, NEW x \in S, \A y \in S : x <= y
    PROVE  Min(S) = x
<1>1. Min(S) \in S /\ \A y \in S : Min(S) <= y
  BY DEF Min
<1>2. Min(S) \in Int /\ x \in Int
  BY <1>1
<1> QED BY <1>1, <1>2

\* A list whose keys differ has as many keys as elements.
LEMMA KeysAreCounted ==
    ASSUME NEW list \in Seq(Chunk),
           \A i, j \in 1..Len(list) : list[i].key = list[j].key => i = j
    PROVE  Cardinality(KeysOf(list)) = Len(list)
<1> DEFINE f == [i \in 1..Len(list) |-> list[i].key]
           K == KeysOf(list)
<1>1. Len(list) \in Nat /\ DOMAIN list = 1..Len(list)
  OBVIOUS
<1>2. f \in [1..Len(list) -> K] /\ \A k \in K : \E i \in 1..Len(list) : f[i] = k
  BY <1>1 DEF KeysOf
<1>3. \A i, j \in 1..Len(list) : f[i] = f[j] => i = j
  OBVIOUS
<1> HIDE DEF f, K
<1>4. f \in Bijection(1..Len(list), K)
  BY <1>2, <1>3, Fun_IsBij
<1>5. ExistsBijection(1..Len(list), K)
  BY <1>4 DEF ExistsBijection
<1>6. Cardinality(K) = Len(list)
  BY <1>1, <1>5, FS_CountingElements
<1> QED BY <1>6 DEF K

\* What the fusion leaves, seen from its definition: every key of the lists once,
\* with its score and its first result, and its place orders those of one score.
Represents(merged, vector, keyword) ==
    /\ merged \in Seq(Chunk)
    /\ \A i, j \in 1..Len(merged) : merged[i].key = merged[j].key => i = j
    /\ KeysOf(merged) = KeysOf(vector) \cup KeysOf(keyword)
    /\ \A i \in 1..Len(merged) :
         /\ merged[i].rrf = ScoreOf(vector, keyword, merged[i].key)
         /\ merged[i].result = (vector \o keyword)[First(vector, keyword, merged[i].key)]
    /\ \A i, j \in 1..Len(merged) : i < j =>
         First(vector, keyword, merged[i].key) < First(vector, keyword, merged[j].key)

\* The fusion of two lists represents them, whatever their lengths, copies and ties.
LEMMA FuseRepresents ==
    ASSUME NEW vector \in Seq(Result), NEW keyword \in Seq(Result)
    PROVE  Represents(Fuse(vector, keyword), vector, keyword)
<1> DEFINE all == vector \o keyword
           N == Len(all)
           tot == [key \in Key |-> ScoreOf(vector, keyword, key)]
           first(key) == First(vector, keyword, key)
<1>1. PICK merged \in Seq(Chunk) : merged = Fuse(vector, keyword)
  BY FuseType
<1>2. PICK at : Fused(merged, all, N, tot, at)
  BY <1>1, FuseFuses DEF IsFusion
<1> DEFINE n == Len(merged)
<1>3. /\ n \in Nat /\ N \in Nat /\ DOMAIN merged = 1..n /\ DOMAIN all = 1..N
      /\ all \in Seq(Result) /\ at \in [1..n -> 1..N]
  BY <1>2 DEF Fused
<1>4. KeysOf(all) = KeysOf(vector) \cup KeysOf(keyword)
  <2>1. /\ DOMAIN vector = 1..Len(vector) /\ DOMAIN keyword = 1..Len(keyword)
        /\ Len(vector) \in Nat /\ Len(keyword) \in Nat /\ N = Len(vector) + Len(keyword)
        /\ \A r \in 1..Len(vector) : all[r] = vector[r]
        /\ \A r \in 1..Len(keyword) : all[Len(vector) + r] = keyword[r]
    OBVIOUS
  <2> HIDE DEF all
  <2>2. \A r \in 1..N :
          \/ r \in 1..Len(vector)
          \/ r - Len(vector) \in 1..Len(keyword) /\ r = Len(vector) + (r - Len(vector))
    BY <2>1
  <2>3. ASSUME NEW r \in 1..N PROVE all[r].key \in KeysOf(vector) \cup KeysOf(keyword)
    BY <2>1, <2>2 DEF KeysOf
  <2>4. ASSUME NEW r \in 1..Len(vector) PROVE vector[r].key \in KeysOf(all)
    <3>1. r \in 1..N /\ all[r] = vector[r]
      BY <2>1
    <3> QED BY <1>3, <3>1 DEF KeysOf
  <2>5. ASSUME NEW r \in 1..Len(keyword) PROVE keyword[r].key \in KeysOf(all)
    <3>1. Len(vector) + r \in 1..N /\ all[Len(vector) + r] = keyword[r]
      BY <2>1
    <3> QED BY <1>3, <3>1 DEF KeysOf
  <2>6. KeysOf(all) \subseteq KeysOf(vector) \cup KeysOf(keyword)
    <3>1. KeysOf(all) = {all[r].key : r \in 1..N}
      BY <1>3 DEF KeysOf
    <3> QED BY <2>3, <3>1
  <2>7. KeysOf(vector) \subseteq KeysOf(all) /\ KeysOf(keyword) \subseteq KeysOf(all)
    <3>1. /\ KeysOf(vector) = {vector[r].key : r \in 1..Len(vector)}
          /\ KeysOf(keyword) = {keyword[r].key : r \in 1..Len(keyword)}
      BY <2>1 DEF KeysOf
    <3> QED BY <2>4, <2>5, <3>1
  <2> QED BY <2>6, <2>7
<1> HIDE DEF all, tot, N
<1>5. ASSUME NEW i \in 1..n
      PROVE  /\ merged[i].result = all[at[i]] /\ merged[i].key = all[at[i]].key
             /\ merged[i].rrf = tot[merged[i].key] /\ at[i] \in 1..N
             /\ \A j \in 1..(at[i] - 1) : all[j].key # merged[i].key
  BY <1>2, <1>3 DEF Fused
<1>6. ASSUME NEW i \in 1..n, NEW j \in 1..n, i < j PROVE at[i] < at[j]
  BY <1>2, <1>6 DEF Fused
<1>7. ASSUME NEW i \in 1..n PROVE First(vector, keyword, merged[i].key) = at[i]
  <2> DEFINE O == Occurrences(all, merged[i].key)
  <2>1. at[i] \in O /\ O \in SUBSET Int
    BY <1>3, <1>5 DEF Occurrences
  <2>2. ASSUME NEW j \in O PROVE at[i] <= j
    <3>1. j \in 1..N /\ all[j].key = merged[i].key
      BY <1>3 DEF Occurrences
    <3>2. j \notin 1..(at[i] - 1)
      BY <1>5, <3>1
    <3> QED BY <1>3, <1>5, <3>1, <3>2
  <2> HIDE DEF O
  <2>3. Min(O) = at[i]
    BY <2>1, <2>2, LeastIs
  <2> QED BY <2>3 DEF First, O, all
<1>8. ASSUME NEW i \in 1..n, NEW j \in 1..n, merged[i].key = merged[j].key PROVE i = j
  <2>1. at[i] = at[j]
    BY <1>7, <1>8
  <2>2. ~(i < j) /\ ~(j < i)
    BY <1>3, <1>6, <2>1
  <2> QED BY <1>3, <2>2
<1>9. KeysOf(merged) = KeysOf(all)
  <2>1. ASSUME NEW i \in 1..n PROVE merged[i].key \in KeysOf(all)
    BY <1>3, <1>5 DEF KeysOf
  <2>2. ASSUME NEW j \in 1..N PROVE all[j].key \in KeysOf(merged)
    <3>1. PICK i \in 1..n : merged[i].key = all[j].key
      BY <1>2 DEF Fused
    <3> QED BY <1>3, <3>1 DEF KeysOf
  <2> QED BY <1>3, <2>1, <2>2 DEF KeysOf
<1>10. ASSUME NEW i \in 1..n
       PROVE  /\ merged[i].rrf = ScoreOf(vector, keyword, merged[i].key)
              /\ merged[i].result = all[First(vector, keyword, merged[i].key)]
  <2>1. merged[i].key \in Key
    <3>1. merged[i] \in Chunk
      BY <1>3
    <3> QED BY <3>1 DEF Chunk, Key
  <2>2. tot[merged[i].key] = ScoreOf(vector, keyword, merged[i].key)
    BY <2>1 DEF tot
  <2> QED BY <1>5, <1>7, <2>2
<1>11. ASSUME NEW i \in 1..n, NEW j \in 1..n, i < j
       PROVE  First(vector, keyword, merged[i].key) < First(vector, keyword, merged[j].key)
  BY <1>6, <1>7, <1>11
<1>12. Represents(merged, vector, keyword)
  <2>1. KeysOf(merged) = KeysOf(vector) \cup KeysOf(keyword)
    BY <1>4, <1>9
  <2>2. \A i \in 1..n :
          /\ merged[i].rrf = ScoreOf(vector, keyword, merged[i].key)
          /\ merged[i].result = (vector \o keyword)[First(vector, keyword, merged[i].key)]
    BY <1>10 DEF all
  <2> QED BY <1>8, <1>11, <2>1, <2>2 DEF Represents
<1> QED BY <1>1, <1>12

\* Reciprocal rank fusion as the engine computes it is the ranking by the sums of the
\* shares, for lists of any length with any copies and ties.
LEMMA RankedRanks ==
    ASSUME NEW vector \in Seq(Result), NEW keyword \in Seq(Result), NEW topK \in Nat
    PROVE  IsRanking(Ranked(vector, keyword, topK), vector, keyword, topK)
<1> DEFINE keys2 == KeysOf(vector) \cup KeysOf(keyword)
<1>1. PICK merged \in Seq(Chunk) : merged = Fuse(vector, keyword)
  BY FuseType
<1>2. Represents(merged, vector, keyword)
  BY <1>1, FuseRepresents
<1> DEFINE n == Len(merged)
           sc == Scores(merged)
           sorted == Sorted(merged, sc)
<1>3. n \in Nat /\ DOMAIN merged = 1..n /\ \A i \in 1..n : sc[i] = merged[i].rrf
  BY DEF Scores
<1>4. PICK pos : Sorts(pos, n, sc) /\ sorted = [k \in 1..n |-> merged[pos[k]]]
  BY ScoresType, SortedSorts
<1>5. /\ pos \in [1..n -> 1..n]
      /\ \A i \in 1..n : \E k \in 1..n : pos[k] = i
      /\ \A k, l \in 1..n : k < l => Before(sc, pos[k], pos[l])
  BY <1>4 DEF Sorts
<1>6. sorted \in Seq(Chunk) /\ Len(sorted) = n
  BY ScoresType, SortedType
<1>7. PICK ranked : ranked = Ranked(vector, keyword, topK)
  OBVIOUS
<1>8. ranked = Take(sorted, topK)
  BY <1>1, <1>7 DEF Ranked, Scores
<1> DEFINE L == Len(ranked)
<1>9. /\ ranked \in Seq(Chunk) /\ L = (IF topK < n THEN topK ELSE n)
      /\ \A i \in 1..L : ranked[i] = sorted[i]
  <2> HIDE DEF sorted
  <2> QED BY <1>6, <1>8, TakeIs
<1>10. L \in Nat /\ L <= n /\ DOMAIN ranked = 1..L
  BY <1>3, <1>9
<1> HIDE DEF L
<1>11. \A i \in 1..L : i \in 1..n /\ pos[i] \in 1..n /\ ranked[i] = merged[pos[i]]
  <2>1. \A i \in 1..L : i \in 1..n
    BY <1>3, <1>10
  <2> QED BY <1>4, <1>5, <1>9, <2>1
<1> HIDE DEF sorted, sc
<1>12. ASSUME NEW i \in 1..n, NEW j \in 1..n, Before(sc, i, j)
       PROVE  Precedes(vector, keyword, merged[i].key, merged[j].key)
  <2>1. /\ sc[i] = ScoreOf(vector, keyword, merged[i].key)
        /\ sc[j] = ScoreOf(vector, keyword, merged[j].key)
    BY <1>2, <1>3 DEF Represents
  <2>2. i < j => First(vector, keyword, merged[i].key) < First(vector, keyword, merged[j].key)
    BY <1>2 DEF Represents
  <2> QED BY <1>12, <2>1, <2>2 DEF Before, Precedes
<1>13. Cardinality(keys2) = n
  <2>1. \A i, j \in 1..n : merged[i].key = merged[j].key => i = j
    BY <1>2 DEF Represents
  <2>2. Cardinality(KeysOf(merged)) = n
    BY <2>1, KeysAreCounted
  <2> QED BY <1>2, <2>2 DEF Represents
<1>14. Cardinality(KeysOf(ranked)) = L
  <2>1. ASSUME NEW i \in 1..L, NEW j \in 1..L, ranked[i].key = ranked[j].key PROVE i = j
    <3>1. pos[i] = pos[j]
      BY <1>2, <1>11, <2>1 DEF Represents
    <3>2. ~(i < j) /\ ~(j < i)
      <4>1. pos[i] \in Int /\ \A a \in 1..n : sc[a] \in Nat
        <5>1. \A a \in 1..n : merged[a] \in Chunk
          BY <1>3
        <5> QED BY <1>3, <1>11, <5>1 DEF Chunk
      <4>2. ~Before(sc, pos[i], pos[i])
        BY <1>11, <4>1 DEF Before
      <4> QED BY <1>5, <1>11, <3>1, <4>2
    <3> QED BY <1>10, <3>2
  <2> QED BY <1>9, <2>1, KeysAreCounted DEF L
<1>15. ASSUME NEW i \in 1..L
       PROVE  /\ ranked[i].rrf = ScoreOf(vector, keyword, ranked[i].key)
              /\ ranked[i].result = (vector \o keyword)[First(vector, keyword, ranked[i].key)]
  <2>1. PICK p \in 1..n : ranked[i] = merged[p]
    BY <1>11
  <2>2. /\ merged[p].rrf = ScoreOf(vector, keyword, merged[p].key)
        /\ merged[p].result = (vector \o keyword)[First(vector, keyword, merged[p].key)]
    BY <1>2 DEF Represents
  <2> QED BY <2>1, <2>2
<1>16. ASSUME NEW i \in 1..L, NEW j \in 1..(i - 1)
       PROVE  Precedes(vector, keyword, ranked[j].key, ranked[i].key)
  <2>1. j \in 1..L /\ j < i
    BY <1>10
  <2>2. Before(sc, pos[j], pos[i])
    BY <1>5, <1>11, <2>1
  <2> QED BY <1>11, <1>12, <2>1, <2>2
<1>17. ASSUME NEW i \in 1..L, NEW x \in keys2 \ KeysOf(ranked)
       PROVE  Precedes(vector, keyword, ranked[i].key, x)
  <2>1. x \in KeysOf(merged)
    BY <1>2 DEF Represents
  <2>2. PICK m \in 1..n : x = merged[m].key
    BY <1>3, <2>1 DEF KeysOf
  <2>3. PICK k \in 1..n : pos[k] = m
    BY <1>5
  <2>4. k \notin 1..L
    BY <1>10, <1>11, <1>17, <2>2, <2>3 DEF KeysOf
  <2>5. i < k
    BY <1>10, <2>4
  <2>6. Before(sc, pos[i], m)
    BY <1>5, <1>11, <2>3, <2>5
  <2> QED BY <1>11, <1>12, <2>2, <2>6
<1> HIDE DEF keys2
<1>18. IsRanking(ranked, vector, keyword, topK)
  <2>1. L = IF topK < Cardinality(keys2) THEN topK ELSE Cardinality(keys2)
    BY <1>9, <1>13 DEF L
  <2> QED BY <1>10, <1>14, <1>15, <1>16, <1>17, <2>1 DEF IsRanking, keys2, L
<1> QED BY <1>7, <1>18

\* What the engine hands to the reranker is the ranking of the two lists by the sums of
\* their shares, of a passage both found too, cut at top_k.
THEOREM FusionIsRanking == Spec => []FusedIsRanking
<1>1. ASSUME QueryTypes, NEW q \in Runs, run[q].pc = "rerank"
      PROVE  IsRanking(run[q].prompt, run[q].vector, run[q].keyword, TopK)
  <2>1. /\ run[q].prompt = Ranked(run[q].vector, run[q].keyword, TopK)
        /\ run[q].vector \in Seq(Result) /\ run[q].keyword \in Seq(Result)
    BY <1>1, RunFields DEF Made
  <2> QED BY <2>1, RankedRanks, QueryNumbersToo
<1>2. QueryTypes => FusedIsRanking
  BY <1>1 DEF FusedIsRanking
<1> QED BY <1>2, QueryTypesAreKept, PTL

==============================================================================
