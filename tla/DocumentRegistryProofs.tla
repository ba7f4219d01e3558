----------------------- MODULE DocumentRegistryProofs -----------------------
(* Theorems of DocumentRegistry for every set of requests and files, every  *)
(* number of requests in flight and every number of stopped requests.       *)
EXTENDS DocumentRegistry, FiniteSetTheorems, TLAPS

\* The model is well typed whatever requests race.
THEOREM TypeCorrect == Spec => []TypeOK
<1>1. Init => TypeOK
  BY RegistryAssumption DEF Init, TypeOK, Row
<1>2. TypeOK /\ [Next]_vars => TypeOK'
  <2> SUFFICES ASSUME TypeOK, [Next]_vars PROVE TypeOK'
    OBVIOUS
  <2> USE DEF TypeOK, Row
  <2>1. ASSUME NEW u \in Uploads, SelectExisting(u) PROVE TypeOK'
    <3>1. overlapped' \subseteq Slots
      <4>1. slot[u] \in Slots /\ Overlap(slot[u])
        BY <2>1 DEF SelectExisting
      <4> QED BY <4>1 DEF Overlap
    <3>2. UNCHANGED <<slot, deletion, documents>>
      BY <2>1 DEF SelectExisting
    <3>3. upload' \in [Uploads -> [pc : {"idle", "retire", "insert", "done", "aborted"},
             found : Uploads \cup {NoDocument}, version : Nat]]
      <4>1. CASE \E d \in Latest(slot[u]) : upload' = [upload EXCEPT ![u] =
                [pc |-> "retire", found |-> d, version |-> documents[d].version]]
        <5>1. PICK d \in Uploads : upload' = [upload EXCEPT ![u] =
                [pc |-> "retire", found |-> d, version |-> documents[d].version]]
          BY <4>1 DEF Latest
        <5>2. documents[d].version \in Nat
          OBVIOUS
        <5> QED BY <5>1, <5>2
      <4>2. CASE upload' = [upload EXCEPT ![u].pc = "insert"]
        BY <4>2
      <4> QED BY <2>1, <4>1, <4>2 DEF SelectExisting
    <3> QED BY <3>1, <3>2, <3>3
  <2>2. ASSUME NEW u \in Uploads, RetireExisting(u) PROVE TypeOK'
    <3>1. documents' \in [Uploads -> Row]
      BY <2>2 DEF RetireExisting
    <3>2. /\ UNCHANGED <<slot, deletion, overlapped>>
          /\ upload' = [upload EXCEPT ![u].pc = "insert"]
      BY <2>2 DEF RetireExisting
    <3> QED BY <3>1, <3>2
  <2>3. ASSUME NEW u \in Uploads, InsertDocument(u) PROVE TypeOK'
    <3> DEFINE row == [version |-> upload[u].version + 1, is_latest |-> TRUE]
    <3>1. row \in Row
      OBVIOUS
    <3>2. documents' = [documents EXCEPT ![u] = row]
      BY <2>3 DEF InsertDocument
    <3> HIDE DEF row
    <3>3. documents' \in [Uploads -> Row]
      BY <3>1, <3>2
    <3>4. UNCHANGED <<slot, deletion, overlapped>>
      BY <2>3 DEF InsertDocument
    <3>5. upload' = [upload EXCEPT ![u].pc = "done"]
      BY <2>3 DEF InsertDocument
    <3>6. upload' \in [Uploads -> [pc : {"idle", "retire", "insert", "done", "aborted"},
             found : Uploads \cup {NoDocument}, version : Nat]]
      BY <3>5
    <3> QED BY <3>3, <3>4, <3>6
  <2>4. ASSUME NEW u \in Uploads, AbortUpload(u) PROVE TypeOK'
    BY <2>4 DEF AbortUpload
  <2>5. ASSUME NEW x \in Deletions, SelectForDeletion(x) PROVE TypeOK'
    <3>1. PICK d \in Uploads :
            /\ deletion' = [deletion EXCEPT ![x] = [pc |-> "hide", target |-> d]]
            /\ Overlap(slot[d])
      BY <2>5 DEF SelectForDeletion
    <3>2. overlapped' \subseteq Slots
      BY <3>1 DEF Overlap
    <3>3. UNCHANGED <<slot, upload, documents>>
      BY <2>5 DEF SelectForDeletion
    <3> QED BY <3>1, <3>2, <3>3
  <2>6. ASSUME NEW x \in Deletions, HideDocument(x) PROVE TypeOK'
    BY <2>6 DEF HideDocument
  <2>7. ASSUME NEW x \in Deletions, AbortDeletion(x) PROVE TypeOK'
    BY <2>7 DEF AbortDeletion
  <2>8. CASE UNCHANGED vars
    BY <2>8 DEF vars
  <2> QED BY <2>1, <2>2, <2>3, <2>4, <2>5, <2>6, <2>7, <2>8
          DEF Next, Upload, Delete
<1> QED BY <1>1, <1>2, PTL DEF Spec

--------------------------------------------------------------------------
\* What a request knows between its statements

\* The row an upload read is still there with the version it read, and is no
\* longer the latest once the upload has retired it; an upload that has not
\* inserted has no row, so its INSERT never replaces one.  Neither property is
\* inductive without this: they speak of rows, the steps of what was read.
UploadInv(u) ==
    /\ upload[u].pc # "done" => documents[u].version = 0
    /\ upload[u].pc = "idle" =>
         upload[u].found = NoDocument /\ upload[u].version = 0
    /\ upload[u].pc = "retire" => upload[u].found # NoDocument
    /\ upload[u].found = NoDocument => upload[u].version = 0
    /\ upload[u].found # NoDocument =>
         /\ Exists(upload[u].found)
         /\ slot[upload[u].found] = slot[u]
         /\ documents[upload[u].found].version = upload[u].version
    /\ upload[u].pc = "insert" /\ upload[u].found # NoDocument =>
         ~documents[upload[u].found].is_latest

DeletionInv(x) ==
    /\ deletion[x].pc \in {"hide", "done"} =>
         deletion[x].target # NoDocument /\ Exists(deletion[x].target)

RegistryInv ==
    /\ \A u \in Uploads : UploadInv(u)
    /\ \A x \in Deletions : DeletionInv(x)
    /\ SuccessorReplaces
    /\ DeletedStaysHidden

\* What no statement does to a row that is there: change its version or give
\* it is_latest back.
RowsKept ==
    /\ slot' = slot
    /\ \A d \in Uploads : Exists(d) =>
         /\ documents'[d].version = documents[d].version
         /\ documents'[d].is_latest => documents[d].is_latest

\* Under RowsKept a request that does not move keeps its invariant, and
\* every old row keeps its predecessor, so only the requests that move and
\* the rows that are new have to be looked at.
LEMMA KeptStays ==
    ASSUME TypeOK, TypeOK', RegistryInv, RowsKept,
           \A u \in Uploads :
             \/ UploadInv(u)'
             \/ upload'[u] = upload[u] /\ documents'[u].version = documents[u].version,
           \A x \in Deletions :
             \/ deletion'[x] = deletion[x]
             \/ /\ DeletionInv(x)'
                /\ deletion'[x].pc = "done" =>
                     ~documents'[deletion'[x].target].is_latest,
           \A d \in Uploads : documents'[d].version > 1 =>
             \/ Exists(d)
             \/ \E e \in Uploads :
                  /\ slot'[e] = slot'[d]
                  /\ documents'[e].version = documents'[d].version - 1
                  /\ ~documents'[e].is_latest
    PROVE  RegistryInv'
<1> USE DEF TypeOK, Row, Exists
<1>1. ASSUME NEW u \in Uploads PROVE UploadInv(u)'
  <2> SUFFICES ASSUME upload'[u] = upload[u],
                      documents'[u].version = documents[u].version
               PROVE  UploadInv(u)'
    OBVIOUS
  <2>1. UploadInv(u) /\ upload[u].found \in Uploads \cup {NoDocument}
    BY DEF RegistryInv
  <2>2. CASE upload[u].found = NoDocument
    BY <2>1, <2>2 DEF UploadInv
  <2>3. CASE upload[u].found \in Uploads
    BY <2>1, <2>3 DEF UploadInv, RowsKept
  <2> QED BY <2>1, <2>2, <2>3
<1>2. ASSUME NEW x \in Deletions
      PROVE  /\ DeletionInv(x)'
             /\ deletion'[x].pc = "done" =>
                  ~documents'[deletion'[x].target].is_latest
  <2> SUFFICES ASSUME deletion'[x] = deletion[x]
               PROVE  /\ DeletionInv(x)'
                      /\ deletion'[x].pc = "done" =>
                           ~documents'[deletion'[x].target].is_latest
    OBVIOUS
  <2>1. deletion[x].target \in Uploads \cup {NoDocument} /\ DeletionInv(x)
    BY DEF RegistryInv
  <2> QED BY <2>1 DEF RegistryInv, DeletionInv, DeletedStaysHidden, RowsKept
<1>3. SuccessorReplaces'
  <2> SUFFICES ASSUME NEW d \in Uploads, documents'[d].version > 1, Exists(d)
               PROVE  \E e \in Uploads :
                        /\ slot'[e] = slot'[d]
                        /\ documents'[e].version = documents'[d].version - 1
                        /\ ~documents'[e].is_latest
    BY DEF SuccessorReplaces
  <2>1. documents'[d].version = documents[d].version /\ slot' = slot
    BY DEF RowsKept
  <2>2. PICK e \in Uploads :
          /\ slot[e] = slot[d]
          /\ documents[e].version = documents[d].version - 1
          /\ ~documents[e].is_latest
    BY <2>1 DEF RegistryInv, SuccessorReplaces
  <2>3. Exists(e)
    BY <2>1, <2>2
  <2>4. documents'[e].version = documents[e].version /\ ~documents'[e].is_latest
    BY <2>2, <2>3 DEF RowsKept
  <2> QED BY <2>1, <2>2, <2>4
<1> QED BY <1>1, <1>2, <1>3 DEF RegistryInv, DeletedStaysHidden

\* No step of an upload disturbs the invariant.
LEMMA UploadStep ==
    ASSUME TypeOK, TypeOK', RegistryInv, NEW u \in Uploads, Upload(u)
    PROVE  RegistryInv'
<1> USE DEF TypeOK, Row, Exists
<1>1. UploadInv(u) /\ NoDocument \notin Uploads
  BY RegistryAssumption DEF RegistryInv
<1>2. CASE SelectExisting(u)
  <2>1. RowsKept /\ UNCHANGED <<deletion, documents>>
    BY <1>2 DEF SelectExisting, RowsKept
  <2>2. \A v \in Uploads \ {u} : upload'[v] = upload[v]
    BY <1>2 DEF SelectExisting
  <2>3. UploadInv(u)'
    <3>1. CASE \E d \in Latest(slot[u]) : upload' = [upload EXCEPT ![u] =
              [pc |-> "retire", found |-> d, version |-> documents[d].version]]
      BY <1>1, <1>2, <2>1, <3>1 DEF SelectExisting, UploadInv, Latest
    <3>2. CASE upload' = [upload EXCEPT ![u].pc = "insert"]
      BY <1>1, <1>2, <2>1, <3>2 DEF SelectExisting, UploadInv
    <3> QED BY <1>2, <3>1, <3>2 DEF SelectExisting
  <2> QED BY <2>1, <2>2, <2>3, KeptStays
<1>3. CASE RetireExisting(u)
  <2> DEFINE f == upload[u].found
  <2>1. f \in Uploads /\ Exists(f)
    BY <1>1, <1>3 DEF RetireExisting, UploadInv
  <2>2. documents' = [documents EXCEPT ![f].is_latest = FALSE]
    BY <1>3 DEF RetireExisting
  <2>3. /\ \A d \in Uploads : documents'[d].version = documents[d].version
        /\ ~documents'[f].is_latest
        /\ \A d \in Uploads : documents'[d].is_latest => documents[d].is_latest
    BY <2>1, <2>2
  <2>4. RowsKept /\ UNCHANGED deletion
    BY <1>3, <2>3 DEF RetireExisting, RowsKept
  <2>5. \A v \in Uploads \ {u} : upload'[v] = upload[v]
    BY <1>3 DEF RetireExisting
  <2>6. UploadInv(u)'
    BY <1>1, <1>3, <2>1, <2>3 DEF RetireExisting, UploadInv
  <2> QED BY <2>3, <2>4, <2>5, <2>6, KeptStays
<1>4. CASE InsertDocument(u)
  <2> DEFINE f == upload[u].found
  <2>1. documents[u].version = 0 /\ upload[u].pc = "insert"
    BY <1>1, <1>4 DEF InsertDocument, UploadInv
  <2>2. /\ \A d \in Uploads \ {u} : documents'[d] = documents[d]
        /\ documents'[u].version = upload[u].version + 1
    BY <1>4 DEF InsertDocument
  <2>3. RowsKept /\ UNCHANGED deletion
    BY <1>4, <2>1, <2>2 DEF InsertDocument, RowsKept
  <2>4. /\ \A v \in Uploads \ {u} : upload'[v] = upload[v]
        /\ upload'[u].pc = "done" /\ upload'[u].found = f
        /\ upload'[u].version = upload[u].version
    BY <1>4 DEF InsertDocument
  <2>5. UploadInv(u)'
    BY <1>1, <2>1, <2>2, <2>3, <2>4 DEF UploadInv, RowsKept
  <2>6. ASSUME documents'[u].version > 1
        PROVE  \E e \in Uploads :
                 /\ slot'[e] = slot'[u]
                 /\ documents'[e].version = documents'[u].version - 1
                 /\ ~documents'[e].is_latest
    <3>1. upload[u].version > 0 /\ f \in Uploads
      BY <1>1, <2>2, <2>6 DEF UploadInv
    <3>2. /\ slot[f] = slot[u] /\ documents[f].version = upload[u].version
          /\ ~documents[f].is_latest /\ f # u
      BY <1>1, <2>1, <3>1 DEF UploadInv
    <3>3. documents'[f] = documents[f] /\ slot' = slot
      BY <2>2, <2>3, <3>1, <3>2 DEF RowsKept
    <3>4. /\ slot'[f] = slot'[u]
          /\ documents'[f].version = documents'[u].version - 1
          /\ ~documents'[f].is_latest
      BY <2>2, <3>1, <3>2, <3>3
    <3> QED BY <3>1, <3>4
  <2>7. \A v \in Uploads :
          \/ UploadInv(v)'
          \/ upload'[v] = upload[v] /\ documents'[v].version = documents[v].version
    BY <2>2, <2>4, <2>5
  <2>8. \A d \in Uploads : documents'[d].version > 1 =>
          \/ Exists(d)
          \/ \E e \in Uploads :
               /\ slot'[e] = slot'[d]
               /\ documents'[e].version = documents'[d].version - 1
               /\ ~documents'[e].is_latest
    BY <2>2, <2>6
  <2>9. \A x \in Deletions : deletion'[x] = deletion[x]
    BY <2>3
  <2> HIDE DEF TypeOK, Row
  <2> QED BY <2>3, <2>7, <2>8, <2>9, KeptStays
<1>5. CASE AbortUpload(u)
  <2>1. RowsKept /\ UNCHANGED <<deletion, documents>>
    BY <1>5 DEF AbortUpload, RowsKept
  <2>2. \A v \in Uploads \ {u} : upload'[v] = upload[v]
    BY <1>5 DEF AbortUpload
  <2>3. UploadInv(u)'
    BY <1>1, <1>5, <2>1 DEF AbortUpload, UploadInv
  <2> QED BY <2>1, <2>2, <2>3, KeptStays
<1> QED BY <1>2, <1>3, <1>4, <1>5 DEF Upload

\* No step of a deletion disturbs the invariant.
LEMMA DeletionStep ==
    ASSUME TypeOK, TypeOK', RegistryInv, NEW x \in Deletions, Delete(x)
    PROVE  RegistryInv'
<1> USE DEF TypeOK, Row, Exists
<1>1. DeletionInv(x) /\ NoDocument \notin Uploads
  BY RegistryAssumption DEF RegistryInv
<1>2. CASE SelectForDeletion(x) \/ AbortDeletion(x)
  <2>1. RowsKept /\ UNCHANGED <<upload, documents>>
    BY <1>2 DEF SelectForDeletion, AbortDeletion, RowsKept
  <2>2. /\ \A y \in Deletions \ {x} : deletion'[y] = deletion[y]
        /\ DeletionInv(x)' /\ deletion'[x].pc # "done"
    <3>1. CASE SelectForDeletion(x)
      BY <1>1, <2>1, <3>1 DEF SelectForDeletion, DeletionInv
    <3>2. CASE AbortDeletion(x)
      BY <1>1, <2>1, <3>2 DEF AbortDeletion, DeletionInv
    <3> QED BY <1>2, <3>1, <3>2
  <2> QED BY <2>1, <2>2, KeptStays
<1>3. CASE HideDocument(x)
  <2> DEFINE t == deletion[x].target
  <2>1. t \in Uploads /\ Exists(t)
    BY <1>1, <1>3 DEF HideDocument, DeletionInv
  <2>2. documents' = [documents EXCEPT ![t].is_latest = FALSE]
    BY <1>3 DEF HideDocument
  <2>3. /\ \A d \in Uploads : documents'[d].version = documents[d].version
        /\ ~documents'[t].is_latest
        /\ \A d \in Uploads : documents'[d].is_latest => documents[d].is_latest
    BY <2>1, <2>2
  <2>4. RowsKept /\ UNCHANGED upload
    BY <1>3, <2>3 DEF HideDocument, RowsKept
  <2>5. /\ \A y \in Deletions \ {x} : deletion'[y] = deletion[y]
        /\ deletion'[x].target = t
    BY <1>3 DEF HideDocument
  <2>6. DeletionInv(x)' /\ ~documents'[deletion'[x].target].is_latest
    <3> HIDE DEF t
    <3>1. t # NoDocument
      BY <1>1, <2>1
    <3>2. documents'[t].version > 0
      BY <2>1, <2>3
    <3>3. DeletionInv(x)'
      BY <2>5, <3>1, <3>2 DEF DeletionInv
    <3> QED BY <2>3, <2>5, <3>3
  <2> QED BY <2>3, <2>4, <2>5, <2>6, KeptStays
<1> QED BY <1>2, <1>3 DEF Delete

\* RegistryInv holds of every reachable state.
LEMMA RegistryInvariant == Spec => []RegistryInv
<1>1. Init => RegistryInv
  <2> SUFFICES ASSUME Init PROVE RegistryInv
    OBVIOUS
  <2>1. \A u \in Uploads : UploadInv(u)
    BY DEF Init, UploadInv
  <2>2. \A x \in Deletions : DeletionInv(x) /\ deletion[x].pc # "done"
    BY DEF Init, DeletionInv
  <2>3. SuccessorReplaces
    BY DEF Init, SuccessorReplaces
  <2> QED BY <2>1, <2>2, <2>3 DEF RegistryInv, DeletedStaysHidden
<1>2. TypeOK /\ TypeOK' /\ RegistryInv /\ [Next]_vars => RegistryInv'
  <2> SUFFICES ASSUME TypeOK, TypeOK', RegistryInv, [Next]_vars PROVE RegistryInv'
    OBVIOUS
  <2>1. ASSUME NEW u \in Uploads, Upload(u) PROVE RegistryInv'
    BY <2>1, UploadStep
  <2>2. ASSUME NEW x \in Deletions, Delete(x) PROVE RegistryInv'
    BY <2>2, DeletionStep
  <2>3. CASE UNCHANGED vars
    BY <2>3 DEF vars, RegistryInv, UploadInv, DeletionInv, SuccessorReplaces,
                DeletedStaysHidden, Exists
  <2> QED BY <2>1, <2>2, <2>3 DEF Next
<1> QED BY <1>1, <1>2, TypeCorrect, PTL DEF Spec

\* The history of a file has no gap, and all of it but the newest version has
\* left the list, in every interleaving of any number of uploads and deletions.
THEOREM HistoryHasNoGap == Spec => []SuccessorReplaces
<1>1. RegistryInv => SuccessorReplaces
  BY DEF RegistryInv
<1> QED BY <1>1, RegistryInvariant, PTL

\* No upload, however it races a deletion, puts the deleted row back.
THEOREM DeletionIsFinal == Spec => []DeletedStaysHidden
<1>1. RegistryInv => DeletedStaysHidden
  BY DEF RegistryInv
<1> QED BY <1>1, RegistryInvariant, PTL

--------------------------------------------------------------------------
\* Files whose requests come one at a time

\* The requests for rows of file s that are between two statements.
Busy(s) ==
    {u \in Uploads : upload[u].pc \in {"retire", "insert"} /\ slot[u] = s}
      \cup {x \in Deletions : deletion[x].pc = "hide" /\ slot[deletion[x].target] = s}

\* Alone on its file, an upload retires the only latest row, and inserts when
\* there is none.  AtMostOneLatest does not say so, hence is not inductive.
SerialInv(s) ==
    /\ \A p, q \in Busy(s) : p = q
    /\ \A d, e \in Latest(s) : d = e
    /\ \A u \in Uploads : slot[u] = s =>
         /\ upload[u].pc = "retire" => upload[u].found \in Latest(s)
         /\ upload[u].pc = "insert" => Latest(s) = {}

\* No request for s stopped half way and no row of s was deleted.
Quiet(s) ==
    /\ \A u \in Uploads : slot[u] = s => upload[u].pc # "aborted"
    /\ \A x \in Deletions : deletion[x].pc = "done" => slot[deletion[x].target] # s

\* The version that was last: none, the latest row's, or the one the upload
\* about to insert has read.
LastVersion(s) ==
    \/ /\ Rows(s) = {}
       /\ \A u \in Uploads : slot[u] = s /\ upload[u].pc = "insert" => upload[u].version = 0
    \/ \E d \in Latest(s) : documents[d].version = Cardinality(Rows(s))
    \/ \E u \in Uploads : /\ slot[u] = s /\ upload[u].pc = "insert"
                          /\ upload[u].version = Cardinality(Rows(s))

ListedInv(s) == IsFiniteSet(Rows(s)) /\ (Quiet(s) => LastVersion(s))

FileInv == \A s \in Slots \ overlapped : SerialInv(s) /\ ListedInv(s)

\* The rows a reader counts as the current version of s.
Shown(s) == Latest(s) \cup {upload[u].found : u \in Replacing(s)}

\* The requests for other files leave a file alone.
FileKept(s) ==
    /\ slot' = slot
    /\ s \in overlapped <=> s \in overlapped'
    /\ \A u \in Uploads : slot[u] = s =>
         upload'[u] = upload[u] /\ documents'[u] = documents[u]
    /\ \A x \in Deletions, pc \in {"hide", "done"} :
         deletion'[x].pc = pc /\ slot[deletion'[x].target] = s <=>
           deletion[x].pc = pc /\ slot[deletion[x].target] = s

\* As long as the rows it is chosen from stay, the visible version does.
LEMMA VisibleStays ==
    ASSUME NEW s, s \in overlapped <=> s \in overlapped', Shown(s)' = Shown(s),
           \A d \in Shown(s) : documents'[d].version = documents[d].version
    PROVE  Visible(s)' = Visible(s)
<1> DEFINE chosen == CHOOSE d \in Shown(s) : TRUE
<1>1. CASE Shown(s) = {} \/ s \in overlapped
  BY <1>1 DEF Visible, Shown
<1>2. CASE ~(Shown(s) = {} \/ s \in overlapped)
  <2>1. chosen \in Shown(s)
    BY <1>2
  <2>2. Visible(s) = documents[chosen].version
    BY <1>2 DEF Visible, Shown
  <2>3. Visible(s)' = documents'[CHOOSE d \in Shown(s)' : TRUE].version
    BY <1>2 DEF Visible, Shown
  <2>4. (CHOOSE d \in Shown(s)' : TRUE) = chosen
    OBVIOUS
  <2> HIDE DEF chosen
  <2>5. Visible(s)' = documents'[chosen].version
    BY <2>3, <2>4
  <2> QED BY <2>1, <2>2, <2>5
<1> QED BY <1>1, <1>2

\* A visible version is a number, and all rows shown are rows of the file.
LEMMA ShownRows ==
    ASSUME TypeOK, RegistryInv, NEW s
    PROVE  /\ Shown(s) \subseteq {d \in Uploads : slot[d] = s /\ Exists(d)}
           /\ Visible(s) \in Nat
<1>1. Shown(s) \subseteq {d \in Uploads : slot[d] = s /\ Exists(d)}
  <2>1. Latest(s) \subseteq {d \in Uploads : slot[d] = s /\ Exists(d)}
    BY DEF Latest
  <2>2. ASSUME NEW u \in Replacing(s)
        PROVE  upload[u].found \in {d \in Uploads : slot[d] = s /\ Exists(d)}
    <3>1. u \in Uploads /\ slot[u] = s /\ upload[u].found # NoDocument
      BY <2>2 DEF Replacing
    <3>2. upload[u].found \in Uploads
      BY <3>1 DEF TypeOK
    <3> QED BY <3>1, <3>2 DEF RegistryInv, UploadInv
  <2> QED BY <2>1, <2>2 DEF Shown
<1>2. \A d \in Uploads : documents[d].version \in Nat
  BY DEF TypeOK, Row
<1>3. ASSUME Shown(s) = {} \/ s \in overlapped PROVE Visible(s) \in Nat
  BY <1>3 DEF Visible, Shown
<1>4. ASSUME ~(Shown(s) = {} \/ s \in overlapped) PROVE Visible(s) \in Nat
  <2>1. (CHOOSE d \in Shown(s) : TRUE) \in Uploads
    BY <1>1, <1>4
  <2>2. Visible(s) = documents[CHOOSE d \in Shown(s) : TRUE].version
    BY <1>4 DEF Visible, Shown
  <2> QED BY <1>2, <2>1, <2>2
<1> QED BY <1>1, <1>3, <1>4

\* A step that does not touch a file leaves what is said of it true.
LEMMA FileStays ==
    ASSUME TypeOK, RegistryInv, NEW s \in Slots, FileKept(s)
    PROVE  /\ SerialInv(s) => SerialInv(s)'
           /\ ListedInv(s) => ListedInv(s)'
           /\ Visible(s)' = Visible(s)
<1>1. /\ slot' = slot
      /\ \A u \in Uploads : slot[u] = s =>
           upload'[u] = upload[u] /\ documents'[u] = documents[u]
  BY DEF FileKept
<1>2. Latest(s)' = Latest(s) /\ Rows(s)' = Rows(s)
  BY <1>1 DEF Latest, Rows, Exists
<1>3. Busy(s)' = Busy(s)
  <2>1. \A x \in Deletions : deletion'[x].pc = "hide" /\ slot[deletion'[x].target] = s <=>
                             deletion[x].pc = "hide" /\ slot[deletion[x].target] = s
    BY DEF FileKept
  <2> QED BY <1>1, <2>1 DEF Busy
<1>4. Quiet(s)' => Quiet(s)
  <2>1. \A x \in Deletions : deletion[x].pc = "done" /\ slot[deletion[x].target] = s =>
                             deletion'[x].pc = "done" /\ slot[deletion'[x].target] = s
    BY DEF FileKept
  <2> QED BY <1>1, <2>1 DEF Quiet
<1>5. \A d \in Latest(s) : documents'[d].version = documents[d].version
  BY <1>1 DEF Latest
<1>6. LastVersion(s) => LastVersion(s)'
  BY <1>1, <1>2, <1>5 DEF LastVersion
<1>7. SerialInv(s) => SerialInv(s)'
  BY <1>1, <1>2, <1>3 DEF SerialInv
<1>8. Visible(s)' = Visible(s)
  <2>1. /\ Replacing(s)' = Replacing(s)
        /\ \A u \in Replacing(s) : upload'[u] = upload[u]
    BY <1>1 DEF Replacing
  <2>2. Shown(s)' = Shown(s)
    BY <1>2, <2>1 DEF Shown
  <2>3. \A d \in Shown(s) : documents'[d].version = documents[d].version
    BY <1>1, ShownRows
  <2> QED BY <2>2, <2>3, VisibleStays DEF FileKept
<1> QED BY <1>2, <1>4, <1>6, <1>7, <1>8 DEF ListedInv

\* A request that starts while no other is on its file leaves the file in the
\* order it is in; otherwise it takes the file out of it.
LEMMA OverlapMoves ==
    ASSUME NEW s, Overlap(s)
    PROVE  /\ overlapped \subseteq overlapped'
           /\ \A r : r # s => (r \in overlapped <=> r \in overlapped')
           /\ s \notin overlapped' => overlapped' = overlapped /\ Busy(s) = {}
BY DEF Overlap, Busy

\* What a step on file s has to show: the invariant of s if its requests still
\* come one at a time, and that a reader sees s stay, go on by one or vanish.
LEMMA FilesMove ==
    ASSUME TypeOK, RegistryInv, FileInv, NEW s \in Slots,
           \A r \in Slots \ {s} : FileKept(r),
           overlapped \subseteq overlapped',
           s \notin overlapped' =>
             /\ SerialInv(s)' /\ ListedInv(s)'
             /\ Visible(s)' \in {Visible(s), Visible(s) + 1, 0}
    PROVE  FileInv' /\ [History!Next]_([r \in Slots |-> Visible(r)])
<1>1. FileInv'
  <2> SUFFICES ASSUME NEW r \in Slots \ overlapped' PROVE SerialInv(r)' /\ ListedInv(r)'
    BY DEF FileInv
  <2>1. CASE r = s
    BY <2>1
  <2>2. CASE r # s
    <3>1. FileKept(r) /\ SerialInv(r) /\ ListedInv(r)
      BY <2>2 DEF FileInv
    <3> QED BY <3>1, FileStays
  <2> QED BY <2>1, <2>2
<1>2. \A r \in Slots \ {s} : Visible(r)' = Visible(r)
  BY FileStays
<1>3. Visible(s) \in Nat /\ Visible(s)' \in {Visible(s), Visible(s) + 1, 0}
  <2>1. s \in overlapped' => Visible(s)' = 0
    BY DEF Visible
  <2> QED BY <2>1, ShownRows
<1>4. CASE Visible(s)' = Visible(s)
  <2>1. \A r \in Slots : Visible(r)' = Visible(r)
    BY <1>2, <1>4
  <2> QED BY <1>1, <2>1
<1>5. CASE Visible(s)' = Visible(s) + 1
  <2>1. History!Publish(s)
    BY <1>2, <1>5 DEF History!Publish
  <2> QED BY <1>1, <2>1 DEF History!Next
<1>6. CASE Visible(s)' = 0 /\ Visible(s) > 0
  <2>1. History!Withdraw(s)
    BY <1>2, <1>6 DEF History!Withdraw
  <2> QED BY <1>1, <2>1 DEF History!Next
<1> QED BY <1>3, <1>4, <1>5, <1>6

\* A statement of an upload is a step of the version history, or none, for every
\* file.
LEMMA FilesUpload ==
    ASSUME TypeOK, RegistryInv, FileInv, NEW u \in Uploads, Upload(u)
    PROVE  FileInv' /\ [History!Next]_([r \in Slots |-> Visible(r)])
<1>0. PICK s \in Slots, f \in Uploads \cup {NoDocument} : s = slot[u] /\ f = upload[u].found
  BY DEF TypeOK
<1>t. /\ s = slot[u] /\ f = upload[u].found /\ upload[u].version \in Nat
      /\ documents \in [Uploads -> Row] /\ NoDocument \notin Uploads
      /\ DOMAIN upload = Uploads /\ UploadInv(u)
  BY <1>0, RegistryAssumption DEF TypeOK, RegistryInv
<1>1. /\ UNCHANGED <<slot, deletion>> /\ \A v \in Uploads \ {u} : upload'[v] = upload[v]
      /\ overlapped \subseteq overlapped'
      /\ \A r : r # s => (r \in overlapped <=> r \in overlapped')
      /\ s \notin overlapped' => overlapped' = overlapped
  <2>1. CASE SelectExisting(u)
    BY <1>t, <2>1, OverlapMoves DEF SelectExisting
  <2>2. CASE RetireExisting(u) \/ InsertDocument(u) \/ AbortUpload(u)
    BY <1>t, <2>2 DEF RetireExisting, InsertDocument, AbortUpload
  <2> QED BY <2>1, <2>2 DEF Upload
<1>2. \A d \in Uploads : slot[d] # s => documents'[d] = documents[d]
  <2>1. CASE RetireExisting(u)
    <3>1. slot[f] = s
      BY <1>t, <2>1 DEF RetireExisting, UploadInv
    <3> QED BY <1>t, <2>1, <3>1 DEF RetireExisting
  <2>2. CASE InsertDocument(u)
    BY <1>t, <2>2 DEF InsertDocument
  <2>3. CASE SelectExisting(u) \/ AbortUpload(u)
    BY <2>3 DEF SelectExisting, AbortUpload
  <2> QED BY <2>1, <2>2, <2>3 DEF Upload
<1>3. \A r \in Slots \ {s} : FileKept(r)
  BY <1>t, <1>1, <1>2 DEF FileKept
<1>4. ASSUME s \notin overlapped'
      PROVE  /\ SerialInv(s)' /\ ListedInv(s)'
             /\ Visible(s)' \in {Visible(s), Visible(s) + 1, 0}
  <2>1. SerialInv(s) /\ ListedInv(s) /\ s \notin overlapped
    BY <1>t, <1>1, <1>4 DEF FileInv
  <2>2. \A p \in Busy(s)' : p = u \/ p \in Busy(s)
    BY <1>1 DEF Busy
  <2>3. CASE SelectExisting(u)
    <3>1. Busy(s) = {} /\ UNCHANGED documents /\ upload[u].pc = "idle"
      BY <1>t, <1>4, <2>3, OverlapMoves DEF SelectExisting
    <3>2. Latest(s)' = Latest(s) /\ Rows(s)' = Rows(s)
      BY <1>1, <3>1 DEF Latest, Rows, Exists
    <3>3. \/ upload'[u].pc = "retire" /\ upload'[u].found \in Latest(s)
          \/ /\ Latest(s) = {} /\ upload'[u].pc = "insert"
             /\ upload'[u].found = NoDocument /\ upload'[u].version = 0
      <4>1. f = NoDocument /\ upload[u].version = 0
        BY <1>t, <3>1 DEF UploadInv
      <4>2. upload \in [Uploads -> [pc : {"idle", "retire", "insert", "done", "aborted"},
               found : Uploads \cup {NoDocument}, version : Nat]]
        BY DEF TypeOK
      <4>3. CASE \E d \in Latest(s) : upload' = [upload EXCEPT ![u] =
                [pc |-> "retire", found |-> d, version |-> documents[d].version]]
        BY <4>2, <4>3
      <4>4. CASE Latest(s) = {} /\ upload' = [upload EXCEPT ![u].pc = "insert"]
        BY <1>t, <4>1, <4>2, <4>4
      <4> QED BY <1>t, <2>3, <4>3, <4>4 DEF SelectExisting
    <3>4. \A v \in Uploads \ {u} : slot[v] = s => upload[v].pc \notin {"retire", "insert"}
      BY <3>1 DEF Busy
    <3>5. SerialInv(s)'
      <4>1. \A p, q \in Busy(s)' : p = q
        BY <2>2, <3>1
      <4>2. ASSUME NEW v \in Uploads, slot'[v] = s
            PROVE  /\ upload'[v].pc = "retire" => upload'[v].found \in Latest(s)'
                   /\ upload'[v].pc = "insert" => Latest(s)' = {}
        BY <1>1, <3>2, <3>3, <3>4, <4>2
      <4> QED BY <1>1, <2>1, <3>2, <4>1, <4>2 DEF SerialInv
    <3>6. LastVersion(s) => LastVersion(s)'
      <4>1. CASE Rows(s) = {}
        <5>1. Latest(s) = {}
          BY <4>1 DEF Rows, Latest
        <5> QED BY <1>1, <3>2, <3>3, <3>4, <4>1, <5>1 DEF LastVersion
      <4>2. CASE \E d \in Latest(s) : documents[d].version = Cardinality(Rows(s))
        BY <3>1, <3>2, <4>2 DEF LastVersion
      <4>3. upload[u].pc # "insert"
        BY <3>1
      <4> QED BY <3>4, <4>1, <4>2, <4>3 DEF LastVersion
    <3>7. Quiet(s)' => Quiet(s)
      BY <1>1, <3>1 DEF Quiet
    <3>8. Visible(s)' = Visible(s)
      <4>1. Replacing(s) = {} /\ Replacing(s)' = {}
        BY <1>1, <3>1, <3>3, <3>4 DEF Replacing
      <4>2. Shown(s)' = Shown(s)
        BY <3>2, <4>1 DEF Shown
      <4> QED BY <1>1, <1>4, <3>1, <4>2, VisibleStays
    <3> QED BY <2>1, <3>2, <3>5, <3>6, <3>7, <3>8 DEF ListedInv
  <2>4. CASE RetireExisting(u)
    <3>1. /\ upload[u].pc = "retire" /\ upload'[u].pc = "insert"
          /\ upload'[u].found = f /\ upload'[u].version = upload[u].version
      <4>1. upload \in [Uploads -> [pc : {"idle", "retire", "insert", "done", "aborted"},
               found : Uploads \cup {NoDocument}, version : Nat]]
        BY DEF TypeOK
      <4> QED BY <1>t, <2>4, <4>1 DEF RetireExisting
    <3>2. u \in Busy(s) /\ f \in Latest(s) /\ f \in Uploads /\ f # NoDocument
      BY <1>t, <2>1, <3>1 DEF Busy, SerialInv, Latest
    <3>3. /\ \A p \in Busy(s)' : p = u
          /\ \A v \in Uploads \ {u} : slot[v] = s => upload[v].pc \notin {"retire", "insert"}
      <4>1. \A p \in Busy(s) : p = u
        BY <2>1, <3>2 DEF SerialInv
      <4> QED BY <2>2, <4>1 DEF Busy
    <3>4. Latest(s) = {f}
      BY <2>1, <3>2 DEF SerialInv
    <3>5. /\ \A d \in Uploads : documents'[d].version = documents[d].version
          /\ ~documents'[f].is_latest
          /\ \A d \in Uploads \ {f} : documents'[d] = documents[d]
      BY <1>t, <2>4, <3>2 DEF RetireExisting, Row
    <3>6. Latest(s)' = {} /\ Rows(s)' = Rows(s)
      BY <1>1, <3>4, <3>5 DEF Latest, Rows, Exists
    <3>7. SerialInv(s)'
      <4>1. ASSUME NEW v \in Uploads, slot'[v] = s
            PROVE  /\ upload'[v].pc # "retire"
        BY <1>1, <3>1, <3>3, <4>1
      <4> QED BY <1>1, <3>3, <3>6, <4>1 DEF SerialInv
    <3>8. LastVersion(s) => LastVersion(s)'
      <4>1. f \in Rows(s) /\ documents[f].version = upload[u].version
        BY <1>t, <3>2 DEF UploadInv, Rows, Latest
      <4>2. CASE \E d \in Latest(s) : documents[d].version = Cardinality(Rows(s))
        BY <1>t, <1>1, <3>1, <3>4, <3>6, <4>1, <4>2 DEF LastVersion
      <4>3. ~\E v \in Uploads : slot[v] = s /\ upload[v].pc = "insert"
        BY <3>1, <3>3
      <4> QED BY <4>1, <4>2, <4>3 DEF LastVersion
    <3>9. Quiet(s)' => Quiet(s)
      BY <1>1, <3>1 DEF Quiet
    <3>10. Visible(s)' = Visible(s)
      <4>1. Replacing(s) = {}
        BY <3>1, <3>3 DEF Replacing
      <4>2. Replacing(s)' = {u}
        BY <1>t, <1>1, <3>1, <3>2, <3>3 DEF Replacing
      <4>3. Shown(s) = {f} /\ Shown(s)' = {f}
        BY <3>1, <3>4, <3>6, <4>1, <4>2 DEF Shown
      <4> QED BY <1>4, <2>1, <3>2, <3>5, <4>3, VisibleStays
    <3> QED BY <2>1, <3>6, <3>7, <3>8, <3>9, <3>10 DEF ListedInv
  <2>5. CASE InsertDocument(u)
    <3>1. /\ upload[u].pc = "insert" /\ upload'[u].pc = "done"
          /\ documents'[u] = [version |-> upload[u].version + 1, is_latest |-> TRUE]
          /\ \A d \in Uploads \ {u} : documents'[d] = documents[d]
          /\ documents[u].version = 0
      <4>1. upload \in [Uploads -> [pc : {"idle", "retire", "insert", "done", "aborted"},
               found : Uploads \cup {NoDocument}, version : Nat]]
        BY DEF TypeOK
      <4> QED BY <1>t, <2>5, <4>1 DEF InsertDocument, UploadInv
    <3>2. u \in Busy(s) /\ Latest(s) = {}
      BY <1>t, <2>1, <3>1 DEF Busy, SerialInv
    <3>3. /\ Busy(s)' = {}
          /\ \A v \in Uploads \ {u} : slot[v] = s => upload[v].pc \notin {"retire", "insert"}
      <4>1. \A p \in Busy(s) : p = u
        BY <2>1, <3>2 DEF SerialInv
      <4>2. \A v \in Uploads \ {u} : slot[v] = s => upload[v].pc \notin {"retire", "insert"}
        BY <4>1 DEF Busy
      <4>3. u \notin Deletions
        BY RegistryAssumption
      <4>4. \A x \in Deletions : ~(deletion[x].pc = "hide" /\ slot[deletion[x].target] = s)
        BY <4>1, <4>3 DEF Busy
      <4> QED BY <1>1, <3>1, <4>2, <4>4 DEF Busy
    <3>4. Latest(s)' = {u} /\ Rows(s)' = Rows(s) \cup {u} /\ u \notin Rows(s)
      <4>1. documents'[u].version > 0 /\ documents'[u].is_latest
        BY <1>t, <3>1
      <4> QED BY <1>t, <1>1, <3>1, <3>2, <4>1 DEF Latest, Rows, Exists
    <3>5. SerialInv(s)'
      <4>1. ASSUME NEW v \in Uploads, slot'[v] = s
            PROVE  upload'[v].pc \notin {"retire", "insert"}
        BY <1>1, <3>1, <3>3, <4>1
      <4> QED BY <1>1, <3>3, <3>4, <4>1 DEF SerialInv
    <3>6. /\ IsFiniteSet(Rows(s)')
          /\ Cardinality(Rows(s)') = Cardinality(Rows(s)) + 1
      BY <2>1, <3>4, FS_AddElement DEF ListedInv
    <3>7. LastVersion(s) => LastVersion(s)'
      <4>1. LastVersion(s) => upload[u].version = Cardinality(Rows(s))
        <5>1. Rows(s) = {} => Cardinality(Rows(s)) = 0
          BY FS_EmptySet
        <5> QED BY <1>t, <3>1, <3>2, <3>3, <5>1 DEF LastVersion
      <4>2. documents'[u].version = upload[u].version + 1
        BY <3>1
      <4> QED BY <3>4, <3>6, <4>1, <4>2 DEF LastVersion
    <3>8. Quiet(s)' => Quiet(s)
      BY <1>1, <3>1 DEF Quiet
    <3>9. Visible(s)' = Visible(s) + 1
      <4>1. Visible(s) = upload[u].version
        <5>1. CASE f = NoDocument
          <6>1. Replacing(s) = {} /\ upload[u].version = 0
            BY <1>t, <3>3, <5>1 DEF Replacing, UploadInv
          <6> QED BY <3>2, <6>1 DEF Visible
        <5>2. CASE f # NoDocument
          <6>1. Replacing(s) = {u}
            BY <1>t, <3>1, <3>3, <5>2 DEF Replacing
          <6>2. Latest(s) \cup {upload[v].found : v \in Replacing(s)} = {f}
            BY <1>t, <3>2, <6>1
          <6>3. Visible(s) = documents[f].version
            BY <2>1, <6>2 DEF Visible
          <6> QED BY <1>t, <5>2, <6>3 DEF UploadInv
        <5> QED BY <5>1, <5>2
      <4>2. Replacing(s)' = {}
        BY <1>1, <3>1, <3>3 DEF Replacing
      <4>3. (Latest(s) \cup {upload[v].found : v \in Replacing(s)})' = {u}
        BY <3>4, <4>2
      <4>4. Visible(s)' = documents'[u].version
        BY <1>4, <4>3 DEF Visible
      <4> QED BY <3>1, <4>1, <4>4
    <3> QED BY <2>1, <3>5, <3>6, <3>7, <3>8, <3>9 DEF ListedInv
  <2>6. CASE AbortUpload(u)
    <3>1. /\ upload[u].pc \in {"retire", "insert"} /\ upload'[u].pc = "aborted"
          /\ UNCHANGED documents
      BY <1>t, <2>6 DEF AbortUpload, TypeOK
    <3>2. Latest(s)' = Latest(s) /\ Rows(s)' = Rows(s)
      BY <1>1, <3>1 DEF Latest, Rows, Exists
    <3>3. u \in Busy(s)
      BY <1>t, <3>1 DEF Busy
    <3>4. \A p, q \in Busy(s)' : p = q
      BY <2>1, <2>2, <3>3 DEF SerialInv
    <3>5. \A v \in Uploads \ {u} : slot[v] = s => upload[v].pc \notin {"retire", "insert"}
      BY <2>1, <3>3 DEF SerialInv, Busy
    <3>6. SerialInv(s)'
      <4>1. ASSUME NEW v \in Uploads, slot'[v] = s
            PROVE  upload'[v].pc \notin {"retire", "insert"}
        BY <1>1, <3>1, <3>5, <4>1
      <4> QED BY <1>1, <2>1, <3>2, <3>4, <4>1 DEF SerialInv
    <3>7. ~Quiet(s)'
      BY <1>t, <1>1, <3>1 DEF Quiet
    <3>8. Replacing(s)' = {}
      BY <1>1, <3>1, <3>5 DEF Replacing
    <3>9. Visible(s)' \in {Visible(s), 0}
      <4>1. CASE upload[u].pc = "retire"
        <5>1. Replacing(s) = {}
          BY <3>5, <4>1 DEF Replacing
        <5>2. Shown(s)' = Shown(s)
          BY <3>2, <3>8, <5>1 DEF Shown
        <5> QED BY <1>4, <2>1, <3>1, <5>2, VisibleStays
      <4>2. CASE upload[u].pc = "insert"
        <5>1. Latest(s) = {}
          BY <1>t, <2>1, <4>2 DEF SerialInv
        <5> QED BY <3>2, <3>8, <5>1 DEF Visible
      <4> QED BY <3>1, <4>1, <4>2
    <3> QED BY <2>1, <3>2, <3>6, <3>7, <3>9 DEF ListedInv
  <2> QED BY <2>3, <2>4, <2>5, <2>6 DEF Upload
<1> QED BY <1>t, <1>1, <1>3, <1>4, FilesMove

\* A statement of a deletion is one too.
LEMMA FilesDeletion ==
    ASSUME TypeOK, RegistryInv, FileInv, NEW x \in Deletions, Delete(x)
    PROVE  FileInv' /\ [History!Next]_([r \in Slots |-> Visible(r)])
<1>t. /\ deletion \in [Deletions -> [pc : {"idle", "hide", "done", "aborted"},
                                     target : Uploads \cup {NoDocument}]]
      /\ documents \in [Uploads -> Row] /\ slot \in [Uploads -> Slots]
      /\ DeletionInv(x) /\ NoDocument \notin Uploads /\ x \notin Uploads
  BY RegistryAssumption DEF TypeOK, RegistryInv
<1>1. PICK t \in Uploads :
        /\ deletion'[x].pc # "idle" /\ deletion'[x].target = t
        /\ deletion[x].pc # "idle" => deletion[x].target = t
        /\ SelectForDeletion(x) => Overlap(slot[t])
  <2>1. CASE SelectForDeletion(x)
    BY <1>t, <2>1 DEF SelectForDeletion
  <2>2. CASE HideDocument(x) \/ AbortDeletion(x)
    <3>1. deletion[x].target \in Uploads /\ deletion[x].pc = "hide"
      BY <1>t, <2>2 DEF HideDocument, AbortDeletion, DeletionInv
    <3>2. deletion'[x].pc \in {"done", "aborted"} /\ deletion'[x].target = deletion[x].target
      BY <1>t, <2>2 DEF HideDocument, AbortDeletion
    <3>3. ~SelectForDeletion(x)
      BY <3>1 DEF SelectForDeletion
    <3> QED BY <3>1, <3>2, <3>3
  <2> QED BY <2>1, <2>2 DEF Delete
<1>2. PICK s \in Slots : s = slot[t]
  BY <1>t
<1>3. /\ UNCHANGED <<slot, upload>>
      /\ \A y \in Deletions \ {x} : deletion'[y] = deletion[y]
      /\ overlapped \subseteq overlapped'
      /\ \A r : r # s => (r \in overlapped <=> r \in overlapped')
      /\ s \notin overlapped' => overlapped' = overlapped
  <2>1. CASE SelectForDeletion(x)
    <3>1. Overlap(s)
      BY <1>1, <1>2, <2>1
    <3> QED BY <1>t, <2>1, <3>1, OverlapMoves DEF SelectForDeletion
  <2>2. CASE HideDocument(x) \/ AbortDeletion(x)
    BY <1>t, <2>2 DEF HideDocument, AbortDeletion
  <2> QED BY <2>1, <2>2 DEF Delete
<1>4. UNCHANGED documents \/ documents' = [documents EXCEPT ![t].is_latest = FALSE]
  BY <1>1 DEF Delete, SelectForDeletion, HideDocument, AbortDeletion
<1>5. \A r \in Slots \ {s} : FileKept(r)
  <2>1. \A d \in Uploads \ {t} : documents'[d] = documents[d]
    BY <1>t, <1>4
  <2>2. ASSUME NEW r \in Slots \ {s}, NEW y \in Deletions, NEW pc \in {"hide", "done"}
        PROVE  deletion'[y].pc = pc /\ slot[deletion'[y].target] = r <=>
                 deletion[y].pc = pc /\ slot[deletion[y].target] = r
    BY <1>1, <1>2, <1>3
  <2> QED BY <1>2, <1>3, <2>1, <2>2 DEF FileKept
<1>6. ASSUME s \notin overlapped'
      PROVE  /\ SerialInv(s)' /\ ListedInv(s)'
             /\ Visible(s)' \in {Visible(s), Visible(s) + 1, 0}
  <2>1. SerialInv(s) /\ ListedInv(s) /\ s \notin overlapped
    BY <1>3, <1>6 DEF FileInv
  <2>2. Replacing(s)' = Replacing(s) /\ (Quiet(s)' => Quiet(s))
    <3>1. \A y \in Deletions : deletion[y].pc = "done" => deletion'[y] = deletion[y]
      BY <1>1, <1>3 DEF Delete, SelectForDeletion, HideDocument, AbortDeletion
    <3> QED BY <1>3, <3>1 DEF Replacing, Quiet
  <2>3. \A p, q \in Busy(s)' : p = q
    <3>1. CASE SelectForDeletion(x)
      <4>1. Busy(s) = {}
        BY <1>1, <1>2, <1>6, <3>1, OverlapMoves
      <4>2. \A p \in Busy(s)' : p = x \/ p \in Busy(s)
        BY <1>3 DEF Busy
      <4> QED BY <4>1, <4>2
    <3>2. CASE HideDocument(x) \/ AbortDeletion(x)
      <4>1. deletion'[x].pc # "hide"
        BY <1>t, <3>2 DEF HideDocument, AbortDeletion
      <4>2. \A p \in Busy(s)' : p \in Busy(s)
        BY <1>3, <4>1 DEF Busy
      <4> QED BY <2>1, <4>2 DEF SerialInv
    <3> QED BY <3>1, <3>2 DEF Delete
  <2>4. CASE UNCHANGED documents
    <3>1. Latest(s)' = Latest(s) /\ Rows(s)' = Rows(s)
      BY <1>3, <2>4 DEF Latest, Rows, Exists
    <3>2. SerialInv(s)'
      BY <1>3, <2>1, <2>3, <3>1 DEF SerialInv
    <3>3. LastVersion(s) => LastVersion(s)'
      BY <1>3, <2>4, <3>1 DEF LastVersion
    <3>4. Visible(s)' = Visible(s)
      <4>1. Shown(s)' = Shown(s)
        BY <1>3, <2>2, <3>1 DEF Shown
      <4> QED BY <1>6, <2>1, <2>4, <4>1, VisibleStays
    <3> QED BY <2>1, <2>2, <3>1, <3>2, <3>3, <3>4 DEF ListedInv
  <2>5. CASE HideDocument(x)
    <3>1. documents' = [documents EXCEPT ![t].is_latest = FALSE]
      BY <1>1, <2>5 DEF HideDocument
    <3>2. /\ \A d \in Uploads : documents'[d].version = documents[d].version
          /\ ~documents'[t].is_latest
          /\ \A d \in Uploads \ {t} : documents'[d] = documents[d]
      BY <1>t, <3>1 DEF Row
    <3>3. Latest(s)' = Latest(s) \ {t} /\ Rows(s)' = Rows(s)
      BY <1>3, <3>2 DEF Latest, Rows, Exists
    <3>4. \A u \in Uploads : slot[u] = s => upload[u].pc \notin {"retire", "insert"}
      <4>1. x \in Busy(s)
        BY <1>1, <1>2, <2>5 DEF HideDocument, Busy
      <4> QED BY <1>t, <2>1, <4>1 DEF SerialInv, Busy
    <3>5. SerialInv(s)'
      <4>1. \A d, e \in Latest(s)' : d = e
        BY <2>1, <3>3 DEF SerialInv
      <4> QED BY <1>3, <2>3, <3>4, <4>1 DEF SerialInv
    <3>6. ~Quiet(s)'
      <4>1. deletion'[x].pc = "done"
        BY <1>t, <2>5 DEF HideDocument
      <4> QED BY <1>1, <1>2, <1>3, <4>1 DEF Quiet
    <3>7. Visible(s)' \in {Visible(s), 0}
      <4>1. Replacing(s) = {}
        BY <3>4 DEF Replacing
      <4>2. CASE t \in Latest(s)
        <5>1. Latest(s)' = {}
          BY <2>1, <3>3, <4>2 DEF SerialInv
        <5> QED BY <2>2, <4>1, <5>1 DEF Visible
      <4>3. CASE t \notin Latest(s)
        <5>1. Shown(s)' = Shown(s) /\ Shown(s) \subseteq Uploads
          BY <1>3, <2>2, <3>3, <4>1, <4>3 DEF Shown, Latest
        <5> QED BY <1>6, <2>1, <3>2, <5>1, VisibleStays
      <4> QED BY <4>2, <4>3
    <3> QED BY <2>1, <3>3, <3>5, <3>6, <3>7 DEF ListedInv
  <2>6. UNCHANGED documents \/ HideDocument(x)
    BY DEF Delete, SelectForDeletion, AbortDeletion
  <2> QED BY <2>4, <2>5, <2>6
<1> QED BY <1>3, <1>5, <1>6, FilesMove

\* FileInv is an invariant.
LEMMA FileInvariant == Spec => []FileInv
<1>1. Init => FileInv
  <2> SUFFICES ASSUME Init, NEW s \in Slots PROVE SerialInv(s) /\ ListedInv(s)
    BY DEF FileInv
  <2>1. Rows(s) = {} /\ Latest(s) = {} /\ Busy(s) = {}
    BY DEF Init, Rows, Latest, Busy, Exists
  <2>2. \A u \in Uploads : upload[u].pc = "idle"
    BY DEF Init
  <2>3. SerialInv(s)
    BY <2>1, <2>2 DEF SerialInv
  <2>4. LastVersion(s)
    BY <2>1, <2>2 DEF LastVersion
  <2> QED BY <2>1, <2>3, <2>4, FS_EmptySet DEF ListedInv
<1>2. TypeOK /\ RegistryInv /\ FileInv /\ [Next]_vars => FileInv'
  <2> SUFFICES ASSUME TypeOK, RegistryInv, FileInv, [Next]_vars PROVE FileInv'
    OBVIOUS
  <2>1. CASE UNCHANGED vars
    <3>1. \A s \in Slots : FileKept(s)
      BY <2>1 DEF vars, FileKept
    <3> QED BY <2>1, <3>1, FileStays DEF vars, FileInv
  <2> QED BY <2>1, FilesUpload, FilesDeletion DEF Next
<1> QED BY <1>1, <1>2, TypeCorrect, RegistryInvariant, PTL DEF Spec

\* A file whose requests came one at a time never has two current versions,
\* whatever the requests for other files do meanwhile.
THEOREM OneLatest == Spec => []AtMostOneLatest
<1>1. FileInv => AtMostOneLatest
  <2> SUFFICES ASSUME FileInv, NEW s \in Slots \ overlapped
               PROVE  Cardinality(Latest(s)) <= 1
    BY DEF AtMostOneLatest
  <2>1. \A d, e \in Latest(s) : d = e
    BY DEF FileInv, SerialInv
  <2>2. CASE Latest(s) = {}
    BY <2>2, FS_EmptySet
  <2>3. CASE Latest(s) # {}
    <3>1. PICK d : Latest(s) = {d}
      BY <2>1, <2>3
    <3> QED BY <3>1, FS_Singleton
  <2> QED BY <2>2, <2>3
<1> QED BY <1>1, FileInvariant, PTL

\* Such a file, once uploaded, stays on the list at the version that counts
\* its uploads, unless it was deleted or a request for it stopped half way.
THEOREM ListedAtCount == Spec => []ListedAtItsVersion
<1>1. FileInv => ListedAtItsVersion
  <2> SUFFICES ASSUME FileInv, NEW s \in Slots, Undisturbed(s), Rows(s) # {}
               PROVE  \E d \in Latest(s) : documents[d].version = Cardinality(Rows(s))
    BY DEF ListedAtItsVersion
  <2>1. Quiet(s) /\ ListedInv(s)
    BY DEF Undisturbed, Quiet, FileInv
  <2>2. ~\E u \in Uploads : slot[u] = s /\ upload[u].pc = "insert"
    BY DEF Undisturbed
  <2> QED BY <2>1, <2>2 DEF ListedInv, LastVersion
<1> QED BY <1>1, FileInvariant, PTL

\* For a reader, the statements of the gateway implement the history of each
\* file: for every number of requests, interleaved, stopped or deleting.
THEOREM HistoryIsImplemented == Spec => ImplementsVersionHistory
<1>1. Init => History!Init
  <2> SUFFICES ASSUME Init, NEW s \in Slots PROVE Visible(s) = 0
    BY DEF History!Init
  <2>1. Latest(s) = {} /\ Replacing(s) = {}
    BY DEF Init, Latest, Replacing, Exists
  <2> QED BY <2>1 DEF Visible
<1>2. TypeOK /\ RegistryInv /\ FileInv /\ [Next]_vars
        => [History!Next]_([s \in Slots |-> Visible(s)])
  <2> SUFFICES ASSUME TypeOK, RegistryInv, FileInv, [Next]_vars
               PROVE  [History!Next]_([s \in Slots |-> Visible(s)])
    OBVIOUS
  <2>1. CASE UNCHANGED vars
    <3>1. \A s \in Slots : FileKept(s)
      BY <2>1 DEF vars, FileKept
    <3>2. \A s \in Slots : Visible(s)' = Visible(s)
      BY <3>1, FileStays
    <3> QED BY <3>2
  <2> QED BY <2>1, FilesUpload, FilesDeletion DEF Next
<1> QED BY <1>1, <1>2, TypeCorrect, RegistryInvariant, FileInvariant, PTL
        DEF Spec, ImplementsVersionHistory, History!Spec
=============================================================================
