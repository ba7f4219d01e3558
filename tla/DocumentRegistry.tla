-------------------------- MODULE DocumentRegistry --------------------------
(* The documents table as the API gateway writes it                         *)
(* (api-gateway/routers/documents.py).                                      *)
(*                                                                          *)
(* An upload looks for the current version of its file, takes is_latest     *)
(* away from it and inserts the successor: three statements on an           *)
(* autocommit connection, without a transaction, in one of several gateway  *)
(* processes.  A deletion looks a row up, makes two attempts outside the    *)
(* table that change nothing in it, and takes is_latest away.  Statements   *)
(* of different requests interleave; a request may also stop between two    *)
(* of its statements (a statement that raises, a gateway process that       *)
(* dies), and what it did so far stays.  A request refused before its first *)
(* statement (not an administrator, over the limit, no file) never leaves   *)
(* "idle".                                                                  *)
(*                                                                          *)
(* Definitions marked "Mutant" are not part of the model: each is a wrong   *)
(* form of the definition after it that one of the properties rejects.      *)
EXTENDS Naturals, FiniteSets

CONSTANTS
    Uploads,        \* POST /ingest requests; each inserts at most one row
    Deletions,      \* DELETE /{document_id} requests
    Slots,          \* pairs <filename, department>
    NoDocument,     \* a SELECT that returns no row
    MaxInFlight,    \* bound: requests between their first and last statement
    MaxAborted      \* bound: requests that stop between two statements

ASSUME RegistryAssumption ==
    /\ NoDocument \notin Uploads
    /\ Uploads \cap Deletions = {}
    /\ MaxInFlight \in Nat
    /\ MaxAborted \in Nat

VARIABLES
    slot,           \* slot[u]: the file and department upload u carries
    upload,         \* upload[u]: [pc, found, version], the row its SELECT
                    \* returned and that row's version (NoDocument and 0: none)
    deletion,       \* deletion[x]: [pc, target]
    documents,      \* documents[u]: the row upload u inserted, version 0 before
    overlapped      \* files on which two requests were in flight at once
                    \* (history)

vars == <<slot, upload, deletion, documents, overlapped>>

Row == [version : Nat, is_latest : BOOLEAN]

TypeOK ==
    /\ slot \in [Uploads -> Slots]
    /\ upload \in [Uploads ->
          [pc : {"idle", "retire", "insert", "done", "aborted"},
           found : Uploads \cup {NoDocument},
           version : Nat]]
    /\ deletion \in [Deletions ->
          [pc : {"idle", "hide", "done", "aborted"},
           target : Uploads \cup {NoDocument}]]
    /\ documents \in [Uploads -> Row]
    /\ overlapped \subseteq Slots

Init ==
    /\ slot \in [Uploads -> Slots]
    /\ upload = [u \in Uploads |->
          [pc |-> "idle", found |-> NoDocument, version |-> 0]]
    /\ deletion = [x \in Deletions |-> [pc |-> "idle", target |-> NoDocument]]
    /\ documents = [u \in Uploads |-> [version |-> 0, is_latest |-> FALSE]]
    /\ overlapped = {}

Exists(d) == documents[d].version > 0

\* WHERE filename = .. AND department IS NOT DISTINCT FROM .. AND is_latest
Latest(s) ==
    {d \in Uploads : Exists(d) /\ slot[d] = s /\ documents[d].is_latest}

InFlight ==
    {u \in Uploads : upload[u].pc \in {"retire", "insert"}}
        \cup {x \in Deletions : deletion[x].pc = "hide"}

Aborted ==
    {u \in Uploads : upload[u].pc = "aborted"}
        \cup {x \in Deletions : deletion[x].pc = "aborted"}

MayStart == Cardinality(InFlight) < MaxInFlight

\* A request for a row of file s starts.
Overlap(s) ==
    overlapped' =
        IF \/ \E u \in Uploads : upload[u].pc \in {"retire", "insert"} /\ slot[u] = s
           \/ \E x \in Deletions : deletion[x].pc = "hide" /\ slot[deletion[x].target] = s
        THEN overlapped \cup {s}
        ELSE overlapped

--------------------------------------------------------------------------
\* POST /ingest

\* Mutant: existing["version"] is read although no row was found.
SelectExisting_WithoutElse(u) ==
    /\ upload[u].pc = "idle"
    /\ MayStart
    /\ \/ \E d \in Latest(slot[u]) :
            upload' = [upload EXCEPT ![u] =
              [pc |-> "retire", found |-> d, version |-> documents[d].version]]
       \/ /\ Latest(slot[u]) = {}
          /\ upload' = [upload EXCEPT ![u].pc = "insert", ![u].version = NoDocument]
    /\ Overlap(slot[u])
    /\ UNCHANGED <<slot, deletion, documents>>

\* Mutant: the row is looked up by file name only, whatever its department.
SelectExisting_AnyDepartment(u) ==
    /\ upload[u].pc = "idle"
    /\ MayStart
    /\ \/ \E s \in Slots : \E d \in Latest(s) :
            upload' = [upload EXCEPT ![u] =
              [pc |-> "retire", found |-> d, version |-> documents[d].version]]
       \/ /\ \A s \in Slots : Latest(s) = {}
          /\ upload' = [upload EXCEPT ![u].pc = "insert"]
    /\ Overlap(slot[u])
    /\ UNCHANGED <<slot, deletion, documents>>

\* fetchrow returns one of the matching rows, any of them, or none.
SelectExisting(u) ==
    /\ upload[u].pc = "idle"
    /\ MayStart
    /\ \/ \E d \in Latest(slot[u]) :
            upload' = [upload EXCEPT ![u] =
              [pc |-> "retire", found |-> d, version |-> documents[d].version]]
       \/ /\ Latest(slot[u]) = {}
          /\ upload' = [upload EXCEPT ![u].pc = "insert"]
    /\ Overlap(slot[u])
    /\ UNCHANGED <<slot, deletion, documents>>

\* Mutant: the old version is left as the latest.
RetireExisting_Forgotten(u) ==
    /\ upload[u].pc = "retire"
    /\ upload' = [upload EXCEPT ![u].pc = "insert"]
    /\ UNCHANGED <<slot, deletion, documents, overlapped>>

RetireExisting(u) ==
    /\ upload[u].pc = "retire"
    /\ documents' = [documents EXCEPT ![upload[u].found].is_latest = FALSE]
    /\ upload' = [upload EXCEPT ![u].pc = "insert"]
    /\ UNCHANGED <<slot, deletion, overlapped>>

\* Mutant: the successor is inserted with the version it replaces.
InsertDocument_SameVersion(u) ==
    /\ upload[u].pc = "insert"
    /\ documents' = [documents EXCEPT ![u] =
          [version |-> IF upload[u].found = NoDocument THEN 1 ELSE upload[u].version,
           is_latest |-> TRUE]]
    /\ upload' = [upload EXCEPT ![u].pc = "done"]
    /\ UNCHANGED <<slot, deletion, overlapped>>

\* version = existing["version"] + 1 if a row was found, else 1; version 0
\* stands for "no row" here, so both are one more than what was read.
InsertDocument(u) ==
    /\ upload[u].pc = "insert"
    /\ documents' = [documents EXCEPT
          ![u] = [version |-> upload[u].version + 1, is_latest |-> TRUE]]
    /\ upload' = [upload EXCEPT ![u].pc = "done"]
    /\ UNCHANGED <<slot, deletion, overlapped>>

AbortUpload(u) ==
    /\ upload[u].pc \in {"retire", "insert"}
    /\ Cardinality(Aborted) < MaxAborted
    /\ upload' = [upload EXCEPT ![u].pc = "aborted"]
    /\ UNCHANGED <<slot, deletion, documents, overlapped>>

--------------------------------------------------------------------------
\* DELETE /{document_id}

\* Any row may be named, an old version included; 404 if there is none.
SelectForDeletion(x) ==
    /\ deletion[x].pc = "idle"
    /\ MayStart
    /\ \E d \in Uploads :
         /\ Exists(d)
         /\ deletion' = [deletion EXCEPT ![x] = [pc |-> "hide", target |-> d]]
         /\ Overlap(slot[d])
    /\ UNCHANGED <<slot, upload, documents>>

HideDocument(x) ==
    /\ deletion[x].pc = "hide"
    /\ documents' = [documents EXCEPT ![deletion[x].target].is_latest = FALSE]
    /\ deletion' = [deletion EXCEPT ![x].pc = "done"]
    /\ UNCHANGED <<slot, upload, overlapped>>

\* Mutant: a failing UPDATE is swallowed like the two attempts before it.
AbortDeletion_Swallowed(x) ==
    /\ deletion[x].pc = "hide"
    /\ Cardinality(Aborted) < MaxAborted
    /\ deletion' = [deletion EXCEPT ![x].pc = "done"]
    /\ UNCHANGED <<slot, upload, documents, overlapped>>

AbortDeletion(x) ==
    /\ deletion[x].pc = "hide"
    /\ Cardinality(Aborted) < MaxAborted
    /\ deletion' = [deletion EXCEPT ![x].pc = "aborted"]
    /\ UNCHANGED <<slot, upload, documents, overlapped>>

--------------------------------------------------------------------------
Upload(u) ==
    \/ SelectExisting(u)
    \/ RetireExisting(u)
    \/ InsertDocument(u)
    \/ AbortUpload(u)

Delete(x) ==
    \/ SelectForDeletion(x)
    \/ HideDocument(x)
    \/ AbortDeletion(x)

Next == (\E u \in Uploads : Upload(u)) \/ (\E x \in Deletions : Delete(x))

Spec == Init /\ [][Next]_vars

--------------------------------------------------------------------------
\* Properties of every interleaving

\* The history of a file has no gap and every row in it but the newest has
\* left the list: a row with version n + 1 implies a row of the same file
\* with version n that is not the latest, whatever requests raced, stopped or
\* deleted in between (documents.py:121-149: the SELECT, the UPDATE and the
\* INSERT of one upload, with any statement of others between them).
SuccessorReplaces ==
    \A d \in Uploads : documents[d].version > 1 =>
        \E e \in Uploads :
            /\ slot[e] = slot[d]
            /\ documents[e].version = documents[d].version - 1
            /\ ~documents[e].is_latest

\* A deletion that answered "deleted" is final: no upload that raced it puts
\* the same row back on the list (documents.py:129, 256).
DeletedStaysHidden ==
    \A x \in Deletions :
        deletion[x].pc = "done" => ~documents[deletion[x].target].is_latest

--------------------------------------------------------------------------
\* Properties of the files whose requests came one at a time, whatever the
\* requests for other files did meanwhile

\* Such a file has at most one current version (documents.py:123 reads one
\* row and retires no other).
AtMostOneLatest == \A s \in Slots \ overlapped : Cardinality(Latest(s)) <= 1

\* The file is on the list, with as many versions as uploads completed, from
\* its first upload on, except while an upload is replacing it: replacing
\* must never lose the old version without publishing the new one.  Stated
\* for files no deletion and no stopped request touched.
Rows(s) == {d \in Uploads : Exists(d) /\ slot[d] = s}

Undisturbed(s) ==
    /\ s \notin overlapped
    /\ \A u \in Uploads : slot[u] = s => upload[u].pc \in {"idle", "done"}
    /\ \A x \in Deletions :
         deletion[x].pc \in {"hide", "done"} => slot[deletion[x].target] # s

ListedAtItsVersion ==
    \A s \in Slots : Undisturbed(s) /\ Rows(s) # {} =>
        \E d \in Latest(s) : documents[d].version = Cardinality(Rows(s))

\* What a reader sees of a file: an upload between its UPDATE and its INSERT
\* still counts as the version it is replacing.  Once its requests overlap,
\* nothing is promised of a file, which is what Withdraw stands for.
Replacing(s) ==
    {u \in Uploads : /\ upload[u].pc = "insert" /\ slot[u] = s
                     /\ upload[u].found # NoDocument}

Visible(s) ==
    LET shown == Latest(s) \cup {upload[u].found : u \in Replacing(s)}
    IN  IF shown = {} \/ s \in overlapped THEN 0
        ELSE documents[CHOOSE d \in shown : TRUE].version

History == INSTANCE VersionHistory WITH current <- [s \in Slots |-> Visible(s)]

\* The three statements of an upload look like one Publish step and a deletion
\* or a stopped upload like one Withdraw step, file by file.
ImplementsVersionHistory == History!Spec

--------------------------------------------------------------------------
\* What the tests of the repository say

\* "Re-uploading the same filename should increment version."
\* (tests/test_document_versioning.py:21): two uploads of one file never
\* carry the same version.
ReuploadIncrementsVersion ==
    \A d, e \in Uploads :
        d # e /\ Exists(d) /\ Exists(e) /\ slot[d] = slot[e] =>
            documents[d].version # documents[e].version
=============================================================================
