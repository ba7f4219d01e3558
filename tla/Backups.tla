------------------------------- MODULE Backups -------------------------------
(* The nightly dump of PostgreSQL and the weekly snapshot of Qdrant: Celery  *)
(* beat, the two processes of the worker, the file a dump is written to and  *)
(* the bucket "backups" of MinIO with its retention                          *)
(* (ingestion-worker/tasks.py).  Messages have no expiry: when the worker    *)
(* was down for days, the backups of these days run one beside the other,    *)
(* on the same date, and write to the same file.                             *)
(*                                                                           *)
(* Definitions marked "Mutant" are not part of the model: each is a wrong    *)
(* form of the definition after it that one of the properties rejects.       *)
EXTENDS Naturals, FiniteSets

CONSTANTS
    Workers,        \* the processes of the worker (--concurrency=2)
    DayTicks,       \* ticks of the clock in a day
    WeekDays,       \* days in a week
    Retention,      \* retention_days
    TimeLimit,      \* task_time_limit in ticks, rounded up
    MaxClock,       \* bound: ticks
    MaxQueue,       \* bound: messages of a kind
    MaxCrashes      \* bound: restarts of the worker

\* A run that begins at the end of a day is over before what that day stored
\* expires: a time limit of an hour, a retention of 30 days.
ASSUME BackupsAssumption ==
    /\ IsFiniteSet(Workers)
    /\ {DayTicks, WeekDays} \subseteq Nat \ {0}
    /\ {Retention, TimeLimit, MaxClock, MaxQueue, MaxCrashes} \subseteq Nat
    /\ TimeLimit + DayTicks <= Retention * DayTicks + 1

VARIABLES
    clock,
    due,            \* due[k]: the first date on which beat may send kind k
    queue,          \* queue[k]: messages of kind k nobody works on
    run,            \* run[w]: the backup process w makes
    files,          \* files[d]: /tmp/pg_backup_<d>.sql.gz
    bucket,         \* objects under postgres/ and qdrant/
    crashes         \* restarts so far

vars == <<clock, due, queue, run, files, bucket, crashes>>

Kinds == {"postgres", "qdrant"}
Today == clock \div DayTicks
Dates == 0..(MaxClock \div DayTicks)
Object == [kind : Kinds, date : Dates, modified : 0..MaxClock, whole : BOOLEAN]

\* ticks: since it began; linked: the file it writes has not been removed; now:
\* when the cleanup took its list todo; cleaned: the cleanup came to its end;
\* alone: no other run of this kind and date has overlapped it (history).
Run == [pc : {"idle", "dump", "write", "size", "put", "list", "delete", "remove",
              "success", "failed"},
        kind : Kinds, date : Dates, ticks : 0..TimeLimit, linked : BOOLEAN,
        now : 0..MaxClock, todo : SUBSET (Kinds \X Dates), cleaned : BOOLEAN,
        alone : BOOLEAN]

Idle == [pc |-> "idle", kind |-> "postgres", date |-> 0, ticks |-> 0,
         linked |-> FALSE, now |-> 0, todo |-> {}, cleaned |-> FALSE, alone |-> TRUE]

TypeOK ==
    /\ clock \in 0..MaxClock
    /\ due \in [Kinds -> Nat]
    /\ queue \in [Kinds -> Nat]
    /\ run \in [Workers -> Run]
    /\ files \in [Dates -> {"none", "torn", "mixed", "whole"}]
    /\ bucket \subseteq Object
    /\ crashes \in 0..MaxCrashes

Init ==
    /\ clock = 0
    /\ due = [k \in Kinds |-> 0]
    /\ queue = [k \in Kinds |-> 0]
    /\ run = [w \in Workers |-> Idle]
    /\ files = [d \in Dates |-> "none"]
    /\ bucket = {}
    /\ crashes = 0

--------------------------------------------------------------------------
\* Celery beat: once a day, once a week, or not at all while it is down

Send(k) ==
    /\ due[k] <= Today
    /\ k = "qdrant" => Today % WeekDays = 0
    /\ queue[k] < MaxQueue
    /\ due' = [due EXCEPT ![k] = Today + 1]
    /\ queue' = [queue EXCEPT ![k] = @ + 1]
    /\ UNCHANGED <<clock, run, files, bucket, crashes>>

--------------------------------------------------------------------------
\* One run

Become(w, r) == run' = [run EXCEPT ![w] = r]

Running(w) == run[w].pc \notin {"idle", "success", "failed"}

Rivals(w, k, d) ==
    {v \in Workers \ {w} : Running(v) /\ run[v].kind = k /\ run[v].date = d}

\* Mutant: a process takes a message that another has taken.
Start_Unqueued(w, k) ==
    LET rivals == Rivals(w, k, Today)
    IN  /\ run[w].pc = "idle"
        /\ queue' = [queue EXCEPT ![k] = @ - 1]
        /\ run' = [v \in Workers |->
             IF v = w
             THEN [Idle EXCEPT !.pc = "dump", !.kind = k, !.date = Today,
                               !.alone = (rivals = {})]
             ELSE [run[v] EXCEPT !.alone = @ /\ v \notin rivals]]
        /\ UNCHANGED <<clock, due, files, bucket, crashes>>

\* The date is read once, here.
Start(w, k) ==
    LET rivals == Rivals(w, k, Today)
    IN  /\ run[w].pc = "idle"
        /\ queue[k] > 0
        /\ queue' = [queue EXCEPT ![k] = @ - 1]
        /\ run' = [v \in Workers |->
             IF v = w
             THEN [Idle EXCEPT !.pc = "dump", !.kind = k, !.date = Today,
                               !.alone = (rivals = {})]
             ELSE [run[v] EXCEPT !.alone = @ /\ v \notin rivals]]
        /\ UNCHANGED <<clock, due, files, bucket, crashes>>

\* pg_dump, then open(backup_file, "wb"), which truncates the file, whoever is
\* writing it; or the snapshot of Qdrant, which stays in memory.
Dump(w) ==
    LET r == run[w]
        shared == \E v \in Rivals(w, "postgres", r.date) :
                      run[v].pc = "write" /\ run[v].linked
    IN  /\ r.pc = "dump"
        /\ IF r.kind = "postgres"
           THEN /\ files' = [files EXCEPT ![r.date] = IF shared THEN "mixed" ELSE "torn"]
                /\ Become(w, [r EXCEPT !.pc = "write", !.linked = TRUE])
           ELSE Become(w, [r EXCEPT !.pc = "put"]) /\ UNCHANGED files
        /\ UNCHANGED <<clock, due, queue, bucket, crashes>>

\* A file two runs have written at once stays a mixture of both.
Write(w) ==
    LET r == run[w]
    IN  /\ r.pc = "write"
        /\ files' = [files EXCEPT ![r.date] =
                       IF r.linked /\ @ = "torn" THEN "whole" ELSE @]
        /\ Become(w, [r EXCEPT !.pc = "size", !.linked = FALSE])
        /\ UNCHANGED <<clock, due, queue, bucket, crashes>>

\* At least 100 bytes
CheckSize(w) ==
    /\ run[w].pc = "size"
    /\ files[run[w].date] # "none"
    /\ Become(w, [run[w] EXCEPT !.pc = "put"])
    /\ UNCHANGED <<clock, due, queue, files, bucket, crashes>>

Key(o) == <<o.kind, o.date>>

\* What the run reads of its file, put under the key of its date; for a snapshot
\* the body of the download, whatever the status of that answer.
With(w, whole) ==
    LET r == run[w]
    IN  {o \in bucket : Key(o) # <<r.kind, r.date>>}
          \cup {[kind |-> r.kind, date |-> r.date, modified |-> clock, whole |-> whole]}

Puts(w) ==
    IF run[w].kind = "qdrant" THEN {With(w, TRUE), With(w, FALSE)}
    ELSE IF files[run[w].date] = "none" THEN {}
    ELSE {With(w, files[run[w].date] = "whole")}

Put(w) ==
    /\ run[w].pc = "put"
    /\ bucket' \in Puts(w)
    /\ Become(w, [run[w] EXCEPT !.pc = "list"])
    /\ UNCHANGED <<clock, due, queue, files, crashes>>

\* _cleanup_old_backups: a prefix of the bucket is listed, and what was last
\* modified before the cutoff is deleted key by key.
Kept == Retention * DayTicks

Expired(k, now) == {Key(o) : o \in {x \in bucket : x.kind = k /\ x.modified + Kept < now}}

\* Mutant: the prefix is forgotten.
List_WholeBucket(w) ==
    /\ run[w].pc = "list"
    /\ Become(w, [run[w] EXCEPT
         !.pc = "delete", !.now = clock, !.todo = UNION {Expired(k, clock) : k \in Kinds}])
    /\ UNCHANGED <<clock, due, queue, files, bucket, crashes>>

List(w) ==
    /\ run[w].pc = "list"
    /\ Become(w, [run[w] EXCEPT
         !.pc = "delete", !.now = clock, !.todo = Expired(run[w].kind, clock)])
    /\ UNCHANGED <<clock, due, queue, files, bucket, crashes>>

AfterCleanup(w) == IF run[w].kind = "postgres" THEN "remove" ELSE "success"

\* Mutant: only the first of the keys is deleted.
Delete_First(w) ==
    /\ run[w].pc = "delete"
    /\ \/ \E key \in run[w].todo :
            /\ bucket' = {o \in bucket : Key(o) # key}
            /\ Become(w, [run[w] EXCEPT !.todo = {}])
       \/ /\ run[w].todo = {}
          /\ Become(w, [run[w] EXCEPT !.pc = AfterCleanup(w), !.cleaned = TRUE])
          /\ UNCHANGED bucket
    /\ UNCHANGED <<clock, due, queue, files, crashes>>

Delete(w) ==
    /\ run[w].pc = "delete"
    /\ \/ \E key \in run[w].todo :
            /\ bucket' = {o \in bucket : Key(o) # key}
            /\ Become(w, [run[w] EXCEPT !.todo = @ \ {key}])
       \/ /\ run[w].todo = {}
          /\ Become(w, [run[w] EXCEPT !.pc = AfterCleanup(w), !.cleaned = TRUE])
          /\ UNCHANGED bucket
    /\ UNCHANGED <<clock, due, queue, files, crashes>>

\* Any exception ends the cleanup, and is swallowed.
CleanupFails(w) ==
    /\ run[w].pc \in {"list", "delete"}
    /\ Become(w, [run[w] EXCEPT !.pc = AfterCleanup(w), !.todo = {}])
    /\ UNCHANGED <<clock, due, queue, files, bucket, crashes>>

Remove(w) ==
    LET d == run[w].date
    IN  /\ run[w].pc = "remove"
        /\ files[d] # "none"
        /\ files' = [files EXCEPT ![d] = "none"]
        /\ run' = [v \in Workers |->
             IF v = w THEN [run[v] EXCEPT !.pc = "success"]
             ELSE IF run[v].kind = "postgres" /\ run[v].date = d
                  THEN [run[v] EXCEPT !.linked = FALSE]
                  ELSE run[v]]
        /\ UNCHANGED <<clock, due, queue, bucket, crashes>>

\* A failed run holds nothing but its message.
FailedRun(w) == [Idle EXCEPT !.pc = "failed", !.kind = run[w].kind, !.ticks = run[w].ticks]

\* Mutant: a failed upload is logged and forgotten.
Raise_ExceptUpload(w) ==
    /\ run[w].pc \in {"dump", "write", "size", "put", "remove"}
    /\ bucket' \in (IF run[w].pc = "put" THEN {bucket} \cup Puts(w) ELSE {bucket})
    /\ IF run[w].pc = "put" THEN Become(w, [run[w] EXCEPT !.pc = "list"])
       ELSE Become(w, FailedRun(w))
    /\ UNCHANGED <<clock, due, queue, files, crashes>>

\* A call raises, or does after it was carried out: pg_dump fails, the file is
\* gone or too small, MinIO does not answer, the soft time limit is over.  The
\* run ends as failed, with its file where it is.
Raise(w) ==
    /\ run[w].pc \in {"dump", "write", "size", "put", "remove"}
    /\ bucket' \in (IF run[w].pc = "put" THEN {bucket} \cup Puts(w) ELSE {bucket})
    /\ Become(w, FailedRun(w))
    /\ UNCHANGED <<clock, due, queue, files, crashes>>

\* The message is acknowledged late, and whatever the run returned.
Ack(w) ==
    /\ run[w].pc \in {"success", "failed"}
    /\ Become(w, Idle)
    /\ UNCHANGED <<clock, due, queue, files, bucket, crashes>>

--------------------------------------------------------------------------
\* The container of the worker restarts: its messages are delivered again.

Held(k) == Cardinality({w \in Workers : run[w].pc # "idle" /\ run[w].kind = k})

CrashContainer ==
    /\ \E w \in Workers : run[w].pc # "idle"
    /\ crashes < MaxCrashes
    /\ crashes' = crashes + 1
    /\ queue' = [k \in Kinds |-> queue[k] + Held(k)]
    /\ run' = [w \in Workers |-> Idle]
    /\ UNCHANGED <<clock, due, files, bucket>>

--------------------------------------------------------------------------

\* At the limit Celery kills a process: then Raise, or a step, comes first.
Tick ==
    /\ clock < MaxClock
    /\ \A w \in Workers : run[w].pc # "idle" => run[w].ticks < TimeLimit
    /\ clock' = clock + 1
    /\ run' = [w \in Workers |->
                 IF run[w].pc = "idle" THEN run[w] ELSE [run[w] EXCEPT !.ticks = @ + 1]]
    /\ UNCHANGED <<due, queue, files, bucket, crashes>>

Step(w) ==
    \/ \E k \in Kinds : Start(w, k)
    \/ Dump(w)
    \/ Write(w)
    \/ CheckSize(w)
    \/ Put(w)
    \/ List(w)
    \/ Delete(w)
    \/ CleanupFails(w)
    \/ Remove(w)
    \/ Raise(w)
    \/ Ack(w)

Next ==
    \/ \E k \in Kinds : Send(k)
    \/ \E w \in Workers : Step(w)
    \/ CrashContainer
    \/ Tick

Spec == Init /\ [][Next]_vars

--------------------------------------------------------------------------
\* Properties

\* An object disappears only when it has expired and a later one of its kind
\* is in the bucket: however many nights fail, are repeated after a crash or run
\* side by side, cleaning up never takes the last backup (tasks.py:641-645, 715-718).
LastBackupStays ==
    [][\A o \in bucket : Key(o) \notin {Key(x) : x \in bucket'} =>
          /\ o.modified + Kept < clock
          /\ \E n \in bucket' : n.kind = o.kind /\ n.modified > o.modified]_vars

\* A run that says "success" and no other run of its date overlapped has left a
\* whole dump under its date, whatever earlier runs of that date left behind in
\* the file and under the key; of a snapshot only that there is one
\* (tasks.py:664-726, 742-775).
SuccessMeansStored ==
    \A w \in Workers : run[w].pc = "success" /\ run[w].alone =>
        \E o \in bucket :
            /\ Key(o) = <<run[w].kind, run[w].date>>
            /\ run[w].kind = "postgres" => o.whole

\* A run whose cleanup came to its end leaves nothing of its kind that had
\* expired when it began to clean up, whatever the other process did meanwhile
\* (tasks.py:629, 641-645).
NothingExpiredIsLeft ==
    \A w \in Workers : run[w].cleaned =>
        Expired(run[w].kind, run[w].now) = {}
=============================================================================
