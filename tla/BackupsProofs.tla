---------------------------- MODULE BackupsProofs ----------------------------
(* Theorems of Backups for any number of workers, restarts and messages, and *)
(* every length of a day, retention and time limit that the assumption       *)
(* allows.                                                                   *)
EXTENDS Backups, FiniteSetTheorems, TLAPS

--------------------------------------------------------------------------
\* Dates

\* A date begins at most a day before any tick of it.
LEMMA DateOfTick ==
    ASSUME NEW x \in Nat
    PROVE  /\ x \div DayTicks \in Nat
           /\ (x \div DayTicks) * DayTicks <= x
           /\ x < (x \div DayTicks) * DayTicks + DayTicks
<1>1. DayTicks \in Nat /\ DayTicks > 0
  BY BackupsAssumption
<1>2. /\ x \div DayTicks \in Nat /\ x % DayTicks \in 0..(DayTicks - 1)
      /\ x = DayTicks * (x \div DayTicks) + (x % DayTicks)
  BY <1>1
<1>3. DayTicks * (x \div DayTicks) = (x \div DayTicks) * DayTicks
        /\ (x \div DayTicks) * DayTicks \in Nat
  BY <1>1, <1>2
<1> QED BY <1>1, <1>2, <1>3

\* Later ticks have later dates, or the same.
LEMMA DatesGrow ==
    ASSUME NEW x \in Nat, NEW y \in Nat, x <= y
    PROVE  x \div DayTicks <= y \div DayTicks
<1> DEFINE a == x \div DayTicks
           b == y \div DayTicks
<1>1. DayTicks \in Nat /\ DayTicks > 0
  BY BackupsAssumption
<1>2. /\ a \in Nat /\ a * DayTicks <= x
      /\ b \in Nat /\ y < b * DayTicks + DayTicks
  BY DateOfTick
<1> HIDE DEF a, b
<1>3. SUFFICES ASSUME a >= b + 1 PROVE FALSE
  BY <1>2 DEF a, b
<1>4. a * DayTicks >= (b + 1) * DayTicks
  BY <1>1, <1>2, <1>3
<1>5. (b + 1) * DayTicks = b * DayTicks + DayTicks
  BY <1>1, <1>2
<1>6. a * DayTicks \in Nat /\ b * DayTicks \in Nat
  BY <1>1, <1>2
<1> QED BY <1>1, <1>2, <1>4, <1>5, <1>6

\* Today is a date of the instance.
LEMMA TodayIsADate == TypeOK => Today \in Dates
<1> SUFFICES ASSUME TypeOK PROVE Today \in Dates
  OBVIOUS
<1>1. clock \in Nat /\ MaxClock \in Nat /\ clock <= MaxClock
  BY BackupsAssumption DEF TypeOK
<1> QED BY <1>1, DatesGrow, DateOfTick DEF Today, Dates

\* The numbers the arguments below use.
LEMMA Numbers ==
    /\ DayTicks \in Nat /\ DayTicks > 0 /\ Kept \in Nat /\ TimeLimit \in Nat
    /\ MaxClock \in Nat /\ MaxCrashes \in Nat
    /\ TimeLimit + DayTicks <= Kept + 1
BY BackupsAssumption DEF Kept

--------------------------------------------------------------------------
\* Types

\* A process that makes no backup.
LEMMA IdleIsARun == Idle \in Run /\ Idle.pc = "idle" /\ ~Idle.cleaned
<1>1. 0 \in Dates
  BY DateOfTick, Numbers DEF Dates
<1> QED BY <1>1, Numbers DEF Idle, Run, Kinds

\* What is put into the bucket are objects.
LEMMA PutsAreObjects ==
    ASSUME TypeOK, NEW w \in Workers, NEW b \in Puts(w) PROVE b \subseteq Object
<1>1. run[w].kind \in Kinds /\ run[w].date \in Dates /\ clock \in 0..MaxClock
  BY DEF TypeOK, Run
<1>2. ASSUME NEW whole \in BOOLEAN PROVE With(w, whole) \subseteq Object
  BY <1>1 DEF With, Object, TypeOK
<1> QED BY <1>2 DEF Puts

\* The keys of expired objects are keys.
LEMMA ExpiredAreKeys ==
    ASSUME TypeOK, NEW k, NEW now PROVE Expired(k, now) \subseteq Kinds \X Dates
BY DEF TypeOK, Object, Expired, Key

\* A step of a run keeps the types.
LEMMA StepKeepsTypes ==
    ASSUME TypeOK, NEW w \in Workers, Step(w) PROVE TypeOK'
<1> DEFINE r == run[w]
<1>0. run \in [Workers -> Run] /\ r \in Run /\ queue \in [Kinds -> Nat]
  BY DEF TypeOK
<1>1. ASSUME NEW k \in Kinds, Start(w, k) PROVE TypeOK'
  <2> DEFINE first == [Idle EXCEPT !.pc = "dump", !.kind = k, !.date = Today,
                                   !.alone = (Rivals(w, k, Today) = {})]
  <2>1. first \in Run
    BY IdleIsARun, TodayIsADate DEF Idle, Run
  <2>2. ASSUME NEW v \in Workers
        PROVE  [run[v] EXCEPT !.alone = @ /\ v \notin Rivals(w, k, Today)] \in Run
    <3>1. ASSUME NEW b \in BOOLEAN PROVE [run[v] EXCEPT !.alone = b] \in Run
      BY <1>0 DEF Run
    <3>2. (run[v].alone /\ v \notin Rivals(w, k, Today)) \in BOOLEAN
      OBVIOUS
    <3> QED BY <3>1, <3>2
  <2>3. run' \in [Workers -> Run]
    <3> HIDE DEF first
    <3>1. run' = [v \in Workers |-> IF v = w THEN first
                    ELSE [run[v] EXCEPT !.alone = @ /\ v \notin Rivals(w, k, Today)]]
      BY <1>1 DEF Start, first
    <3> QED BY <2>1, <2>2, <3>1
  <2>4. queue' \in [Kinds -> Nat]
    <3>1. queue[k] > 0 /\ queue' = [queue EXCEPT ![k] = @ - 1]
      BY <1>1 DEF Start
    <3> QED BY <1>0, <3>1
  <2> QED BY <1>1, <2>3, <2>4 DEF Start, TypeOK
<1>2. ASSUME NEW q \in Run, Become(w, q), UNCHANGED <<clock, due, queue, crashes>>,
             bucket' \subseteq Object,
             files' \in [Dates -> {"none", "torn", "mixed", "whole"}]
      PROVE  TypeOK'
  BY <1>0, <1>2 DEF Become, TypeOK
<1>3. CASE Dump(w)
  <2>1. [r EXCEPT !.pc = "write", !.linked = TRUE] \in Run /\ [r EXCEPT !.pc = "put"] \in Run
    BY <1>0 DEF Run
  <2>2. files' \in [Dates -> {"none", "torn", "mixed", "whole"}]
    BY <1>0, <1>3 DEF Dump, TypeOK, Run
  <2> QED BY <1>2, <1>3, <2>1, <2>2 DEF Dump, TypeOK
<1>4. CASE Write(w)
  <2>1. [r EXCEPT !.pc = "size", !.linked = FALSE] \in Run
    BY <1>0 DEF Run
  <2>2. files' \in [Dates -> {"none", "torn", "mixed", "whole"}]
    BY <1>0, <1>4 DEF Write, TypeOK, Run
  <2> QED BY <1>2, <1>4, <2>1, <2>2 DEF Write, TypeOK
<1>5. CASE CheckSize(w)
  <2>1. [r EXCEPT !.pc = "put"] \in Run
    BY <1>0 DEF Run
  <2> QED BY <1>2, <1>5, <2>1 DEF CheckSize, TypeOK
<1>6. CASE Put(w)
  <2>1. [r EXCEPT !.pc = "list"] \in Run
    BY <1>0 DEF Run
  <2> QED BY <1>2, <1>6, <2>1, PutsAreObjects DEF Put, TypeOK
<1>7. CASE List(w)
  <2>1. [r EXCEPT !.pc = "delete", !.now = clock, !.todo = Expired(r.kind, clock)] \in Run
    BY <1>0, ExpiredAreKeys DEF Run, TypeOK
  <2> QED BY <1>2, <1>7, <2>1 DEF List, TypeOK
<1>8. CASE Delete(w)
  <2>1. AfterCleanup(w) \in {"remove", "success"}
    BY DEF AfterCleanup
  <2>2. [r EXCEPT !.pc = AfterCleanup(w), !.cleaned = TRUE] \in Run
    BY <1>0, <2>1 DEF Run
  <2>3. ASSUME NEW key PROVE [r EXCEPT !.todo = @ \ {key}] \in Run
    BY <1>0 DEF Run
  <2>4. bucket' \subseteq Object
    BY <1>8 DEF Delete, TypeOK
  <2> QED BY <1>2, <1>8, <2>2, <2>3, <2>4 DEF Delete, TypeOK
<1>9. CASE CleanupFails(w)
  <2>1. AfterCleanup(w) \in {"remove", "success"}
    BY DEF AfterCleanup
  <2>2. [r EXCEPT !.pc = AfterCleanup(w), !.todo = {}] \in Run
    BY <1>0, <2>1 DEF Run
  <2> QED BY <1>2, <1>9, <2>2 DEF CleanupFails, TypeOK
<1>10. CASE Remove(w)
  <2>1. \A v \in Workers : [run[v] EXCEPT !.pc = "success"] \in Run
                            /\ [run[v] EXCEPT !.linked = FALSE] \in Run
    BY <1>0 DEF Run
  <2>2. run' \in [Workers -> Run]
    BY <1>0, <1>10, <2>1 DEF Remove
  <2>3. files' \in [Dates -> {"none", "torn", "mixed", "whole"}]
    BY <1>0, <1>10 DEF Remove, TypeOK, Run
  <2> QED BY <1>10, <2>2, <2>3 DEF Remove, TypeOK
<1>11. CASE Raise(w)
  <2>1. FailedRun(w) \in Run
    BY <1>0, IdleIsARun DEF FailedRun, Idle, Run
  <2>2. bucket' \subseteq Object
    BY <1>11, PutsAreObjects DEF Raise, TypeOK
  <2> QED BY <1>2, <1>11, <2>1, <2>2 DEF Raise, TypeOK
<1>12. CASE Ack(w)
  BY <1>2, <1>12, IdleIsARun DEF Ack, TypeOK
<1> QED BY <1>1, <1>3, <1>4, <1>5, <1>6, <1>7, <1>8, <1>9, <1>10, <1>11, <1>12 DEF Step

\* Clock, queues, runs, files and objects have their types.
THEOREM TypeCorrect == Spec => []TypeOK
<1>1. Init => TypeOK
  BY IdleIsARun, Numbers DEF Init, TypeOK
<1>2. TypeOK /\ [Next]_vars => TypeOK'
  <2> SUFFICES ASSUME TypeOK, [Next]_vars PROVE TypeOK'
    OBVIOUS
  <2>1. ASSUME NEW k \in Kinds, Send(k) PROVE TypeOK'
    <3>1. Today + 1 \in Nat
      BY DateOfTick, Numbers DEF TypeOK, Today
    <3> QED BY <2>1, <3>1 DEF Send, TypeOK
  <2>2. ASSUME NEW w \in Workers, Step(w) PROVE TypeOK'
    BY <2>2, StepKeepsTypes
  <2>3. CASE CrashContainer
    <3>1. \A k \in Kinds : Held(k) \in Nat
      <4> SUFFICES ASSUME NEW k \in Kinds PROVE Held(k) \in Nat
        OBVIOUS
      <4>1. {w \in Workers : run[w].pc # "idle" /\ run[w].kind = k} \subseteq Workers
        OBVIOUS
      <4> QED BY <4>1, BackupsAssumption, FS_Subset, FS_CardinalityType DEF Held
    <3>2. queue' \in [Kinds -> Nat]
      BY <2>3, <3>1 DEF CrashContainer, TypeOK
    <3> QED BY <2>3, <3>2, IdleIsARun, Numbers DEF CrashContainer, TypeOK
  <2>4. CASE Tick
    <3>1. \A w \in Workers : run[w] \in Run
      BY DEF TypeOK
    <3>2. ASSUME NEW w \in Workers, run[w].ticks < TimeLimit
          PROVE  [run[w] EXCEPT !.ticks = @ + 1] \in Run
      BY <3>1, <3>2, Numbers DEF Run
    <3>3. run' \in [Workers -> Run]
      BY <2>4, <3>1, <3>2 DEF Tick
    <3>4. clock' \in 0..MaxClock
      BY <2>4, Numbers DEF Tick, TypeOK
    <3> QED BY <2>4, <3>3, <3>4 DEF Tick, TypeOK
  <2>5. CASE UNCHANGED vars
    BY <2>5 DEF vars, TypeOK
  <2> QED BY <2>1, <2>2, <2>3, <2>4, <2>5 DEF Next
<1> QED BY <1>1, <1>2, PTL DEF Spec

--------------------------------------------------------------------------
\* Retention

DayStart(d) == d * DayTicks

Busy(w) == run[w].pc \notin {"idle", "failed"}

\* An object was put on its date or later.
ObjectsInDate ==
    \A o \in bucket : DayStart(o.date) <= o.modified /\ o.modified <= clock

\* A run began on its date, as many ticks ago as it counts.
BeganOnDate(w) ==
    Busy(w) =>
        /\ DayStart(run[w].date) + run[w].ticks <= clock
        /\ clock < DayStart(run[w].date) + DayTicks + run[w].ticks

\* A run that cleans up has put an object under its own date.
HasObject(w) ==
    run[w].pc \in {"list", "delete"} =>
        \E n \in bucket : Key(n) = <<run[w].kind, run[w].date>>
                             /\ clock <= n.modified + run[w].ticks

\* What it is about to delete has expired, and so has whatever is there under
\* that key now; what has expired it is about to delete.
ListIsRight(w) ==
    run[w].pc = "delete" =>
        /\ run[w].now <= clock
        /\ \A key \in run[w].todo :
             key[1] = run[w].kind /\ DayStart(key[2]) + Kept < run[w].now
        /\ \A o \in bucket : Key(o) \in run[w].todo => o.modified + Kept < run[w].now
        /\ Expired(run[w].kind, run[w].now) \subseteq run[w].todo

CleanedUp(w) ==
    run[w].cleaned =>
        /\ run[w].pc \in {"remove", "success"} /\ run[w].now <= clock
        /\ Expired(run[w].kind, run[w].now) = {}

RunInv(w) == BeganOnDate(w) /\ HasObject(w) /\ ListIsRight(w) /\ CleanedUp(w)

\* An object is known by its key.
KeysAreUnique == \A o, x \in bucket : Key(o) = Key(x) => o = x

RetentionInv ==
    ObjectsInDate /\ KeysAreUnique /\ \A w \in Workers : RunInv(w)

\* The numbers of a state.
LEMMA StateNumbers ==
    ASSUME TypeOK
    PROVE  /\ clock \in Nat
           /\ \A o \in bucket : o.modified \in Nat /\ DayStart(o.date) \in Nat /\ o.kind \in Kinds
           /\ \A w \in Workers :
                /\ run[w].now \in Nat /\ run[w].ticks \in Nat /\ run[w].ticks <= TimeLimit
                /\ DayStart(run[w].date) \in Nat /\ run[w].kind \in Kinds
           /\ \A w \in Workers : \A key \in run[w].todo : DayStart(key[2]) \in Nat
<1>1. \A d \in Dates : DayStart(d) \in Nat
  BY Numbers DEF Dates, DayStart
<1>2. 0..MaxClock \subseteq Nat /\ 0..TimeLimit \subseteq Nat
  BY Numbers
<1>3. \A w \in Workers : run[w] \in Run
  BY DEF TypeOK
<1>4. \A w \in Workers : run[w].todo \subseteq Kinds \X Dates
  BY <1>3 DEF Run
<1>5. \A w \in Workers : \A key \in run[w].todo : key[2] \in Dates
  BY <1>4
<1> QED BY <1>1, <1>2, <1>3, <1>5, Numbers DEF TypeOK, Object, Run

\* A run that is under way ends before the objects of its date expire, so no
\* clean-up is about to delete the key it puts its object under.
LEMMA OwnKeyIsSafe ==
    ASSUME TypeOK, RetentionInv, NEW v \in Workers, NEW w \in Workers,
           Busy(w), run[v].pc = "delete"
    PROVE  <<run[w].kind, run[w].date>> \notin run[v].todo
<1> SUFFICES ASSUME <<run[w].kind, run[w].date>> \in run[v].todo PROVE FALSE
  OBVIOUS
<1> DEFINE s == DayStart(run[w].date)
<1>1. s + Kept < run[v].now /\ run[v].now <= clock
  BY DEF RetentionInv, RunInv, ListIsRight
<1>2. clock < s + DayTicks + run[w].ticks
  BY DEF RetentionInv, RunInv, BeganOnDate
<1>3. /\ s \in Nat /\ clock \in Nat /\ run[v].now \in Nat
      /\ run[w].ticks \in Nat /\ run[w].ticks <= TimeLimit
  BY StateNumbers
<1> HIDE DEF s
<1> QED BY <1>1, <1>2, <1>3, Numbers

\* The ways a step of a run changes the bucket.
BucketMoves(w) ==
    \/ bucket' = bucket
    \/ run[w].pc = "put" /\ bucket' \in Puts(w)
    \/ run[w].pc = "delete" /\ \E key \in run[w].todo :
         bucket' = {o \in bucket : Key(o) # key}

\* New objects are new under the key of the run; objects that are gone were
\* replaced by it or were to be deleted.
LEMMA BucketFacts ==
    ASSUME TypeOK, NEW w \in Workers, BucketMoves(w)
    PROVE  /\ \A o \in bucket' :
                \/ o \in bucket
                \/ /\ run[w].pc = "put" /\ Key(o) = <<run[w].kind, run[w].date>>
                   /\ o.modified = clock /\ o.date = run[w].date
           /\ \A o \in bucket :
                \/ o \in bucket'
                \/ /\ run[w].pc = "put" /\ Key(o) = <<run[w].kind, run[w].date>>
                   /\ \E n \in bucket' : Key(n) = Key(o) /\ n.modified = clock
                \/ run[w].pc = "delete" /\ Key(o) \in run[w].todo
<1>1. CASE bucket' = bucket
  BY <1>1
<1>2. CASE run[w].pc = "put" /\ bucket' \in Puts(w)
  <2>1. PICK whole \in BOOLEAN : bucket' = With(w, whole)
    BY <1>2 DEF Puts
  <2> DEFINE new == [kind |-> run[w].kind, date |-> run[w].date,
                     modified |-> clock, whole |-> whole]
  <2>2. Key(new) = <<run[w].kind, run[w].date>> /\ new.modified = clock
          /\ new.date = run[w].date
    BY DEF Key
  <2>3. bucket' = {o \in bucket : Key(o) # <<run[w].kind, run[w].date>>} \cup {new}
    BY <2>1 DEF With
  <2> HIDE DEF new
  <2> QED BY <1>2, <2>2, <2>3
<1>3. CASE run[w].pc = "delete" /\ \E key \in run[w].todo :
             bucket' = {o \in bucket : Key(o) # key}
  BY <1>3
<1> QED BY <1>1, <1>2, <1>3 DEF BucketMoves

\* Nothing expires by what a run does.
LEMMA NoneExpires ==
    ASSUME TypeOK, NEW w \in Workers, BucketMoves(w), NEW k, NEW now \in Nat, now <= clock
    PROVE  Expired(k, now)' \subseteq Expired(k, now)
<1> SUFFICES ASSUME NEW o \in bucket', o.kind = k, o.modified + Kept < now
             PROVE  o \in bucket
  BY DEF Expired, Key
<1>1. clock \in Nat /\ Kept \in Nat
  BY StateNumbers, Numbers
<1>2. o.modified # clock
  BY <1>1
<1> QED BY <1>2, BucketFacts

\* Objects stay within their dates.
LEMMA ObjectsStayInDate ==
    ASSUME TypeOK, RetentionInv, NEW w \in Workers, BucketMoves(w), clock' = clock
    PROVE  ObjectsInDate'
<1> SUFFICES ASSUME NEW o \in bucket'
             PROVE  DayStart(o.date) <= o.modified /\ o.modified <= clock
  BY DEF ObjectsInDate, DayStart
<1>1. CASE o \in bucket
  BY <1>1 DEF RetentionInv, ObjectsInDate
<1>2. CASE o \notin bucket
  <2>1. /\ run[w].pc = "put" /\ o.modified = clock /\ o.date = run[w].date
    BY <1>2, BucketFacts
  <2>2. DayStart(run[w].date) + run[w].ticks <= clock
    BY <2>1 DEF RetentionInv, RunInv, BeganOnDate, Busy
  <2> QED BY <2>1, <2>2, StateNumbers
<1> QED BY <1>1, <1>2

\* What the invariant says of a run stays true while it only loses its file or
\* its claim to be alone.
SameRun(v) ==
    /\ run'[v].pc = run[v].pc /\ run'[v].kind = run[v].kind
    /\ run'[v].date = run[v].date /\ run'[v].ticks = run[v].ticks
    /\ run'[v].now = run[v].now /\ run'[v].todo = run[v].todo
    /\ run'[v].cleaned = run[v].cleaned

\* A step of one process at the bucket leaves the story of the others' runs true.
LEMMA OthersKeepInv ==
    ASSUME TypeOK, RetentionInv, NEW w \in Workers, BucketMoves(w), clock' = clock,
           NEW v \in Workers, SameRun(v)
    PROVE  RunInv(v)'
<1>0. /\ run'[v].pc = run[v].pc /\ run'[v].kind = run[v].kind
      /\ run'[v].date = run[v].date /\ run'[v].ticks = run[v].ticks
      /\ run'[v].now = run[v].now /\ run'[v].todo = run[v].todo
      /\ run'[v].cleaned = run[v].cleaned
  BY DEF SameRun
<1>1. BeganOnDate(v) /\ HasObject(v) /\ ListIsRight(v) /\ CleanedUp(v)
  BY DEF RetentionInv, RunInv
<1>2. BeganOnDate(v)'
  BY <1>0, <1>1 DEF BeganOnDate, Busy, DayStart
<1>3. HasObject(v)'
  <2> SUFFICES ASSUME run[v].pc \in {"list", "delete"}
               PROVE  \E n \in bucket' : Key(n) = <<run[v].kind, run[v].date>>
                                           /\ clock <= n.modified + run[v].ticks
    BY <1>0 DEF HasObject, Key
  <2>1. PICK n \in bucket : Key(n) = <<run[v].kind, run[v].date>>
                              /\ clock <= n.modified + run[v].ticks
    BY <1>1 DEF HasObject
  <2>2. CASE n \in bucket'
    BY <2>1, <2>2
  <2>3. CASE \E m \in bucket' : Key(m) = Key(n) /\ m.modified = clock
    BY <2>1, <2>3, StateNumbers
  <2>4. ~(run[w].pc = "delete" /\ Key(n) \in run[w].todo)
    BY <2>1, OwnKeyIsSafe DEF Busy
  <2> QED BY <2>2, <2>3, <2>4, BucketFacts
<1>4. ListIsRight(v)'
  <2> SUFFICES ASSUME run[v].pc = "delete"
               PROVE  /\ run[v].now <= clock
                      /\ \A key \in run[v].todo :
                           key[1] = run[v].kind /\ DayStart(key[2]) + Kept < run[v].now
                      /\ \A o \in bucket' :
                           Key(o) \in run[v].todo => o.modified + Kept < run[v].now
                      /\ Expired(run[v].kind, run[v].now)' \subseteq run[v].todo
    BY <1>0 DEF ListIsRight, DayStart, Kept, Key, Expired
  <2>1. \A o \in bucket' : Key(o) \in run[v].todo => o.modified + Kept < run[v].now
    <3> SUFFICES ASSUME NEW o \in bucket', Key(o) \in run[v].todo
                 PROVE  o.modified + Kept < run[v].now
      OBVIOUS
    <3>1. CASE o \in bucket
      BY <1>1, <3>1 DEF ListIsRight
    <3>2. CASE o \notin bucket
      <4>1. run[w].pc = "put" /\ Key(o) = <<run[w].kind, run[w].date>>
        BY <3>2, BucketFacts
      <4> QED BY <4>1, OwnKeyIsSafe DEF Busy
    <3> QED BY <3>1, <3>2
  <2>2. Expired(run[v].kind, run[v].now)' \subseteq Expired(run[v].kind, run[v].now)
    BY <1>0, <1>1, StateNumbers, NoneExpires DEF ListIsRight, Expired, Key, Kept
  <2> QED BY <1>1, <2>1, <2>2 DEF ListIsRight
<1>5. CleanedUp(v)'
  <2> SUFFICES ASSUME run[v].cleaned
               PROVE  /\ run[v].pc \in {"remove", "success"} /\ run[v].now <= clock
                      /\ Expired(run[v].kind, run[v].now)' = {}
    BY <1>0 DEF CleanedUp, Expired, Key, Kept
  <2>1. /\ run[v].pc \in {"remove", "success"} /\ run[v].now <= clock
        /\ run[v].now \in Nat /\ Expired(run[v].kind, run[v].now) = {}
    BY <1>1, StateNumbers DEF CleanedUp
  <2>2. \A k : Expired(k, run[v].now)' \subseteq Expired(k, run[v].now)
    BY <1>0, <2>1, NoneExpires DEF Expired, Key, Kept
  <2> QED BY <1>0, <2>1, <2>2
<1> QED BY <1>2, <1>3, <1>4, <1>5 DEF RunInv

\* A key still has one object.
LEMMA KeysStayUnique ==
    ASSUME TypeOK, KeysAreUnique, NEW w \in Workers, BucketMoves(w) PROVE KeysAreUnique'
<1>1. CASE bucket' = bucket
  BY <1>1 DEF KeysAreUnique, Key
<1>2. CASE run[w].pc = "put" /\ bucket' \in Puts(w)
  <2>1. PICK whole \in BOOLEAN : bucket' = With(w, whole)
    BY <1>2 DEF Puts
  <2> DEFINE new == [kind |-> run[w].kind, date |-> run[w].date,
                     modified |-> clock, whole |-> whole]
             key == <<run[w].kind, run[w].date>>
  <2>2. Key(new) = key
    BY DEF Key
  <2>3. bucket' = {o \in bucket : Key(o) # key} \cup {new}
    BY <2>1 DEF With
  <2> HIDE DEF new, key
  <2> QED BY <2>2, <2>3 DEF KeysAreUnique, Key
<1>3. CASE bucket' \subseteq bucket
  BY <1>3 DEF KeysAreUnique, Key
<1> QED BY <1>1, <1>2, <1>3 DEF BucketMoves

\* A run that goes on, other than into its clean-up.
LEMMA MoverKeepsInv ==
    ASSUME TypeOK, RetentionInv, NEW w \in Workers, BucketMoves(w), clock' = clock, Busy(w),
           run'[w].kind = run[w].kind, run'[w].date = run[w].date,
           run'[w].ticks = run[w].ticks, run'[w].now = run[w].now,
           run'[w].cleaned = run[w].cleaned, run'[w].pc \notin {"list", "delete"},
           run[w].pc \in {"remove", "success"} => run'[w].pc \in {"remove", "success"}
    PROVE  RunInv(w)'
<1>1. BeganOnDate(w) /\ CleanedUp(w)
  BY DEF RetentionInv, RunInv
<1>2. BeganOnDate(w)'
  BY <1>1 DEF BeganOnDate, Busy, DayStart
<1>3. CleanedUp(w)'
  <2> SUFFICES ASSUME run[w].cleaned
               PROVE  /\ run'[w].pc \in {"remove", "success"} /\ run[w].now <= clock
                      /\ Expired(run[w].kind, run[w].now)' = {}
    BY DEF CleanedUp, Expired, Key, Kept
  <2>1. /\ run[w].pc \in {"remove", "success"} /\ run[w].now <= clock
        /\ run[w].now \in Nat /\ Expired(run[w].kind, run[w].now) = {}
    BY <1>1, StateNumbers DEF CleanedUp
  <2>2. \A k : Expired(k, run[w].now)' \subseteq Expired(k, run[w].now)
    BY <2>1, NoneExpires DEF Expired, Key, Kept
  <2> QED BY <2>1, <2>2
<1> QED BY <1>2, <1>3 DEF RunInv, HasObject, ListIsRight

\* A run that holds nothing: idle, or failed.
LEMMA NothingHeld ==
    ASSUME NEW w \in Workers, run'[w].pc \in {"idle", "failed"}, ~run'[w].cleaned
    PROVE  RunInv(w)'
BY DEF RunInv, BeganOnDate, Busy, HasObject, ListIsRight, CleanedUp

\* One process moves: what there is to show of it is shown case by case below.
LEMMA OneMoves ==
    ASSUME TypeOK, RetentionInv, NEW w \in Workers, BucketMoves(w), clock' = clock,
           \A v \in Workers \ {w} : SameRun(v), RunInv(w)'
    PROVE  RetentionInv'
<1>1. \A v \in Workers \ {w} : RunInv(v)'
  BY OthersKeepInv
<1>2. ObjectsInDate' /\ KeysAreUnique'
  BY ObjectsStayInDate, KeysStayUnique DEF RetentionInv
<1> QED BY <1>1, <1>2 DEF RetentionInv

\* A step that gives one process a new content.
LEMMA BecomeMovesOne ==
    ASSUME TypeOK, NEW w \in Workers, NEW q, Become(w, q)
    PROVE  run'[w] = q /\ \A v \in Workers \ {w} : SameRun(v)
BY DEF TypeOK, Become, SameRun

\* A step of a run keeps the invariant.
LEMMA StepKeepsInv ==
    ASSUME TypeOK, RetentionInv, NEW w \in Workers, Step(w) PROVE RetentionInv'
<1> DEFINE r == run[w]
<1>0. r \in Run /\ RunInv(w)
  BY DEF TypeOK, RetentionInv
<1>1. ASSUME NEW k \in Kinds, Start(w, k) PROVE RetentionInv'
  <2> DEFINE q == [Idle EXCEPT !.pc = "dump", !.kind = k, !.date = Today,
                               !.alone = (Rivals(w, k, Today) = {})]
  <2>1. /\ q.pc = "dump" /\ q.date = Today /\ q.ticks = 0 /\ ~q.cleaned
    BY DEF Idle
  <2> HIDE DEF q
  <2>2. run' = [v \in Workers |-> IF v = w THEN q
                  ELSE [run[v] EXCEPT !.alone = @ /\ v \notin Rivals(w, k, Today)]]
    BY <1>1 DEF Start, q
  <2>3. run'[w] = q
    BY <2>2
  <2>4. \A v \in Workers \ {w} : SameRun(v)
    <3> SUFFICES ASSUME NEW v \in Workers \ {w} PROVE SameRun(v)
      OBVIOUS
    <3>1. run'[v] = [run[v] EXCEPT !.alone = @ /\ v \notin Rivals(w, k, Today)]
      BY <2>2
    <3>2. run[v] \in Run
      BY DEF TypeOK
    <3> QED BY <3>1, <3>2 DEF SameRun, Run
  <2>5. UNCHANGED <<clock, bucket>>
    BY <1>1 DEF Start
  <2>6. DayStart(Today) <= clock /\ clock < DayStart(Today) + DayTicks /\ clock \in Nat
          /\ DayStart(Today) \in Nat
    BY StateNumbers, DateOfTick, Numbers DEF Today, DayStart
  <2>7. RunInv(w)'
    BY <2>1, <2>3, <2>5, <2>6, Numbers
       DEF RunInv, BeganOnDate, Busy, HasObject, ListIsRight, CleanedUp, DayStart
  <2> QED BY <2>4, <2>5, <2>7, OneMoves DEF BucketMoves
<1>2. ASSUME NEW q, Become(w, q), clock' = clock, BucketMoves(w), Busy(w),
             q.kind = r.kind, q.date = r.date, q.ticks = r.ticks, q.now = r.now,
             q.cleaned = r.cleaned, q.pc \notin {"list", "delete"},
             r.pc \in {"remove", "success"} => q.pc \in {"remove", "success"}
      PROVE  RetentionInv'
  <2>1. run'[w] = q /\ \A v \in Workers \ {w} : SameRun(v)
    BY <1>2, BecomeMovesOne
  <2>2. RunInv(w)'
    BY <1>2, <2>1, MoverKeepsInv
  <2> QED BY <1>2, <2>1, <2>2, OneMoves
<1>3. CASE Dump(w)
  <2>1. /\ Become(w, [r EXCEPT !.pc = "write", !.linked = TRUE])
             \/ Become(w, [r EXCEPT !.pc = "put"])
        /\ clock' = clock /\ bucket' = bucket /\ r.pc = "dump"
    BY <1>3 DEF Dump
  <2> QED BY <1>0, <1>2, <2>1 DEF Busy, BucketMoves, Run
<1>4. CASE Write(w)
  BY <1>0, <1>2, <1>4 DEF Write, Busy, BucketMoves, Run
<1>5. CASE CheckSize(w)
  BY <1>0, <1>2, <1>5 DEF CheckSize, Busy, BucketMoves, Run
<1>6. CASE Put(w)
  <2> DEFINE q == [r EXCEPT !.pc = "list"]
  <2>1. /\ q.pc = "list" /\ q.kind = r.kind /\ q.date = r.date /\ q.ticks = r.ticks
        /\ q.cleaned = r.cleaned
    BY <1>0 DEF Run
  <2>2. Become(w, q) /\ r.pc = "put" /\ bucket' \in Puts(w) /\ clock' = clock
    BY <1>6 DEF Put
  <2> HIDE DEF q
  <2>3. run'[w] = q /\ \A v \in Workers \ {w} : SameRun(v)
    BY <2>2, BecomeMovesOne
  <2>4. PICK n \in bucket' : Key(n) = <<r.kind, r.date>> /\ n.modified = clock
    <3>1. PICK whole \in BOOLEAN : bucket' = With(w, whole)
      BY <2>2 DEF Puts
    <3> DEFINE new == [kind |-> r.kind, date |-> r.date, modified |-> clock,
                       whole |-> whole]
    <3>2. new \in bucket' /\ Key(new) = <<r.kind, r.date>> /\ new.modified = clock
      BY <3>1 DEF With, Key
    <3> QED BY <3>2
  <2>5. HasObject(w)'
    BY <2>1, <2>2, <2>3, <2>4, StateNumbers DEF HasObject, Key
  <2>6. BeganOnDate(w)' /\ CleanedUp(w)' /\ ListIsRight(w)'
    BY <1>0, <2>1, <2>2, <2>3
       DEF RunInv, BeganOnDate, Busy, CleanedUp, ListIsRight, DayStart
  <2> QED BY <2>2, <2>3, <2>5, <2>6, OneMoves DEF RunInv, BucketMoves
<1>7. CASE List(w)
  <2> DEFINE q == [r EXCEPT !.pc = "delete", !.now = clock, !.todo = Expired(r.kind, clock)]
  <2>1. /\ q.pc = "delete" /\ q.kind = r.kind /\ q.date = r.date /\ q.ticks = r.ticks
        /\ q.cleaned = r.cleaned /\ q.now = clock /\ q.todo = Expired(r.kind, clock)
    BY <1>0 DEF Run
  <2>2. Become(w, q) /\ r.pc = "list" /\ UNCHANGED <<clock, bucket>>
    BY <1>7 DEF List
  <2> HIDE DEF q
  <2>3. run'[w] = q /\ \A v \in Workers \ {w} : SameRun(v)
    BY <2>2, BecomeMovesOne
  <2>4. BeganOnDate(w)' /\ HasObject(w)' /\ CleanedUp(w)'
    BY <1>0, <2>1, <2>2, <2>3
       DEF RunInv, BeganOnDate, Busy, CleanedUp, HasObject, DayStart, Key
  <2>5. \A key \in Expired(r.kind, clock) :
          key[1] = r.kind /\ DayStart(key[2]) + Kept < clock
    <3> SUFFICES ASSUME NEW o \in bucket, o.kind = r.kind, o.modified + Kept < clock
                 PROVE  Key(o)[1] = r.kind /\ DayStart(Key(o)[2]) + Kept < clock
      BY DEF Expired
    <3>1. Key(o)[1] = o.kind /\ Key(o)[2] = o.date
      BY DEF Key
    <3>2. DayStart(o.date) <= o.modified
      BY DEF RetentionInv, ObjectsInDate
    <3> QED BY <3>1, <3>2, StateNumbers, Numbers
  <2>6. \A o \in bucket : Key(o) \in Expired(r.kind, clock) => o.modified + Kept < clock
    BY DEF RetentionInv, KeysAreUnique, Expired
  <2>7. ListIsRight(w)'
    <3>1. Expired(r.kind, clock)' = Expired(r.kind, clock)
      BY <2>1, <2>2, <2>3 DEF Expired, Key, Kept
    <3>2. clock <= clock
      BY StateNumbers
    <3> QED BY <2>1, <2>2, <2>3, <2>5, <2>6, <3>1, <3>2
            DEF ListIsRight, DayStart, Kept, Key, Expired
  <2> QED BY <2>2, <2>3, <2>4, <2>7, OneMoves DEF RunInv, BucketMoves
<1>8. CASE Delete(w)
  <2>0. r.pc = "delete" /\ clock' = clock /\ ~r.cleaned
    BY <1>0, <1>8 DEF Delete, RunInv, CleanedUp
  <2>1. ASSUME NEW key \in r.todo, bucket' = {o \in bucket : Key(o) # key},
               Become(w, [r EXCEPT !.todo = @ \ {key}])
        PROVE  RetentionInv'
    <3> DEFINE q == [r EXCEPT !.todo = @ \ {key}]
    <3>1. /\ q.pc = "delete" /\ q.kind = r.kind /\ q.date = r.date /\ q.ticks = r.ticks
          /\ q.cleaned = r.cleaned /\ q.now = r.now /\ q.todo = r.todo \ {key}
      BY <1>0, <2>0 DEF Run
    <3> HIDE DEF q
    <3>2. run'[w] = q /\ \A v \in Workers \ {w} : SameRun(v)
      BY <2>1, BecomeMovesOne DEF q
    <3>3. BucketMoves(w)
      BY <2>0, <2>1 DEF BucketMoves
    <3>4. BeganOnDate(w)' /\ CleanedUp(w)'
      BY <1>0, <2>0, <3>1, <3>2 DEF RunInv, BeganOnDate, Busy, CleanedUp, DayStart
    <3>5. HasObject(w)'
      <4>1. PICK n \in bucket : Key(n) = <<r.kind, r.date>> /\ clock <= n.modified + r.ticks
        BY <1>0, <2>0 DEF RunInv, HasObject
      <4>2. n \in bucket'
        BY <2>0, <2>1, <4>1, OwnKeyIsSafe DEF Busy
      <4> QED BY <2>0, <3>1, <3>2, <4>1, <4>2 DEF HasObject, Key
    <3>6. /\ r.now <= clock /\ r.now \in Nat
          /\ \A x \in r.todo : x[1] = r.kind /\ DayStart(x[2]) + Kept < r.now
          /\ \A o \in bucket : Key(o) \in r.todo => o.modified + Kept < r.now
          /\ Expired(r.kind, r.now) \subseteq r.todo
      BY <1>0, <2>0, StateNumbers DEF RunInv, ListIsRight
    <3>7. \A o \in bucket' : o.kind = r.kind /\ o.modified + Kept < r.now
                               => Key(o) \in r.todo \ {key}
      <4> SUFFICES ASSUME NEW o \in bucket', o.kind = r.kind, o.modified + Kept < r.now
                   PROVE  Key(o) \in r.todo \ {key}
        OBVIOUS
      <4>1. o \in bucket /\ Key(o) # key
        BY <2>1
      <4> QED BY <3>6, <4>1 DEF Expired
    <3>8. ListIsRight(w)'
      BY <2>0, <2>1, <3>1, <3>2, <3>6, <3>7 DEF ListIsRight, DayStart, Kept, Key, Expired
    <3> QED BY <2>0, <3>2, <3>3, <3>4, <3>5, <3>8, OneMoves DEF RunInv
  <2>2. ASSUME r.todo = {}, bucket' = bucket,
               Become(w, [r EXCEPT !.pc = AfterCleanup(w), !.cleaned = TRUE])
        PROVE  RetentionInv'
    <3> DEFINE q == [r EXCEPT !.pc = AfterCleanup(w), !.cleaned = TRUE]
    <3>1. /\ q.pc \in {"remove", "success"} /\ q.kind = r.kind /\ q.date = r.date
          /\ q.ticks = r.ticks /\ q.now = r.now
      BY <1>0 DEF Run, AfterCleanup
    <3> HIDE DEF q
    <3>2. run'[w] = q /\ \A v \in Workers \ {w} : SameRun(v)
      BY <2>2, BecomeMovesOne DEF q
    <3>3. BeganOnDate(w)' /\ HasObject(w)' /\ ListIsRight(w)'
      BY <1>0, <2>0, <3>1, <3>2
         DEF RunInv, BeganOnDate, Busy, HasObject, ListIsRight, DayStart
    <3>4. r.now <= clock /\ Expired(r.kind, r.now) = {}
      BY <1>0, <2>0, <2>2 DEF RunInv, ListIsRight
    <3>5. CleanedUp(w)'
      BY <2>0, <2>2, <3>1, <3>2, <3>4 DEF CleanedUp, Expired, Key, Kept
    <3> QED BY <2>0, <2>2, <3>2, <3>3, <3>5, OneMoves DEF RunInv, BucketMoves
  <2> QED BY <1>8, <2>1, <2>2 DEF Delete
<1>9. CASE CleanupFails(w)
  <2>1. AfterCleanup(w) \in {"remove", "success"}
    BY DEF AfterCleanup
  <2> QED BY <1>0, <1>2, <1>9, <2>1 DEF CleanupFails, Busy, BucketMoves, Run
<1>10. CASE Remove(w)
  <2>1. \A v \in Workers : run[v] \in Run
    BY DEF TypeOK
  <2>2. run'[w] = [r EXCEPT !.pc = "success"]
    BY <1>10 DEF Remove
  <2>3. \A v \in Workers \ {w} : SameRun(v)
    BY <1>10, <2>1 DEF Remove, SameRun, Run
  <2>4. /\ run'[w].kind = r.kind /\ run'[w].date = r.date /\ run'[w].ticks = r.ticks
        /\ run'[w].now = r.now /\ run'[w].cleaned = r.cleaned /\ run'[w].pc = "success"
    BY <1>0, <2>2 DEF Run
  <2>5. clock' = clock /\ BucketMoves(w) /\ Busy(w)
    BY <1>10 DEF Remove, BucketMoves, Busy
  <2>6. RunInv(w)'
    BY <2>4, <2>5, MoverKeepsInv
  <2> QED BY <2>3, <2>5, <2>6, OneMoves
<1>11. CASE Raise(w)
  <2>1. BucketMoves(w) /\ clock' = clock /\ Become(w, FailedRun(w))
    BY <1>11 DEF Raise, BucketMoves
  <2>2. run'[w] = FailedRun(w) /\ \A v \in Workers \ {w} : SameRun(v)
    BY <2>1, BecomeMovesOne
  <2>3. FailedRun(w).pc = "failed" /\ ~FailedRun(w).cleaned
    BY DEF FailedRun, Idle
  <2> QED BY <2>1, <2>2, <2>3, NothingHeld, OneMoves
<1>12. CASE Ack(w)
  <2>1. BucketMoves(w) /\ clock' = clock /\ Become(w, Idle)
    BY <1>12 DEF Ack, BucketMoves
  <2>2. run'[w] = Idle /\ \A v \in Workers \ {w} : SameRun(v)
    BY <2>1, BecomeMovesOne
  <2> QED BY <2>1, <2>2, IdleIsARun, NothingHeld, OneMoves
<1> QED BY <1>1, <1>3, <1>4, <1>5, <1>6, <1>7, <1>8, <1>9, <1>10, <1>11, <1>12 DEF Step

\* Time that passes is time the runs count.
LEMMA TickKeepsInv == ASSUME TypeOK, RetentionInv, Tick PROVE RetentionInv'
<1>0. clock' = clock + 1 /\ bucket' = bucket /\ clock \in Nat
  BY StateNumbers DEF Tick
<1>1. ObjectsInDate' /\ KeysAreUnique'
  <2>1. KeysAreUnique'
    BY <1>0 DEF RetentionInv, KeysAreUnique, Key
  <2>2. \A o \in bucket : DayStart(o.date) <= o.modified /\ o.modified <= clock + 1
    BY <1>0, StateNumbers DEF RetentionInv, ObjectsInDate
  <2> QED BY <1>0, <2>1, <2>2 DEF ObjectsInDate, DayStart
<1>2. ASSUME NEW w \in Workers PROVE RunInv(w)'
  <2>0. run[w] \in Run /\ RunInv(w)
    BY DEF TypeOK, RetentionInv
  <2>1. CASE run[w].pc = "idle"
    <3>1. run'[w] = run[w]
      BY <2>1 DEF Tick
    <3> QED BY <2>0, <2>1, <3>1
            DEF RunInv, BeganOnDate, Busy, HasObject, ListIsRight, CleanedUp
  <2>2. CASE run[w].pc # "idle"
    <3>1. run'[w] = [run[w] EXCEPT !.ticks = @ + 1]
      BY <2>2 DEF Tick
    <3>2. /\ run'[w].pc = run[w].pc /\ run'[w].kind = run[w].kind
          /\ run'[w].date = run[w].date /\ run'[w].ticks = run[w].ticks + 1
          /\ run'[w].now = run[w].now /\ run'[w].todo = run[w].todo
          /\ run'[w].cleaned = run[w].cleaned
      BY <2>0, <3>1 DEF Run
    <3>3. /\ run[w].ticks \in Nat /\ DayStart(run[w].date) \in Nat /\ run[w].now \in Nat
          /\ \A n \in bucket : n.modified \in Nat
      BY StateNumbers
    <3>4. BeganOnDate(w)'
      <4> SUFFICES ASSUME Busy(w)
                   PROVE  /\ DayStart(run[w].date) + (run[w].ticks + 1) <= clock + 1
                          /\ clock + 1 < DayStart(run[w].date) + DayTicks + (run[w].ticks + 1)
        BY <1>0, <3>2 DEF BeganOnDate, Busy, DayStart
      <4> QED BY <1>0, <2>0, <3>3, Numbers DEF RunInv, BeganOnDate
    <3>5. HasObject(w)'
      <4> SUFFICES ASSUME run[w].pc \in {"list", "delete"}
                   PROVE  \E n \in bucket : Key(n) = <<run[w].kind, run[w].date>>
                                       /\ clock + 1 <= n.modified + (run[w].ticks + 1)
        BY <1>0, <3>2 DEF HasObject, Key
      <4>1. PICK n \in bucket : Key(n) = <<run[w].kind, run[w].date>>
                                  /\ clock <= n.modified + run[w].ticks
        BY <2>0 DEF RunInv, HasObject
      <4> QED BY <1>0, <3>3, <4>1
    <3>6. ListIsRight(w)'
      <4> SUFFICES ASSUME run[w].pc = "delete"
                   PROVE  /\ run[w].now <= clock + 1
                          /\ \A key \in run[w].todo : key[1] = run[w].kind
                               /\ DayStart(key[2]) + Kept < run[w].now
                          /\ \A o \in bucket : Key(o) \in run[w].todo
                               => o.modified + Kept < run[w].now
                          /\ Expired(run[w].kind, run[w].now) \subseteq run[w].todo
        BY <1>0, <3>2 DEF ListIsRight, DayStart, Kept, Key, Expired
      <4> QED BY <1>0, <2>0, <3>3 DEF RunInv, ListIsRight
    <3>7. CleanedUp(w)'
      <4> SUFFICES ASSUME run[w].cleaned
                   PROVE  /\ run[w].pc \in {"remove", "success"} /\ run[w].now <= clock + 1
                          /\ Expired(run[w].kind, run[w].now) = {}
        BY <1>0, <3>2 DEF CleanedUp, Kept, Key, Expired
      <4> QED BY <1>0, <2>0, <3>3 DEF RunInv, CleanedUp
    <3> QED BY <3>4, <3>5, <3>6, <3>7 DEF RunInv
  <2> QED BY <2>1, <2>2
<1> QED BY <1>1, <1>2 DEF RetentionInv

\* The invariant of the retention holds initially and is kept by every step.
LEMMA RetentionInvHolds == Spec => []RetentionInv
<1>1. Init => RetentionInv
  <2> SUFFICES ASSUME Init PROVE RetentionInv
    OBVIOUS
  <2>1. bucket = {} /\ \A w \in Workers : run[w] = Idle
    BY DEF Init
  <2> QED BY <2>1, IdleIsARun
          DEF RetentionInv, ObjectsInDate, KeysAreUnique, RunInv, BeganOnDate, Busy,
              HasObject, ListIsRight, CleanedUp
<1>2. TypeOK /\ RetentionInv /\ [Next]_vars => RetentionInv'
  <2> SUFFICES ASSUME TypeOK, RetentionInv, [Next]_vars PROVE RetentionInv'
    OBVIOUS
  <2>1. ASSUME NEW w \in Workers, Step(w) PROVE RetentionInv'
    BY <2>1, StepKeepsInv
  <2>2. CASE Tick
    BY <2>2, TickKeepsInv
  <2>3. CASE CrashContainer
    <3>1. \A w \in Workers : run'[w].pc \in {"idle", "failed"} /\ ~run'[w].cleaned
      BY <2>3, IdleIsARun DEF CrashContainer
    <3>2. ObjectsInDate' /\ KeysAreUnique'
      BY <2>3 DEF CrashContainer, RetentionInv, ObjectsInDate, KeysAreUnique, DayStart, Key
    <3> QED BY <3>1, <3>2, NothingHeld DEF RetentionInv
  <2>4. CASE UNCHANGED <<clock, run, bucket>>
    <3>1. \A w \in Workers : SameRun(w) /\ BucketMoves(w)
      BY <2>4 DEF SameRun, BucketMoves
    <3>2. \A w \in Workers : RunInv(w)'
      BY <2>4, <3>1, OthersKeepInv
    <3>3. ObjectsInDate' /\ KeysAreUnique'
      BY <2>4 DEF RetentionInv, ObjectsInDate, KeysAreUnique, DayStart, Key
    <3> QED BY <3>2, <3>3 DEF RetentionInv
  <2> QED BY <2>1, <2>2, <2>3, <2>4 DEF Next, Send, vars
<1> QED BY <1>1, <1>2, TypeCorrect, PTL DEF Spec

\* A clean-up that came to its end has left nothing of its kind that had
\* expired when it began.
THEOREM CleanupIsComplete == Spec => []NothingExpiredIsLeft
<1>1. RetentionInv => NothingExpiredIsLeft
  BY DEF RetentionInv, RunInv, CleanedUp, NothingExpiredIsLeft
<1> QED BY <1>1, RetentionInvHolds, PTL

\* An object disappears only when it has expired and a later one of its kind
\* stays: the clean-up of a run never reaches the object of that run, nor one
\* that another run has put since the list was taken.
THEOREM LastBackupIsKept == Spec => LastBackupStays
<1> DEFINE Step1 == \A o \in bucket : Key(o) \notin {Key(x) : x \in bucket'} =>
          /\ o.modified + Kept < clock
          /\ \E n \in bucket' : n.kind = o.kind /\ n.modified > o.modified
<1>1. TypeOK /\ RetentionInv /\ [Next]_vars => Step1
  <2> SUFFICES ASSUME TypeOK, RetentionInv, [Next]_vars, NEW o \in bucket,
                      Key(o) \notin {Key(x) : x \in bucket'}
               PROVE  /\ o.modified + Kept < clock
                      /\ \E n \in bucket' : n.kind = o.kind /\ n.modified > o.modified
    OBVIOUS
  <2>1. PICK w \in Workers : Step(w)
    BY DEF Next, Send, CrashContainer, Tick, vars
  <2>2. BucketMoves(w)
    BY <2>1 DEF Step, Start, Dump, Write, CheckSize, Put, List, Delete, CleanupFails,
                Remove, Raise, Ack, BucketMoves
  <2>3. run[w].pc = "delete" /\ Key(o) \in run[w].todo
    BY <2>2, BucketFacts
  <2>4. o.modified + Kept < run[w].now /\ run[w].now <= clock
    BY <2>3 DEF RetentionInv, RunInv, ListIsRight
  <2>5. o.kind = run[w].kind
    BY <2>3 DEF RetentionInv, RunInv, ListIsRight, Key
  <2>6. PICK n \in bucket : Key(n) = <<run[w].kind, run[w].date>>
                              /\ clock <= n.modified + run[w].ticks
    BY <2>3 DEF RetentionInv, RunInv, HasObject
  <2>7. n \in bucket'
    BY <2>2, <2>3, <2>6, BucketFacts, OwnKeyIsSafe DEF Busy
  <2>8. /\ clock \in Nat /\ o.modified \in Nat /\ n.modified \in Nat
        /\ run[w].now \in Nat /\ run[w].ticks \in Nat /\ run[w].ticks <= TimeLimit
    BY <2>6, StateNumbers
  <2>9. n.kind = o.kind
    BY <2>5, <2>6 DEF Key
  <2>10. o.modified + Kept < clock /\ n.modified > o.modified
    BY <2>4, <2>6, <2>8, Numbers
  <2> QED BY <2>7, <2>9, <2>10
<1> QED BY <1>1, TypeCorrect, RetentionInvHolds, PTL DEF Spec, LastBackupStays
--------------------------------------------------------------------------
\* A backup that says "success"

Same(w) == Rivals(w, run[w].kind, run[w].date)

\* What SuccessMeansStored says of one run.
Stored(w) ==
    \E o \in bucket : /\ Key(o) = <<run[w].kind, run[w].date>>
                      /\ run[w].kind = "postgres" => o.whole

\* A run nobody has overlapped finds its file as it left it.
OwnFile(w) ==
    /\ run[w].pc = "write" => run[w].linked /\ files[run[w].date] = "torn"
    /\ run[w].pc = "size" => files[run[w].date] = "whole"
    /\ run[w].pc = "put" /\ run[w].kind = "postgres" => files[run[w].date] = "whole"

\* After a success whose message is not yet acknowledged, the other process may
\* begin the same backup: it too is alone.
AloneInv(w) ==
    /\ run[w].pc \in {"write", "size", "remove"} => run[w].kind = "postgres"
    /\ run[w].alone =>
         /\ Running(w) => Same(w) = {}
         /\ OwnFile(w)
         /\ run[w].pc \in {"list", "delete", "remove", "success"} => Stored(w)
         /\ run[w].pc = "success" => \A v \in Same(w) : run[v].alone

\* The one whose step it is is running, goes on as the same run or ends, and
\* touches no file but that of its own date.
RunMoves(w) ==
    /\ Running(w)' => /\ Running(w)
                      /\ run'[w].kind = run[w].kind /\ run'[w].date = run[w].date
                      /\ run'[w].alone = run[w].alone
    /\ \A d \in Dates : files'[d] # files[d] =>
         Running(w) /\ run[w].kind = "postgres" /\ run[w].date = d
    /\ \A v \in Workers \ {w} :
         /\ SameRun(v) /\ run'[v].alone = run[v].alone
         /\ run'[v].linked # run[v].linked =>
              /\ Running(w) /\ run[w].kind = "postgres"
              /\ run[v].kind = "postgres" /\ run[w].date = run[v].date

\* Being a rival is mutual.
LEMMA RivalsAreMutual ==
    ASSUME NEW w \in Workers, NEW v \in Workers \ {w}, Running(w),
           run[w].kind = run[v].kind, run[w].date = run[v].date
    PROVE  w \in Same(v)
BY DEF Same, Rivals

\* A step of w leaves what is known of the other process.
LEMMA OthersStayAlone ==
    ASSUME TypeOK, RetentionInv, NEW w \in Workers, NEW v \in Workers \ {w},
           AloneInv(v), AloneInv(w), BucketMoves(w), RunMoves(w)
    PROVE  AloneInv(v)'
<1> DEFINE k == run[v].kind
           d == run[v].date
<1>0. /\ run'[v].pc = run[v].pc /\ run'[v].kind = run[v].kind
      /\ run'[v].date = run[v].date /\ run'[v].alone = run[v].alone
      /\ run[v].date \in Dates
  BY DEF RunMoves, SameRun, TypeOK, Run
<1>1. run[v].pc \in {"write", "size", "remove"} => run[v].kind = "postgres"
  BY DEF AloneInv
<1>2. SUFFICES ASSUME run[v].alone
      PROVE  /\ Running(v) => Same(v)' = {}
             /\ OwnFile(v)'
             /\ run[v].pc \in {"list", "delete", "remove", "success"} => Stored(v)'
             /\ run[v].pc = "success" => \A u \in Same(v)' : run'[u].alone
  BY <1>0, <1>1 DEF AloneInv, Running
<1>3. Same(v)' \subseteq Same(v) /\ \A u \in Same(v)' : run'[u].alone = run[u].alone
  <2> SUFFICES ASSUME NEW u \in Same(v)' PROVE u \in Same(v) /\ run'[u].alone = run[u].alone
    OBVIOUS
  <2>1. /\ u \in Workers \ {v} /\ Running(u)'
        /\ run'[u].kind = run[v].kind /\ run'[u].date = run[v].date
    BY <1>0 DEF Same, Rivals, Running
  <2>2. CASE u = w
    BY <2>1, <2>2 DEF RunMoves, Same, Rivals
  <2>3. CASE u # w
    BY <2>1, <2>3 DEF RunMoves, SameRun, Same, Rivals, Running
  <2> QED BY <2>2, <2>3
<1>4. OwnFile(v)'
  <2>1. SUFFICES ASSUME run[v].pc \in {"write", "size", "put"}, run[v].kind = "postgres"
                 PROVE  run'[v].linked = run[v].linked
                          /\ files'[run[v].date] = files[run[v].date]
    BY <1>0, <1>1, <1>2 DEF OwnFile, AloneInv
  <2>2. Same(v) = {}
    BY <1>2, <2>1 DEF AloneInv, Running
  <2>3. ~(Running(w) /\ run[w].kind = "postgres" /\ run[w].date = run[v].date)
    BY <2>1, <2>2, RivalsAreMutual
  <2> QED BY <1>0, <2>3 DEF RunMoves
<1>5. ASSUME run[v].pc \in {"list", "delete", "remove", "success"} PROVE Stored(v)'
  <2>1. PICK o \in bucket : Key(o) = <<k, d>> /\ (k = "postgres" => o.whole)
    BY <1>2, <1>5 DEF AloneInv, Stored
  <2>2. SUFFICES \E n \in bucket' : Key(n) = <<k, d>> /\ (k = "postgres" => n.whole)
    BY <1>0 DEF Stored, Key
  <2>3. CASE run[w].pc = "put" /\ bucket' \in Puts(w)
    <3>1. CASE Key(o) # <<run[w].kind, run[w].date>>
      <4>1. PICK whole \in BOOLEAN : bucket' = With(w, whole)
        BY <2>3 DEF Puts
      <4> QED BY <2>1, <3>1, <4>1 DEF With
    <3>2. CASE Key(o) = <<run[w].kind, run[w].date>>
      <4>1. run[w].kind = k /\ run[w].date = d
        BY <2>1, <3>2
      <4>2. w \in Same(v)
        BY <2>3, <4>1, RivalsAreMutual DEF Running
      <4>3. run[w].alone
        BY <1>2, <1>5, <4>2 DEF AloneInv, Running
      <4>4. k = "postgres" => files[run[w].date] = "whole"
        BY <2>3, <4>1, <4>3 DEF AloneInv, OwnFile
      <4>5. PICK whole \in BOOLEAN : bucket' = With(w, whole) /\ (k = "postgres" => whole)
        BY <2>3, <4>1, <4>4 DEF Puts
      <4> DEFINE new == [kind |-> run[w].kind, date |-> run[w].date,
                         modified |-> clock, whole |-> whole]
      <4>6. new \in bucket' /\ Key(new) = <<k, d>> /\ new.whole = whole
        BY <4>1, <4>5 DEF With, Key
      <4> QED BY <4>5, <4>6
    <3> QED BY <3>1, <3>2
  <2>4. CASE run[w].pc = "delete" /\ \E key \in run[w].todo :
               bucket' = {x \in bucket : Key(x) # key}
    <3>1. <<k, d>> \notin run[w].todo
      BY <1>5, <2>4, OwnKeyIsSafe DEF Busy
    <3> QED BY <2>1, <2>4, <3>1
  <2> QED BY <2>1, <2>3, <2>4 DEF BucketMoves
<1>6. (Running(v) => Same(v)' = {})
        /\ (run[v].pc = "success" => \A u \in Same(v)' : run'[u].alone)
  BY <1>2, <1>3 DEF AloneInv
<1> QED BY <1>4, <1>5, <1>6

\* A process that is handed a message: one of two, and alone unless the other
\* makes the same backup.
LEMMA StartKeepsAlone ==
    ASSUME TypeOK, NEW w1, NEW w2, Workers = {w1, w2}, \A v \in Workers : AloneInv(v),
           NEW w \in Workers, NEW k \in Kinds, Start(w, k)
    PROVE  \A v \in Workers : AloneInv(v)'
<1> DEFINE rivals == Rivals(w, k, Today)
<1>0. /\ \A v \in Workers : run[v] \in Run
      /\ run[w].pc = "idle" /\ bucket' = bucket /\ files' = files
      /\ run' = [v \in Workers |->
             IF v = w
             THEN [Idle EXCEPT !.pc = "dump", !.kind = k, !.date = Today,
                               !.alone = (rivals = {})]
             ELSE [run[v] EXCEPT !.alone = @ /\ v \notin rivals]]
  BY DEF Start, TypeOK
<1> HIDE DEF rivals
<1>1. /\ run'[w].pc = "dump" /\ run'[w].kind = k /\ run'[w].date = Today
      /\ run'[w].alone <=> rivals = {}
  BY <1>0 DEF Idle
<1>2. ASSUME NEW v \in Workers \ {w}
      PROVE  /\ run'[v].pc = run[v].pc /\ run'[v].kind = run[v].kind
             /\ run'[v].date = run[v].date /\ run'[v].linked = run[v].linked
             /\ run'[v].alone <=> (run[v].alone /\ v \notin rivals)
  BY <1>0 DEF Run
<1>3. \A v \in Workers : v \in rivals <=>
        v # w /\ Running(v) /\ run[v].kind = k /\ run[v].date = Today
  BY DEF rivals, Rivals
<1>4. AloneInv(w)'
  <2>1. run'[w].alone => Same(w)' = {}
    BY <1>1, <1>2, <1>3 DEF Same, Rivals, Running
  <2> QED BY <1>1, <2>1 DEF AloneInv, OwnFile
<1>5. ASSUME NEW v \in Workers \ {w} PROVE AloneInv(v)'
  <2>0. AloneInv(v) /\ (Running(v)' <=> Running(v))
    BY <1>2 DEF Running
  <2>1. SUFFICES ASSUME run[v].alone, v \notin rivals
        PROVE  /\ Running(v) => Same(v)' = {}
               /\ OwnFile(v)'
               /\ run[v].pc \in {"list", "delete", "remove", "success"} => Stored(v)'
               /\ run[v].pc = "success" => \A u \in Same(v)' : run'[u].alone
    BY <1>2, <2>0 DEF AloneInv, Running
  <2>2. Same(v)' \subseteq {w}
    BY <1>2, <1>5 DEF Same, Rivals
  <2>3. ASSUME Running(v) PROVE Same(v)' = {}
    <3>1. ~(run[v].kind = k /\ run[v].date = Today)
      BY <1>3, <2>1, <2>3
    <3> QED BY <1>1, <1>2, <2>2, <3>1 DEF Same, Rivals
  <2>i. /\ run'[v].pc = run[v].pc /\ run'[v].kind = run[v].kind
        /\ run'[v].date = run[v].date /\ run'[v].linked = run[v].linked
    BY <1>2
  <2>4. OwnFile(v)'
    <3>1. OwnFile(v)
      BY <2>0, <2>1 DEF AloneInv
    <3> QED BY <1>0, <2>i, <3>1 DEF OwnFile
  <2>5. ASSUME run[v].pc \in {"list", "delete", "remove", "success"} PROVE Stored(v)'
    <3>1. Stored(v)
      BY <2>0, <2>1, <2>5 DEF AloneInv
    <3> QED BY <1>0, <2>i, <3>1 DEF Stored, Key
  <2>6. ASSUME run[v].pc = "success" PROVE \A u \in Same(v)' : run'[u].alone
    <3>1. rivals = {}
      <4>1. rivals \subseteq Workers
        BY DEF rivals, Rivals
      <4>2. Workers = {w, v} /\ ~Running(v)
        BY <2>6 DEF Running
      <4> QED BY <1>3, <4>1, <4>2
    <3> QED BY <1>1, <2>2, <3>1
  <2> QED BY <2>3, <2>4, <2>5, <2>6
<1> QED BY <1>4, <1>5

\* The process that moves keeps what is known of itself, and moves as the others
\* expect.
LEMMA MoverStaysAlone ==
    ASSUME TypeOK, RetentionInv, NEW w \in Workers, AloneInv(w),
           \A v \in Workers \ {w} : AloneInv(v), Step(w), \A k \in Kinds : ~Start(w, k)
    PROVE  AloneInv(w)' /\ RunMoves(w) /\ BucketMoves(w)
<1> DEFINE r == run[w]
<1>0. /\ run \in [Workers -> Run] /\ r \in Run /\ r.date \in Dates
      /\ files \in [Dates -> {"none", "torn", "mixed", "whole"}]
  BY DEF TypeOK, Run
\* A run that goes on with its file and its claims, bucket and other runs aside.
<1>1. ASSUME NEW q \in Run, Become(w, q),
             \/ q.pc \in {"idle", "success", "failed"}
             \/ Running(w) /\ q.kind = r.kind /\ q.date = r.date /\ q.alone = r.alone,
             \/ files' = files
             \/ /\ Running(w) /\ r.kind = "postgres"
                /\ \E f : files' = [files EXCEPT ![r.date] = f]
      PROVE  RunMoves(w)
  <2>1. run' = [run EXCEPT ![w] = q]
    BY <1>1 DEF Become
  <2>2. run'[w] = q /\ \A v \in Workers \ {w} : run'[v] = run[v]
    BY <1>0, <2>1
  <2>3. \A d \in Dates : files'[d] # files[d] =>
           Running(w) /\ r.kind = "postgres" /\ r.date = d
    BY <1>0, <1>1
  <2> QED BY <1>1, <2>2, <2>3 DEF RunMoves, SameRun, Running
\* A run stays without a rival while it goes on.
<1>2. ASSUME RunMoves(w), Running(w)', r.alone
      PROVE  Same(w)' = {}
  <2>1. Running(w) /\ Same(w) = {}
    BY <1>2 DEF RunMoves, AloneInv
  <2>2. run'[w].kind = r.kind /\ run'[w].date = r.date
    BY <1>2 DEF RunMoves
  <2>3. \A v \in Workers \ {w} : /\ run'[v].pc = run[v].pc /\ run'[v].kind = run[v].kind
                                  /\ run'[v].date = run[v].date
    BY <1>2 DEF RunMoves, SameRun
  <2> QED BY <2>1, <2>2, <2>3 DEF Same, Rivals, Running
<1>3. CASE Dump(w)
  <2>1. r.pc = "dump" /\ bucket' = bucket
    BY <1>3 DEF Dump
  <2>2. CASE r.kind = "postgres"
    <3> DEFINE q == [r EXCEPT !.pc = "write", !.linked = TRUE]
    <3>1. /\ q \in Run /\ q.pc = "write" /\ q.kind = r.kind /\ q.date = r.date
          /\ q.alone = r.alone /\ q.linked
      BY <1>0 DEF Run
    <3>2. Become(w, q)
      BY <1>3, <2>2 DEF Dump
    <3> HIDE DEF q
    <3>3. run'[w] = q
      BY <3>2, BecomeMovesOne
    <3>4. PICK f : files' = [files EXCEPT ![r.date] = f] /\ (Same(w) = {} => f = "torn")
      BY <1>3, <2>2 DEF Dump, Same
    <3>5. RunMoves(w)
      BY <1>1, <2>1, <2>2, <3>1, <3>2, <3>4 DEF Running
    <3>6. r.alone => Same(w) = {} /\ Same(w)' = {}
      BY <1>2, <2>1, <3>1, <3>3, <3>5 DEF AloneInv, Running
    <3>7. r.alone => files'[r.date] = "torn"
      BY <1>0, <3>4, <3>6
    <3> QED BY <2>1, <2>2, <3>1, <3>3, <3>5, <3>6, <3>7 DEF AloneInv, OwnFile, BucketMoves
  <2>3. CASE r.kind # "postgres"
    <3> DEFINE q == [r EXCEPT !.pc = "put"]
    <3>1. /\ q \in Run /\ q.pc = "put" /\ q.kind = r.kind /\ q.date = r.date
          /\ q.alone = r.alone
      BY <1>0 DEF Run
    <3>2. Become(w, q) /\ files' = files
      BY <1>3, <2>3 DEF Dump
    <3> HIDE DEF q
    <3>3. run'[w] = q
      BY <3>2, BecomeMovesOne
    <3>4. RunMoves(w)
      BY <1>1, <2>1, <3>1, <3>2 DEF Running
    <3>5. r.alone => Same(w)' = {}
      BY <1>2, <3>1, <3>3, <3>4 DEF Running
    <3> QED BY <2>1, <2>3, <3>1, <3>3, <3>4, <3>5 DEF AloneInv, OwnFile, BucketMoves
  <2> QED BY <2>2, <2>3
<1>4. CASE Write(w)
  <2> DEFINE q == [r EXCEPT !.pc = "size", !.linked = FALSE]
  <2>0. r.pc = "write" /\ bucket' = bucket /\ r.kind = "postgres"
    BY <1>4 DEF Write, AloneInv
  <2>1. /\ q \in Run /\ q.pc = "size" /\ q.kind = r.kind /\ q.date = r.date
        /\ q.alone = r.alone
    BY <1>0 DEF Run
  <2>2. Become(w, q) /\ files' = [files EXCEPT ![r.date] =
                       IF r.linked /\ @ = "torn" THEN "whole" ELSE @]
    BY <1>4 DEF Write
  <2> HIDE DEF q
  <2>3. run'[w] = q
    BY <2>2, BecomeMovesOne
  <2>4. RunMoves(w)
    BY <1>1, <2>0, <2>1, <2>2 DEF Running
  <2>5. r.alone => Same(w)' = {}
    BY <1>2, <2>1, <2>3, <2>4 DEF Running
  <2>6. r.alone => files'[r.date] = "whole"
    BY <1>0, <2>0, <2>2 DEF AloneInv, OwnFile
  <2> QED BY <2>0, <2>1, <2>3, <2>4, <2>5, <2>6 DEF AloneInv, OwnFile, BucketMoves
<1>5. CASE CheckSize(w)
  <2> DEFINE q == [r EXCEPT !.pc = "put"]
  <2>0. r.pc = "size" /\ bucket' = bucket /\ r.kind = "postgres" /\ files' = files
    BY <1>5 DEF CheckSize, AloneInv
  <2>1. /\ q \in Run /\ q.pc = "put" /\ q.kind = r.kind /\ q.date = r.date
        /\ q.alone = r.alone
    BY <1>0 DEF Run
  <2>2. Become(w, q)
    BY <1>5 DEF CheckSize
  <2> HIDE DEF q
  <2>3. run'[w] = q
    BY <2>2, BecomeMovesOne
  <2>4. RunMoves(w)
    BY <1>1, <2>0, <2>1, <2>2 DEF Running
  <2>5. r.alone => Same(w)' = {}
    BY <1>2, <2>1, <2>3, <2>4 DEF Running
  <2>6. r.alone => files'[r.date] = "whole"
    BY <2>0 DEF AloneInv, OwnFile
  <2> QED BY <2>0, <2>1, <2>3, <2>4, <2>5, <2>6 DEF AloneInv, OwnFile, BucketMoves
<1>6. CASE Put(w)
  <2> DEFINE q == [r EXCEPT !.pc = "list"]
  <2>0. r.pc = "put" /\ bucket' \in Puts(w) /\ files' = files
    BY <1>6 DEF Put
  <2>1. /\ q \in Run /\ q.pc = "list" /\ q.kind = r.kind /\ q.date = r.date
        /\ q.alone = r.alone
    BY <1>0 DEF Run
  <2>2. Become(w, q)
    BY <1>6 DEF Put
  <2> HIDE DEF q
  <2>3. run'[w] = q
    BY <2>2, BecomeMovesOne
  <2>4. RunMoves(w)
    BY <1>1, <2>0, <2>1, <2>2 DEF Running
  <2>5. r.alone => Same(w)' = {}
    BY <1>2, <2>1, <2>3, <2>4 DEF Running
  <2>6. r.alone => Stored(w)'
    <3> SUFFICES ASSUME r.alone PROVE Stored(w)'
      OBVIOUS
    <3>1. r.kind = "postgres" => files[r.date] = "whole"
      BY <2>0 DEF AloneInv, OwnFile
    <3>2. PICK whole \in BOOLEAN : bucket' = With(w, whole) /\ (r.kind = "postgres" => whole)
      BY <2>0, <3>1 DEF Puts
    <3> DEFINE new == [kind |-> r.kind, date |-> r.date, modified |-> clock, whole |-> whole]
    <3>3. new \in bucket' /\ Key(new) = <<r.kind, r.date>> /\ new.whole = whole
      BY <3>2 DEF With, Key
    <3> QED BY <2>1, <2>3, <3>2, <3>3 DEF Stored, Key
  <2> QED BY <2>0, <2>1, <2>3, <2>4, <2>5, <2>6 DEF AloneInv, OwnFile, BucketMoves
\* The clean-up: the run keeps its object.
<1>7. ASSUME NEW q \in Run, Become(w, q), files' = files, BucketMoves(w),
             r.pc \in {"list", "delete"},
             q.pc \in {"delete", "success"} \/ (q.pc = "remove" /\ r.kind = "postgres"),
             q.kind = r.kind, q.date = r.date, q.alone = r.alone
      PROVE  AloneInv(w)' /\ RunMoves(w) /\ BucketMoves(w)
  <2>1. run'[w] = q
    BY <1>7, BecomeMovesOne
  <2>2. RunMoves(w) /\ Running(w)
    BY <1>1, <1>7 DEF Running
  <2>3. r.alone => Same(w)' = {}
    <3> SUFFICES ASSUME r.alone PROVE Same(w)' = {}
      OBVIOUS
    <3>1. Same(w) = {}
      BY <2>2 DEF AloneInv
    <3>2. \A v \in Workers \ {w} : /\ run'[v].pc = run[v].pc /\ run'[v].kind = run[v].kind
                                    /\ run'[v].date = run[v].date
      BY <2>2 DEF RunMoves, SameRun
    <3> QED BY <1>7, <2>1, <3>1, <3>2 DEF Same, Rivals, Running
  <2>4. r.alone => Stored(w)'
    <3> SUFFICES ASSUME r.alone PROVE Stored(w)'
      OBVIOUS
    <3>1. PICK o \in bucket : /\ Key(o) = <<r.kind, r.date>>
                              /\ r.kind = "postgres" => o.whole
      BY <1>7 DEF AloneInv, Stored
    <3>2. <<r.kind, r.date>> \notin r.todo \/ r.pc # "delete"
      BY <1>7, OwnKeyIsSafe DEF Busy
    <3>3. o \in bucket'
      BY <1>7, <3>1, <3>2 DEF BucketMoves
    <3> QED BY <1>7, <2>1, <3>1, <3>3 DEF Stored, Key
  <2> QED BY <1>7, <2>1, <2>2, <2>3, <2>4 DEF AloneInv, OwnFile
<1>8. AfterCleanup(w) = IF r.kind = "postgres" THEN "remove" ELSE "success"
  BY DEF AfterCleanup
<1>9. CASE List(w)
  <2> DEFINE q == [r EXCEPT !.pc = "delete", !.now = clock, !.todo = Expired(r.kind, clock)]
  <2>1. /\ q \in Run /\ q.pc = "delete" /\ q.kind = r.kind /\ q.date = r.date
        /\ q.alone = r.alone
    BY <1>0, ExpiredAreKeys DEF Run, TypeOK
  <2>2. Become(w, q) /\ r.pc = "list" /\ bucket' = bucket /\ files' = files
    BY <1>9 DEF List
  <2> HIDE DEF q
  <2> QED BY <1>7, <2>1, <2>2 DEF BucketMoves
<1>10. CASE Delete(w)
  <2>0. r.pc = "delete" /\ files' = files
    BY <1>10 DEF Delete
  <2>1. ASSUME NEW key \in r.todo, bucket' = {o \in bucket : Key(o) # key},
               Become(w, [r EXCEPT !.todo = @ \ {key}])
        PROVE  AloneInv(w)' /\ RunMoves(w) /\ BucketMoves(w)
    <3> DEFINE q == [r EXCEPT !.todo = @ \ {key}]
    <3>1. /\ q \in Run /\ q.pc = "delete" /\ q.kind = r.kind /\ q.date = r.date
          /\ q.alone = r.alone
      BY <1>0, <2>0 DEF Run
    <3>2. BucketMoves(w)
      BY <2>0, <2>1 DEF BucketMoves
    <3>3. Become(w, q)
      BY <2>1
    <3> HIDE DEF q
    <3> QED BY <1>7, <2>0, <3>1, <3>2, <3>3
  <2>2. ASSUME bucket' = bucket,
               Become(w, [r EXCEPT !.pc = AfterCleanup(w), !.cleaned = TRUE])
        PROVE  AloneInv(w)' /\ RunMoves(w) /\ BucketMoves(w)
    <3> DEFINE q == [r EXCEPT !.pc = AfterCleanup(w), !.cleaned = TRUE]
    <3>1. /\ q \in Run /\ q.pc = AfterCleanup(w) /\ q.kind = r.kind /\ q.date = r.date
          /\ q.alone = r.alone
      BY <1>0, <1>8 DEF Run
    <3>2. Become(w, q) /\ BucketMoves(w)
      BY <2>2 DEF BucketMoves
    <3> HIDE DEF q
    <3> QED BY <1>7, <1>8, <2>0, <3>1, <3>2
  <2> QED BY <1>10, <2>1, <2>2 DEF Delete
<1>11. CASE CleanupFails(w)
  <2> DEFINE q == [r EXCEPT !.pc = AfterCleanup(w), !.todo = {}]
  <2>1. /\ q \in Run /\ q.pc = AfterCleanup(w) /\ q.kind = r.kind /\ q.date = r.date
        /\ q.alone = r.alone
    BY <1>0, <1>8 DEF Run
  <2>2. Become(w, q) /\ r.pc \in {"list", "delete"} /\ files' = files /\ BucketMoves(w)
    BY <1>11 DEF CleanupFails, BucketMoves
  <2> HIDE DEF q
  <2> QED BY <1>7, <1>8, <2>1, <2>2
<1>12. CASE Remove(w)
  <2>0. /\ r.pc = "remove" /\ bucket' = bucket /\ r.kind = "postgres" /\ Running(w)
        /\ files' = [files EXCEPT ![r.date] = "none"]
    BY <1>12 DEF Remove, AloneInv, Running
  <2>1. run'[w] = [r EXCEPT !.pc = "success"]
    BY <1>12 DEF Remove
  <2>2. /\ run'[w].pc = "success" /\ run'[w].kind = r.kind /\ run'[w].date = r.date
        /\ run'[w].alone = r.alone
    BY <1>0, <2>1 DEF Run
  <2>3. ASSUME NEW v \in Workers \ {w}
        PROVE  /\ SameRun(v) /\ run'[v].alone = run[v].alone
               /\ run'[v].linked # run[v].linked =>
                    run[v].kind = "postgres" /\ run[w].date = run[v].date
    BY <1>0, <1>12 DEF Remove, SameRun, Run
  <2>4. \A d \in Dates : files'[d] # files[d] => r.date = d
    BY <1>0, <2>0
  <2>5. RunMoves(w) /\ BucketMoves(w)
    BY <2>0, <2>2, <2>3, <2>4 DEF RunMoves, BucketMoves, Running
  <2>6. r.alone => Same(w)' = {}
    <3> SUFFICES ASSUME r.alone PROVE Same(w)' = {}
      OBVIOUS
    <3>1. Same(w) = {}
      BY <2>0 DEF AloneInv
    <3> QED BY <2>2, <2>3, <3>1 DEF Same, Rivals, SameRun, Running
  <2>7. r.alone => Stored(w)'
    BY <2>0, <2>2 DEF AloneInv, Stored, Key
  <2> QED BY <2>0, <2>2, <2>5, <2>6, <2>7 DEF AloneInv, OwnFile, Running
<1>13. CASE Raise(w)
  <2>1. FailedRun(w) \in Run /\ FailedRun(w).pc = "failed"
    BY <1>0, IdleIsARun DEF FailedRun, Idle, Run
  <2>2. Become(w, FailedRun(w)) /\ files' = files /\ BucketMoves(w)
    BY <1>13 DEF Raise, BucketMoves
  <2>3. run'[w].pc = "failed"
    BY <2>1, <2>2, BecomeMovesOne
  <2>4. RunMoves(w)
    BY <1>1, <2>1, <2>2
  <2> QED BY <2>2, <2>3, <2>4 DEF AloneInv, OwnFile, Running
<1>14. CASE Ack(w)
  <2>2. Become(w, Idle) /\ files' = files /\ BucketMoves(w)
    BY <1>14 DEF Ack, BucketMoves
  <2>3. run'[w].pc = "idle"
    BY <2>2, IdleIsARun, BecomeMovesOne
  <2>4. RunMoves(w)
    BY <1>1, <2>2, IdleIsARun
  <2> QED BY <2>2, <2>3, <2>4 DEF AloneInv, OwnFile, Running
<1> QED BY <1>3, <1>4, <1>5, <1>6, <1>9, <1>10, <1>11, <1>12, <1>13, <1>14 DEF Step

\* Time changes nothing a run holds but the ticks it counts.
LEMMA TickKeepsAlone ==
    ASSUME TypeOK, \A v \in Workers : AloneInv(v), Tick PROVE \A v \in Workers : AloneInv(v)'
<1>1. ASSUME NEW v \in Workers
      PROVE  /\ run'[v].pc = run[v].pc /\ run'[v].kind = run[v].kind
             /\ run'[v].date = run[v].date /\ run'[v].linked = run[v].linked
             /\ run'[v].alone = run[v].alone
  <2>1. run[v] \in Run
    BY DEF TypeOK
  <2> QED BY <2>1 DEF Tick, Run
<1>2. bucket' = bucket /\ files' = files
  BY DEF Tick
<1>3. \A v \in Workers : Same(v)' = Same(v) /\ (Running(v)' <=> Running(v))
  BY <1>1 DEF Same, Rivals, Running
<1> SUFFICES ASSUME NEW v \in Workers PROVE AloneInv(v)'
  OBVIOUS
<1>4. AloneInv(v)
  OBVIOUS
<1>5. (OwnFile(v)' <=> OwnFile(v)) /\ (Stored(v)' <=> Stored(v))
  BY <1>1, <1>2 DEF OwnFile, Stored, Key
<1>6. (\A u \in Same(v) : run[u].alone) => \A u \in Same(v)' : run'[u].alone
  BY <1>1, <1>3 DEF Same, Rivals
<1> QED BY <1>1, <1>3, <1>4, <1>5, <1>6 DEF AloneInv

\* With the two processes of --concurrency=2: whatever earlier runs of a date
\* left behind in the file and under the key, and whichever of them crashed,
\* failed or cleaned up meanwhile, a run that says "success" and that no other
\* run of its date overlapped has left a whole dump under its date.
THEOREM SuccessIsStored ==
    ASSUME NEW w1, NEW w2, Workers = {w1, w2} PROVE Spec => []SuccessMeansStored
<1> DEFINE Inv == \A w \in Workers : AloneInv(w)
<1>1. Init => Inv
  BY IdleIsARun DEF Init, AloneInv, OwnFile, Running
<1>2. TypeOK /\ RetentionInv /\ Inv /\ [Next]_vars => Inv'
  <2> SUFFICES ASSUME TypeOK, RetentionInv, Inv, [Next]_vars PROVE Inv'
    OBVIOUS
  <2>1. ASSUME NEW w \in Workers, Step(w) PROVE Inv'
    <3>1. CASE \E k \in Kinds : Start(w, k)
      BY <3>1, StartKeepsAlone
    <3>2. CASE \A k \in Kinds : ~Start(w, k)
      <4>1. AloneInv(w)' /\ RunMoves(w) /\ BucketMoves(w)
        BY <2>1, <3>2, MoverStaysAlone
      <4>2. \A v \in Workers \ {w} : AloneInv(v)'
        BY <4>1, OthersStayAlone
      <4> QED BY <4>1, <4>2
    <3> QED BY <3>1, <3>2
  <2>2. CASE Tick
    BY <2>2, TickKeepsAlone
  <2>3. CASE CrashContainer
    <3>1. \A w \in Workers : run'[w].pc = "idle"
      BY <2>3, IdleIsARun DEF CrashContainer
    <3> QED BY <3>1 DEF AloneInv, OwnFile, Running
  <2>4. CASE UNCHANGED <<run, files, bucket>>
    BY <2>4 DEF AloneInv, OwnFile, Stored, Key, Same, Rivals, Running
  <2> QED BY <2>1, <2>2, <2>3, <2>4 DEF Next, Send, vars
<1>3. Inv => SuccessMeansStored
  BY DEF AloneInv, Stored, SuccessMeansStored
<1> QED BY <1>1, <1>2, <1>3, TypeCorrect, RetentionInvHolds, PTL DEF Spec
=============================================================================
