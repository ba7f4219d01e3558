-------------------------- MODULE RateLimiterProofs --------------------------
(* Theorems of RateLimiter for every number of requests, limit, window,     *)
(* delay and clock, and every choice of faults.                             *)
EXTENDS RateLimiter, FiniteSetTheorems, FunctionTheorems, TLAPS

\* The types of the limiter, with the order of stamps and clock.
THEOREM TypeCorrect == Spec => []TypeOK
<1>1. Init => TypeOK
  BY LimiterAssumption DEF Init, TypeOK, Instants
<1>2. TypeOK /\ [Next]_vars => TypeOK'
  <2> SUFFICES ASSUME TypeOK, [Next]_vars PROVE TypeOK'
    OBVIOUS
  <2> USE LimiterAssumption DEF TypeOK
  <2>1. CASE Tick
    <3>1. clock \in Nat /\ clock < MaxTime /\ clock' = clock + 1
      BY <2>1 DEF Tick, Instants
    <3>2. clock' \in Instants
      BY <3>1 DEF Instants
    <3>3. entries' \subseteq entries
      BY <2>1 DEF Tick
    <3> QED BY <2>1, <3>2, <3>3 DEF Tick
  <2>2. ASSUME NEW r \in Requests, Begin(r) PROVE TypeOK'
    BY <2>2 DEF Begin
  <2>3. ASSUME NEW r \in Requests, Check(r) \/ CheckFails(r) PROVE TypeOK'
    BY <2>3 DEF Check, CheckFails, Transaction, Become, Verdict, InWindow, Instants
  <2>4. ASSUME NEW r \in Requests,
               RemoveOwnEntry(r) \/ RemoveFails(r) \/ GatewayDies(r)
        PROVE  TypeOK'
    BY <2>4 DEF RemoveOwnEntry, RemoveFails, GatewayDies, Become
  <2>5. CASE GetRemaining \/ Reset
    BY <2>5 DEF GetRemaining, Reset, InWindow
  <2>6. CASE UNCHANGED vars
    BY <2>6 DEF vars
  <2> QED BY <2>1, <2>2, <2>3, <2>4, <2>5, <2>6 DEF Next
<1> QED BY <1>1, <1>2, PTL DEF Spec

--------------------------------------------------------------------------
\* The limit

\* The set of entries is finite, so it can be counted.
LEMMA EntriesFinite == TypeOK => IsFiniteSet(entries)
<1>1. IsFiniteSet(0..MaxTime)
  BY LimiterAssumption, FS_Interval
<1>2. Instants \cup {0} \subseteq 0..MaxTime
  BY LimiterAssumption DEF Instants
<1> QED BY <1>1, <1>2, FS_Subset DEF TypeOK

\* Adding one element to a set adds at most one to the size of its subsets.
LEMMA CountAdded ==
    ASSUME NEW S, NEW x, NEW T, IsFiniteSet(S), T \subseteq S \cup {x}
    PROVE  Cardinality(T) \in Nat /\ Cardinality(T) <= Cardinality(S) + 1
<1>1. IsFiniteSet(S \cup {x}) /\ Cardinality(S) \in Nat
  BY FS_AddElement, FS_CardinalityType
<1>2. Cardinality(S \cup {x}) \in Nat /\ Cardinality(S \cup {x}) <= Cardinality(S) + 1
  BY <1>1, FS_AddElement
<1>3. IsFiniteSet(T) /\ Cardinality(T) <= Cardinality(S \cup {x})
  BY <1>1, FS_Subset
<1>4. Cardinality(T) \in Nat
  BY <1>3, FS_CardinalityType
<1> QED BY <1>1, <1>2, <1>3, <1>4

\* Entries that are only taken away, or added for a request that is not
\* judged, leave the number of judged entries within the limit.
LEMMA NoNewJudged ==
    ASSUME TypeOK, JudgedWithinLimit, entries' \ Unjudged' \subseteq entries \ Unjudged
    PROVE  JudgedWithinLimit'
<1> DEFINE old == entries \ Unjudged
           new == entries' \ Unjudged'
<1>1. IsFiniteSet(old)
  BY EntriesFinite, FS_Difference
<1>2. IsFiniteSet(new) /\ Cardinality(new) <= Cardinality(old)
  BY <1>1, FS_Subset
<1>3. Cardinality(old) \in Nat /\ Cardinality(new) \in Nat
  BY <1>1, <1>2, FS_CardinalityType
<1> QED BY <1>2, <1>3, LimiterAssumption DEF JudgedWithinLimit

\* The number of judged entries stays within the limit: a request adds one
\* only after it counted fewer than Max entries, unjudged ones included, in
\* the same transaction.
THEOREM LimitIsKept == Spec => []JudgedWithinLimit
<1>1. Init => JudgedWithinLimit
  BY LimiterAssumption, FS_EmptySet DEF Init, JudgedWithinLimit
<1>2. TypeOK /\ JudgedWithinLimit /\ [Next]_vars => JudgedWithinLimit'
  <2> SUFFICES ASSUME TypeOK, JudgedWithinLimit, [Next]_vars
               PROVE  JudgedWithinLimit'
    OBVIOUS
  <2>1. CASE Tick \/ GetRemaining \/ UNCHANGED vars
    <3>1. entries' \subseteq entries /\ Unjudged' = Unjudged
      BY <2>1 DEF Tick, GetRemaining, vars, InWindow, Unjudged
    <3> QED BY <3>1, NoNewJudged
  <2>7. CASE Reset
    BY <2>7, NoNewJudged DEF Reset
  <2>2. ASSUME NEW r \in Requests, Begin(r) PROVE JudgedWithinLimit'
    <3>1. entries' = entries /\ Unjudged \subseteq Unjudged'
      BY <2>2 DEF Begin, Unjudged, TypeOK
    <3> QED BY <3>1, NoNewJudged
  <2>3. ASSUME NEW r \in Requests, Check(r) PROVE JudgedWithinLimit'
    <3> DEFINE now == request[r].now
               kept == InWindow(now)
    <3>1. entries' = kept \cup {now} /\ kept \subseteq entries
      BY <2>3 DEF Check, Transaction, InWindow
    <3>2. Become(r, Verdict(Cardinality(kept)))
      BY <2>3 DEF Check, Transaction
    <3>3. IsFiniteSet(kept) /\ Cardinality(kept) \in Nat
      BY <3>1, EntriesFinite, FS_Subset, FS_CardinalityType
    <3>4. CASE Cardinality(kept) >= Max
      <4>1. Unjudged \cup {now} \subseteq Unjudged'
        <5>1. Verdict(Cardinality(kept)) = "rejecting"
          BY <3>4 DEF Verdict
        <5>2. request' = [request EXCEPT ![r].pc = "rejecting"]
          BY <3>2, <5>1 DEF Become
        <5> QED BY <2>3, <5>2 DEF Check, Unjudged, TypeOK
      <4> QED BY <3>1, <4>1, NoNewJudged
    <3>5. CASE Cardinality(kept) < Max
      <4> DEFINE new == entries' \ Unjudged'
      <4>1. Cardinality(new) \in Nat /\ Cardinality(new) <= Cardinality(kept) + 1
        BY <3>1, <3>3, CountAdded
      <4> QED BY <3>3, <3>5, <4>1, LimiterAssumption DEF JudgedWithinLimit
    <3> QED BY <3>3, <3>4, <3>5, LimiterAssumption
  <2>4. ASSUME NEW r \in Requests, CheckFails(r) PROVE JudgedWithinLimit'
    <3>1. entries' \subseteq entries \cup {request[r].now}
      BY <2>4 DEF CheckFails, Transaction, InWindow
    <3>2. Unjudged \cup {request[r].now} \subseteq Unjudged'
      BY <2>4 DEF CheckFails, Transaction, Become, Unjudged, TypeOK
    <3> QED BY <3>1, <3>2, NoNewJudged
  <2>5. ASSUME NEW r \in Requests, RemoveOwnEntry(r) PROVE JudgedWithinLimit'
    <3>1. entries' = entries \ {request[r].now}
      BY <2>5 DEF RemoveOwnEntry
    <3>2. Unjudged \subseteq Unjudged' \cup {request[r].now}
      BY <2>5 DEF RemoveOwnEntry, Become, Unjudged, TypeOK
    <3> QED BY <3>1, <3>2, NoNewJudged
  <2>6. ASSUME NEW r \in Requests, RemoveFails(r) \/ GatewayDies(r)
        PROVE  JudgedWithinLimit'
    <3>1. entries' \subseteq entries
      BY <2>6 DEF RemoveFails, GatewayDies
    <3>2. Unjudged \subseteq Unjudged'
      BY <2>6 DEF RemoveFails, GatewayDies, Become, Unjudged, TypeOK
    <3> QED BY <3>1, <3>2, NoNewJudged
  <2> QED BY <2>1, <2>2, <2>3, <2>4, <2>5, <2>6, <2>7 DEF Next
<1> QED BY <1>1, <1>2, TypeCorrect, PTL DEF Spec
--------------------------------------------------------------------------
\* What the entries and the stamps say of the requests

\* Requests that have read the clock; there are always finitely many of them.
Begun == {q \in Requests : request[q].pc # "idle"}

\* An entry was added by a request that ran its transaction.
EntriesHaveOwners ==
    \A m \in entries : \E q \in Requests :
        request[q].pc \notin {"idle", "checking"} /\ request[q].now = m

ClockFollows ==
    \A q \in Requests :
        /\ request[q].now <= clock
        /\ request[q].pc = "checking" => clock <= request[q].now + MaxDelay

StampInv == IsFiniteSet(Begun) /\ EntriesHaveOwners /\ ClockFollows

\* A request that has begun keeps its stamp and does not begin again.
LEMMA StampsStay ==
    ASSUME TypeOK, [Next]_vars, NEW q \in Requests
    PROVE  /\ request[q].pc # "idle" =>
                request'[q].pc # "idle" /\ request'[q].now = request[q].now
           /\ request[q].pc \notin {"idle", "checking"} =>
                request'[q].pc \notin {"idle", "checking"}
<1>1. CASE Tick \/ GetRemaining \/ UNCHANGED vars
  BY <1>1 DEF Tick, GetRemaining, vars
<1>2. CASE Reset
  BY <1>2 DEF Reset, TypeOK
<1>3. ASSUME NEW r \in Requests, Begin(r)
      PROVE  /\ request[q].pc # "idle" =>
                  request'[q].pc # "idle" /\ request'[q].now = request[q].now
             /\ request[q].pc \notin {"idle", "checking"} =>
                  request'[q].pc \notin {"idle", "checking"}
  BY <1>3 DEF Begin, TypeOK
<1>4. ASSUME NEW r \in Requests,
             NEW pc \in {"allowed", "rejecting", "denied", "allowedUncounted",
                         "allowedOverLimit", "gone"}, Become(r, pc)
      PROVE  /\ request[q].pc # "idle" =>
                  request'[q].pc # "idle" /\ request'[q].now = request[q].now
             /\ request[q].pc \notin {"idle", "checking"} =>
                  request'[q].pc \notin {"idle", "checking"}
  BY <1>4 DEF Become, TypeOK
<1>5. ASSUME NEW r \in Requests,
             Check(r) \/ CheckFails(r) \/ RemoveOwnEntry(r) \/ RemoveFails(r) \/ GatewayDies(r)
      PROVE  \E pc \in {"allowed", "rejecting", "denied", "allowedUncounted",
                        "allowedOverLimit", "gone"} : Become(r, pc)
  BY <1>5 DEF Check, CheckFails, RemoveOwnEntry, RemoveFails, GatewayDies, Transaction, Verdict
<1> QED BY <1>1, <1>2, <1>3, <1>4, <1>5 DEF Next

\* Begun requests, owners of entries and the order of stamps and clock.
LEMMA StampsInOrder == Spec => []StampInv
<1>1. Init => StampInv
  <2>1. Init => Begun = {}
    BY DEF Init, Begun
  <2>2. Init => ClockFollows
    BY DEF Init, ClockFollows
  <2> QED BY <2>1, <2>2, FS_EmptySet DEF Init, StampInv, EntriesHaveOwners
<1>2. TypeOK /\ TypeOK' /\ StampInv /\ [Next]_vars => StampInv'
  <2> SUFFICES ASSUME TypeOK, TypeOK', StampInv, [Next]_vars PROVE StampInv'
    OBVIOUS
  <2>1. IsFiniteSet(Begun')
    <3>1. PICK r \in Requests \cup {clock} : Begun' \subseteq Begun \cup {r}
      <4>1. ASSUME NEW r \in Requests, Begin(r) PROVE Begun' \subseteq Begun \cup {r}
        BY <4>1 DEF Begin, Begun, TypeOK
      <4>2. ASSUME ~\E r \in Requests : Begin(r) PROVE Begun' \subseteq Begun
        <5>1. CASE Tick \/ GetRemaining \/ UNCHANGED vars
          BY <5>1 DEF Tick, GetRemaining, vars, Begun
        <5>2. CASE Reset
          BY <5>2 DEF Reset, Begun
        <5>3. ASSUME NEW r \in Requests,
                     \/ Check(r) \/ CheckFails(r) \/ RemoveOwnEntry(r) \/ RemoveFails(r)
                     \/ GatewayDies(r)
              PROVE  Begun' \subseteq Begun
          BY <5>3 DEF Check, CheckFails, RemoveOwnEntry, RemoveFails, GatewayDies, Transaction,
                      Become, Begun, TypeOK
        <5> QED BY <4>2, <5>1, <5>2, <5>3 DEF Next
      <4> QED BY <4>1, <4>2
    <3>2. IsFiniteSet(Begun \cup {r})
      BY FS_AddElement DEF StampInv
    <3> QED BY <3>1, <3>2, FS_Subset
  <2>2. EntriesHaveOwners'
    <3>1. ASSUME NEW m \in entries
          PROVE  \E q \in Requests :
                   request'[q].pc \notin {"idle", "checking"} /\ request'[q].now = m
      <4>1. PICK q \in Requests :
              request[q].pc \notin {"idle", "checking"} /\ request[q].now = m
        BY DEF StampInv, EntriesHaveOwners
      <4> QED BY <4>1, StampsStay
    <3>2. ASSUME NEW r \in Requests, Check(r) \/ CheckFails(r)
          PROVE  /\ entries' \subseteq entries \cup {request[r].now}
                 /\ request'[r].pc \notin {"idle", "checking"}
                 /\ request'[r].now = request[r].now
      BY <3>2 DEF Check, CheckFails, Transaction, Become, Verdict, InWindow, TypeOK
    <3>3. CASE \E r \in Requests : Check(r) \/ CheckFails(r)
      BY <3>1, <3>2, <3>3 DEF EntriesHaveOwners
    <3>4. CASE ~\E r \in Requests : Check(r) \/ CheckFails(r)
      <4>1. entries' \subseteq entries
        BY <3>4 DEF Next, Tick, Begin, RemoveOwnEntry, RemoveFails, GatewayDies, GetRemaining,
                    Reset, InWindow, vars
      <4> QED BY <3>1, <4>1 DEF EntriesHaveOwners
    <3> QED BY <3>3, <3>4
  <2>3. ClockFollows'
    <3> SUFFICES ASSUME NEW q \in Requests
                 PROVE  /\ request'[q].now <= clock'
                        /\ request'[q].pc = "checking" => clock' <= request'[q].now + MaxDelay
      BY DEF ClockFollows
    <3>0. /\ request[q].now \in Nat /\ clock \in Nat /\ MaxDelay \in Nat
          /\ request[q].now <= clock
          /\ request[q].pc = "checking" => clock <= request[q].now + MaxDelay
      BY LimiterAssumption DEF TypeOK, Instants, StampInv, ClockFollows
    <3>1. CASE Tick
      BY <3>0, <3>1 DEF Tick
    <3>2. ASSUME NEW r \in Requests, Begin(r)
          PROVE  /\ request'[q].now <= clock'
                 /\ request'[q].pc = "checking" => clock' <= request'[q].now + MaxDelay
      BY <3>0, <3>2 DEF Begin, TypeOK
    <3>3. CASE Reset
      BY <3>0, <3>3 DEF Reset, TypeOK
    <3>4. CASE GetRemaining \/ UNCHANGED vars
      BY <3>0, <3>4 DEF GetRemaining, vars
    <3>5. ASSUME NEW r \in Requests,
                 \/ Check(r) \/ CheckFails(r) \/ RemoveOwnEntry(r) \/ RemoveFails(r)
                 \/ GatewayDies(r)
          PROVE  /\ request'[q].now <= clock'
                 /\ request'[q].pc = "checking" => clock' <= request'[q].now + MaxDelay
      <4>1. /\ clock' = clock /\ request'[q].now = request[q].now
            /\ request'[q].pc = "checking" => request[q].pc = "checking"
        BY <3>5 DEF Check, CheckFails, RemoveOwnEntry, RemoveFails, GatewayDies, Transaction,
                    Become, Verdict, TypeOK
      <4> QED BY <3>0, <4>1
    <3> QED BY <3>1, <3>2, <3>3, <3>4, <3>5 DEF Next
  <2> QED BY <2>1, <2>2, <2>3 DEF StampInv
<1> QED BY <1>1, <1>2, TypeCorrect, PTL DEF Spec

--------------------------------------------------------------------------
\* Denials

\* The requests that began within the window before the start of r.
CausesOf(r) ==
    {q \in Requests \ {r} :
        request[q].pc # "idle" /\ request[q].now + Window > request[r].now}

\* A set whose elements are all the stamp of something in T is not larger.
LEMMA StampsCount ==
    ASSUME NEW S, NEW T, IsFiniteSet(T), NEW f, \A m \in S : \E q \in T : f[q] = m
    PROVE  IsFiniteSet(S) /\ Cardinality(S) <= Cardinality(T)
<1> DEFINE g == [m \in S |-> CHOOSE q \in T : f[q] = m]
<1>1. \A m \in S : g[m] \in T /\ f[g[m]] = m
  OBVIOUS
<1>2. g \in [S -> T]
  BY <1>1
<1> HIDE DEF g
<1>3. \A m, n \in S : g[m] = g[n] => m = n
  BY <1>1
<1>4. g \in Injection(S, T)
  BY <1>2, <1>3, Fun_IsInj
<1> QED BY <1>4, FS_Injection

\* Nobody is denied unless Max other requests began within the window before
\* it, for any number of requests, errors and dying processes.
THEOREM DenialsAreCaused == Spec => []DenialHasCause
<1>1. Init => DenialHasCause
  BY DEF Init, DenialHasCause
<1>2. TypeOK /\ TypeOK' /\ StampInv /\ StampInv' /\ DenialHasCause /\ [Next]_vars => DenialHasCause'
  <2> SUFFICES ASSUME TypeOK, TypeOK', StampInv, StampInv', DenialHasCause, [Next]_vars,
                      NEW r \in Requests, request'[r].pc \in {"rejecting", "denied"}
               PROVE  Max <= Cardinality(CausesOf(r)')
    BY DEF DenialHasCause, CausesOf
  <2>0. IsFiniteSet(CausesOf(r)) /\ IsFiniteSet(CausesOf(r)') /\ Max \in Nat
    <3>1. CausesOf(r) \subseteq Begun /\ CausesOf(r)' \subseteq Begun'
      BY DEF CausesOf, Begun
    <3> QED BY <3>1, FS_Subset, LimiterAssumption DEF StampInv
  <2>1. CASE request[r].pc \in {"rejecting", "denied"}
    <3>1. CausesOf(r) \subseteq CausesOf(r)'
      <4>1. request'[r].now = request[r].now
        BY <2>1, StampsStay
      <4> QED BY <4>1, StampsStay DEF CausesOf
    <3>2. Cardinality(CausesOf(r)) <= Cardinality(CausesOf(r)')
      BY <2>0, <3>1, FS_Subset
    <3>3. Max <= Cardinality(CausesOf(r))
      BY <2>1 DEF DenialHasCause, CausesOf
    <3>4. Cardinality(CausesOf(r)) \in Nat /\ Cardinality(CausesOf(r)') \in Nat
      BY <2>0, FS_CardinalityType
    <3> QED BY <2>0, <3>2, <3>3, <3>4
  <2>2. CASE request[r].pc \notin {"rejecting", "denied"}
    <3>1. Check(r)
      <4>1. ASSUME NEW q \in Requests, q # r,
                   \/ Begin(q) \/ Check(q) \/ CheckFails(q) \/ RemoveOwnEntry(q)
                   \/ RemoveFails(q) \/ GatewayDies(q)
            PROVE  request'[r] = request[r]
        BY <4>1 DEF Begin, Check, CheckFails, RemoveOwnEntry, RemoveFails, GatewayDies,
                    Transaction, Become, TypeOK
      <4>2. ~Begin(r) /\ ~CheckFails(r) /\ ~RemoveFails(r) /\ ~GatewayDies(r)
        BY DEF Begin, CheckFails, Transaction, RemoveFails, GatewayDies, Become, TypeOK
      <4>3. ~RemoveOwnEntry(r)
        BY <2>2 DEF RemoveOwnEntry
      <4>4. ~Reset
        BY <2>2 DEF Reset, TypeOK
      <4>5. ~Tick /\ ~GetRemaining /\ ~UNCHANGED vars
        BY <2>2 DEF Tick, GetRemaining, vars
      <4> QED BY <2>2, <4>1, <4>2, <4>3, <4>4, <4>5 DEF Next
    <3> DEFINE now == request[r].now
               kept == InWindow(now)
    <3>2. /\ request[r].pc = "checking" /\ Become(r, Verdict(Cardinality(kept)))
          /\ request'[r].now = now
      BY <3>1 DEF Check, Transaction, Become, TypeOK
    <3>3. Cardinality(kept) >= Max
      <4>1. request'[r].pc = Verdict(Cardinality(kept))
        BY <3>2 DEF Become, TypeOK
      <4> QED BY <4>1 DEF Verdict
    <3> DEFINE T == CausesOf(r)'
               stamp == [p \in Requests |-> request[p].now]
    <3>4. ASSUME NEW m \in kept PROVE \E q \in T : stamp[q] = m
      <4>1. m \in entries /\ m + Window > now
        BY DEF InWindow
      <4>2. PICK q \in Requests :
              request[q].pc \notin {"idle", "checking"} /\ request[q].now = m
        BY <4>1 DEF StampInv, EntriesHaveOwners
      <4>3. q # r
        BY <3>2, <4>2
      <4>4. request'[q].pc # "idle" /\ request'[q].now = m
        BY <4>2, StampsStay
      <4>5. q \in CausesOf(r)'
        BY <3>2, <4>1, <4>3, <4>4 DEF CausesOf
      <4> QED BY <4>2, <4>5
    <3>5. IsFiniteSet(T)
      BY <2>0
    <3> HIDE DEF kept, T, stamp
    <3>6. IsFiniteSet(kept) /\ Cardinality(kept) <= Cardinality(T)
      BY <3>4, <3>5, StampsCount
    <3>7. Cardinality(kept) \in Nat /\ Cardinality(T) \in Nat
      BY <3>5, <3>6, FS_CardinalityType
    <3>8. Max <= Cardinality(T)
      BY <2>0, <3>3, <3>6, <3>7
    <3> QED BY <3>8 DEF T
  <2> QED BY <2>1, <2>2
<1> QED BY <1>1, <1>2, TypeCorrect, StampsInOrder, PTL DEF Spec
--------------------------------------------------------------------------
\* The window

\* The entry of an allowed request whose stamp nobody shares is in the set, and
\* the set lives, until the window of the request is over.
Lasts(q) ==
    request[q].pc = "allowed" /\ Unshared(q) /\ request[q].now + Window > clock =>
        request[q].now \in entries /\ request[q].now + Window <= expires

WindowInv == \A q \in Requests : Lasts(q)

\* The allowed requests WindowLimit counts for the instant t.
Counted(t) ==
    {r \in Requests :
        /\ request[r].pc = "allowed"
        /\ Unshared(r)
        /\ request[r].now <= t
        /\ request[r].now + Window > t + MaxDelay}

\* A stamp shared once is shared for good.
LEMMA SharedStays ==
    ASSUME TypeOK, [Next]_vars, NEW q \in Requests, request[q].pc # "idle", Unshared(q)'
    PROVE  Unshared(q)
<1>1. ASSUME NEW p \in Requests \ {q}, request[p].pc # "idle"
      PROVE  request[p].now # request[q].now
  <2>1. /\ request'[p].pc # "idle" /\ request'[p].now = request[p].now
        /\ request'[q].now = request[q].now
    BY <1>1, StampsStay
  <2> QED BY <1>1, <2>1 DEF Unshared
<1> QED BY <1>1 DEF Unshared

\* A step that takes no entry of a live window away, and allows nobody, keeps
\* the entries of the allowed.
LEMMA LastsStays ==
    ASSUME TypeOK, [Next]_vars, WindowInv, NEW q \in Requests,
           request[q].pc = "allowed", clock' >= clock, clock \in Nat, clock' \in Nat,
           request[q].now + Window > clock' /\ request[q].now \in entries /\ Unshared(q)
             /\ request[q].now + Window <= expires
             => request[q].now \in entries' /\ request[q].now + Window <= expires'
    PROVE  Lasts(q)'
<1>1. request'[q].now = request[q].now /\ (Unshared(q)' => Unshared(q))
  BY StampsStay, SharedStays
<1>2. request[q].now + Window \in Nat
  BY LimiterAssumption DEF TypeOK, Instants
<1>3. Unshared(q)' /\ request[q].now + Window > clock' =>
        request[q].now \in entries /\ request[q].now + Window <= expires
  BY <1>1, <1>2 DEF WindowInv, Lasts
<1> QED BY <1>1, <1>3 DEF Lasts

\* WindowInv is an invariant.
LEMMA EntriesLast == Spec => []WindowInv
<1>1. Init => WindowInv
  BY DEF Init, WindowInv, Lasts
<1>2. TypeOK /\ TypeOK' /\ StampInv /\ WindowInv /\ [Next]_vars => WindowInv'
  <2> SUFFICES ASSUME TypeOK, TypeOK', StampInv, WindowInv, [Next]_vars,
                      NEW q \in Requests, request'[q].pc = "allowed"
               PROVE  Lasts(q)'
    BY DEF WindowInv, Lasts
  <2> DEFINE end == request[q].now + Window
  <2>0. /\ request[q].now \in Nat /\ clock \in Nat /\ clock' \in Nat /\ Window \in Nat
        /\ expires \in Nat /\ request[q].now <= clock /\ Window > 0
    BY LimiterAssumption DEF TypeOK, Instants, StampInv, ClockFollows
  <2>1. CASE Tick
    <3>1. /\ request' = request /\ clock' = clock + 1 /\ expires' = expires
          /\ entries' = IF clock' >= expires THEN {} ELSE entries
      BY <2>1 DEF Tick
    <3>2. end > clock' /\ end <= expires => ~(clock' >= expires)
      BY <2>0
    <3> QED BY <2>0, <3>1, <3>2, LastsStays
  <2>2. CASE GetRemaining \/ UNCHANGED vars
    <3>1. /\ request' = request /\ clock' = clock /\ expires' = expires
          /\ \A m \in entries : m + Window > clock => m \in entries'
      BY <2>2 DEF GetRemaining, vars, InWindow
    <3> QED BY <2>0, <3>1, LastsStays
  <2>3. CASE Reset
    <3>1. request'[q].pc # "allowed"
      BY <2>3 DEF Reset, TypeOK
    <3> QED BY <3>1
  <2>4. ASSUME NEW r \in Requests, Begin(r) PROVE Lasts(q)'
    <3>1. /\ request[q].pc = "allowed" /\ clock' = clock /\ expires' = expires
          /\ entries' = entries
      BY <2>4 DEF Begin, TypeOK
    <3> QED BY <2>0, <3>1, LastsStays
  <2>5. ASSUME NEW r \in Requests, Check(r) \/ CheckFails(r) PROVE Lasts(q)'
    <3>1. /\ clock' = clock
          /\ \/ entries' = entries /\ expires' = expires /\ q # r
             \/ /\ entries' = InWindow(request[r].now) \cup {request[r].now}
                /\ expires' = clock + Window
      BY <2>5 DEF Check, CheckFails, Transaction, Become, TypeOK
    <3>2. request[r].now \in Nat /\ request[r].now <= clock
      BY DEF TypeOK, Instants, StampInv, ClockFollows
    <3>3. CASE q = r
      <4>1. request'[q].now = request[q].now
        BY <2>5 DEF Check, CheckFails, Transaction, Become, TypeOK
      <4> QED BY <2>0, <3>1, <3>3, <4>1 DEF Lasts
    <3>4. CASE q # r
      <4>1. request[q].pc = "allowed"
        BY <2>5, <3>4 DEF Check, CheckFails, Transaction, Become, TypeOK
      <4>2. /\ end > clock /\ request[q].now \in entries => request[q].now \in entries'
            /\ end <= expires => end <= expires'
        BY <2>0, <3>1, <3>2 DEF InWindow
      <4> QED BY <2>0, <3>1, <4>1, <4>2, LastsStays
    <3> QED BY <3>3, <3>4
  <2>6. ASSUME NEW r \in Requests, RemoveOwnEntry(r) \/ RemoveFails(r) \/ GatewayDies(r)
        PROVE  Lasts(q)'
    <3>1. /\ clock' = clock /\ expires' = expires /\ request[r].pc = "rejecting"
          /\ entries \ {request[r].now} \subseteq entries'
      BY <2>6 DEF RemoveOwnEntry, RemoveFails, GatewayDies
    <3>2. request[q].pc = "allowed" /\ q # r
      BY <2>6 DEF RemoveOwnEntry, RemoveFails, GatewayDies, Become, TypeOK
    <3>3. Unshared(q) => request[r].now # request[q].now
      BY <3>1, <3>2 DEF Unshared
    <3> QED BY <2>0, <3>1, <3>2, <3>3, LastsStays
  <2> QED BY <2>1, <2>2, <2>3, <2>4, <2>5, <2>6 DEF Next
<1> QED BY <1>1, <1>2, TypeCorrect, StampsInOrder, PTL DEF Spec

\* No window, MaxDelay short, holds more than Max allowed requests that share
\* their stamp with nobody, for any number of requests, limit, window and delay
\* and whatever errors, dying processes, resets and rejections come between.
THEOREM WindowIsLimited == Spec => []WindowLimit
<1>0. WindowLimit = \A t \in Instants : Cardinality(Counted(t)) <= Max
  BY DEF WindowLimit, Counted
<1>1. Init => WindowLimit
  <2>1. ASSUME Init, NEW t \in Instants PROVE Counted(t) = {}
    BY <2>1 DEF Init, Counted
  <2> QED BY <1>0, <2>1, FS_EmptySet, LimiterAssumption
<1>2. /\ TypeOK /\ TypeOK' /\ StampInv /\ StampInv' /\ WindowInv
      /\ WindowLimit /\ [Next]_vars
      => WindowLimit'
  <2> SUFFICES ASSUME TypeOK, TypeOK', StampInv, StampInv', WindowInv, WindowLimit,
                      [Next]_vars, NEW t \in Instants
               PROVE  Cardinality(Counted(t)') <= Max
    BY DEF WindowLimit, Counted
  <2> DEFINE old == Counted(t)
             new == Counted(t)'
  <2>1. IsFiniteSet(old) /\ IsFiniteSet(new)
    <3>1. old \subseteq Begun /\ new \subseteq Begun'
      BY DEF Counted, Begun
    <3> QED BY <3>1, FS_Subset DEF StampInv
  <2>2. Cardinality(old) <= Max
    BY DEF WindowLimit, Counted
  <2>3. ASSUME NEW q \in new, request[q].pc = "allowed" PROVE q \in old
    <3>1. request'[q].now = request[q].now /\ Unshared(q)
      BY <2>3, StampsStay, SharedStays DEF Counted
    <3> QED BY <2>3, <3>1 DEF Counted
  <2>4. CASE \A q \in new : request[q].pc = "allowed"
    <3>1. new \subseteq old
      BY <2>3, <2>4
    <3> HIDE DEF new, old
    <3>2. Cardinality(new) <= Cardinality(old)
      BY <2>1, <3>1, FS_Subset
    <3>3. Cardinality(new) \in Nat /\ Cardinality(old) \in Nat /\ Max \in Nat
      BY <2>1, FS_CardinalityType, LimiterAssumption
    <3>4. Cardinality(new) <= Max
      BY <2>2, <3>2, <3>3
    <3> QED BY <3>4 DEF new
  <2>5. ASSUME NEW r \in new, request[r].pc # "allowed" PROVE Cardinality(Counted(t)') <= Max
    <3>0. r \in Requests /\ request'[r].pc = "allowed" /\ Unshared(r)'
      BY DEF Counted
    <3> DEFINE now == request[r].now
               kept == InWindow(now)
               stamp == [p \in Requests |-> request[p].now]
               stamps == {stamp[q] : q \in new \ {r}}
    <3>1. Check(r)
      <4>1. ASSUME NEW q \in Requests, q # r,
                   \/ Begin(q) \/ Check(q) \/ CheckFails(q) \/ RemoveOwnEntry(q)
                   \/ RemoveFails(q) \/ GatewayDies(q)
            PROVE  request'[r] = request[r]
        BY <3>0, <4>1 DEF Begin, Check, CheckFails, RemoveOwnEntry, RemoveFails, GatewayDies,
                          Transaction, Become, TypeOK
      <4>2. /\ ~Begin(r) /\ ~CheckFails(r) /\ ~RemoveFails(r) /\ ~GatewayDies(r)
            /\ ~RemoveOwnEntry(r)
        BY <3>0 DEF Begin, CheckFails, Transaction, RemoveFails, GatewayDies, RemoveOwnEntry,
                    Become, TypeOK
      <4>3. ~Reset /\ ~Tick /\ ~GetRemaining /\ ~UNCHANGED vars
        BY <2>5, <3>0 DEF Reset, Tick, GetRemaining, vars, TypeOK
      <4> QED BY <2>5, <3>0, <4>1, <4>2, <4>3 DEF Next
    <3>2. /\ request[r].pc = "checking" /\ request'[r].now = now /\ now <= t
          /\ request' = [request EXCEPT ![r].pc = Verdict(Cardinality(kept))]
      BY <3>0, <3>1 DEF Check, Transaction, Become, TypeOK, Counted
    <3>3. Cardinality(kept) < Max
      <4>1. IsFiniteSet(kept)
        BY EntriesFinite, FS_Subset DEF InWindow
      <4>2. Cardinality(kept) \in Nat /\ Max \in Nat
        BY <4>1, FS_CardinalityType, LimiterAssumption
      <4>3. Verdict(Cardinality(kept)) = "allowed"
        BY <3>0, <3>2 DEF TypeOK
      <4> QED BY <4>2, <4>3 DEF Verdict
    <3>4. ASSUME NEW q \in new \ {r} PROVE stamp[q] \in kept /\ q \in Requests
      <4>1. /\ q \in Requests /\ q # r /\ request'[q] = request[q]
        BY <3>0, <3>2 DEF Counted, TypeOK
      <4>2. /\ request[q].pc = "allowed" /\ request[q].now + Window > t + MaxDelay
        BY <4>1 DEF Counted
      <4>3. Unshared(q)
        BY <4>1, <4>2, SharedStays DEF Counted
      <4>4. /\ clock <= now + MaxDelay /\ now <= t /\ now \in Nat /\ t \in Nat /\ clock \in Nat
            /\ request[q].now \in Nat /\ Window \in Nat /\ MaxDelay \in Nat
        BY <3>0, <3>2, <4>1, LimiterAssumption DEF StampInv, ClockFollows, TypeOK, Instants
      <4>5. request[q].now + Window > clock /\ request[q].now + Window > now
        BY <4>2, <4>4
      <4>6. request[q].now \in entries
        BY <4>1, <4>2, <4>3, <4>5 DEF WindowInv, Lasts
      <4> QED BY <4>1, <4>5, <4>6 DEF InWindow
    <3>5. ASSUME NEW p \in new \ {r}, NEW q \in new \ {r}, stamp[p] = stamp[q] PROVE p = q
      <4>1. /\ p \in Requests /\ q \in Requests /\ request'[p] = request[p]
            /\ request'[q] = request[q] /\ request[q].pc = "allowed" /\ request[p].pc = "allowed"
        BY <3>0, <3>2 DEF Counted, TypeOK
      <4>2. request[p].now = request[q].now
        BY <3>5, <4>1
      <4>3. Unshared(p)
        BY <4>1, SharedStays DEF Counted
      <4> QED BY <4>1, <4>2, <4>3 DEF Unshared
    <3>6. IsFiniteSet(kept)
      BY EntriesFinite, FS_Subset DEF InWindow
    <3> DEFINE T == new \ {r}
               g == [q \in T |-> stamp[q]]
    <3>7. IsFiniteSet(T) /\ Cardinality(T) <= Cardinality(kept)
      <4> HIDE DEF new, kept, stamp
      <4>1. g \in [T -> kept]
        BY <3>4
      <4>2. \A p, q \in T : g[p] = g[q] => p = q
        BY <3>5
      <4> HIDE DEF g, T
      <4>3. g \in Injection(T, kept)
        BY <4>1, <4>2, Fun_IsInj
      <4> QED BY <3>6, <4>3, FS_Injection
    <3> HIDE DEF new, kept
    <3>8. new \subseteq T \cup {r}
      OBVIOUS
    <3> HIDE DEF T
    <3>9. Cardinality(new) \in Nat /\ Cardinality(new) <= Cardinality(T) + 1
      BY <3>7, <3>8, CountAdded
    <3>10. Cardinality(T) \in Nat /\ Cardinality(kept) \in Nat /\ Max \in Nat
      BY <3>6, <3>7, FS_CardinalityType, LimiterAssumption
    <3>11. Cardinality(new) <= Max
      BY <3>3, <3>7, <3>9, <3>10
    <3> QED BY <3>11 DEF new
  <2> QED BY <2>4, <2>5
<1> QED BY <1>1, <1>2, TypeCorrect, StampsInOrder, EntriesLast, PTL DEF Spec
=============================================================================
