----------------------------- MODULE RateLimiter -----------------------------
(* The sliding window limiter of the API gateway                            *)
(* (api-gateway/rate_limiter.py) for one key, used by several gateway       *)
(* processes at once.                                                       *)
(*                                                                          *)
(* A check reads the clock, then runs one MULTI/EXEC transaction on the     *)
(* sorted set (drop what left the window, count, add itself, renew the      *)
(* expiry), and if it found the window full takes its own entry out again   *)
(* with a separate command.  An entry is named after its time stamp, so     *)
(* two checks of the same instant share one entry.                          *)
(*                                                                          *)
(* Definitions marked "Mutant" are not part of the model: each is a wrong   *)
(* form of the definition after it that one of the properties rejects.      *)
EXTENDS Naturals, FiniteSets

CONSTANTS
    Requests,       \* calls of check for the key
    Max,            \* max_requests
    Window,         \* window_seconds, in ticks of the clock
    MaxDelay,       \* ticks between reading the clock and the transaction
    Faults,         \* "redis": a command raises; "gateway": a process dies
    MaxTime         \* bound: last instant of the clock

ASSUME LimiterAssumption ==
    /\ Max \in Nat \ {0}
    /\ Window \in Nat \ {0}
    /\ MaxDelay \in Nat
    /\ Faults \subseteq {"redis", "gateway"}
    /\ MaxTime \in Nat

VARIABLES
    clock,          \* time.time()
    request,        \* request[r]: [pc, now]
    entries,        \* members of the sorted set, each equal to its score
    expires         \* when Redis drops the key; 0: it does not exist

vars == <<clock, request, entries, expires>>

Instants == 1..MaxTime

TypeOK ==
    /\ clock \in Instants \cup {0}
    /\ request \in [Requests ->
          [pc : {"idle", "checking", "allowed", "forgiven", "rejecting",
                 "denied", "allowedUncounted", "allowedOverLimit", "gone"},
           now : Instants \cup {0}]]
    /\ entries \subseteq Instants \cup {0}
    /\ expires \in Nat

Init ==
    /\ clock = 0
    /\ request = [r \in Requests |-> [pc |-> "idle", now |-> 0]]
    /\ entries = {}
    /\ expires = 0

Become(r, pc) == request' = [request EXCEPT ![r].pc = pc]

\* zremrangebyscore(key, 0, now - window_seconds)
InWindow(now) == {m \in entries : m + Window > now}

--------------------------------------------------------------------------
\* Time passes; a check that has read the clock runs its transaction within
\* MaxDelay ticks.  A key whose expiry is reached disappears.
Tick ==
    /\ clock < MaxTime
    /\ clock' = clock + 1
    /\ \A r \in Requests :
         request[r].pc = "checking" => clock' <= request[r].now + MaxDelay
    /\ entries' = IF clock' >= expires THEN {} ELSE entries
    /\ UNCHANGED <<request, expires>>

Begin(r) ==
    /\ request[r].pc = "idle"
    /\ request' = [request EXCEPT ![r] = [pc |-> "checking", now |-> clock]]
    /\ UNCHANGED <<clock, entries, expires>>

\* Mutant: the limit is reached one request late.
Verdict_OneMore(count) == IF count > Max THEN "rejecting" ELSE "allowed"

\* if current_count >= max_requests
Verdict(count) == IF count >= Max THEN "rejecting" ELSE "allowed"

\* Mutant: what left the window is not dropped.
Transaction_KeepsAll(r, verdict) ==
    /\ entries' = entries \cup {request[r].now}
    /\ expires' = clock + Window
    /\ Become(r, IF verdict = "judged" THEN Verdict(Cardinality(entries)) ELSE verdict)

\* Mutant: the entry carries the end of its window instead of its start.
Transaction_EndOfWindow(r, verdict) ==
    /\ entries' = {m \in entries : m > clock} \cup {request[r].now + Window}
    /\ expires' = clock + Window
    /\ Become(r, IF verdict = "judged" THEN Verdict(Cardinality(entries)) ELSE verdict)

\* The transaction on the sorted set; the verdict is that of the count, or
\* another if the gateway never gets to know the count.
Transaction(r, verdict) ==
    /\ entries' = InWindow(request[r].now) \cup {request[r].now}
    /\ expires' = clock + Window
    /\ Become(r, IF verdict = "judged"
                 THEN Verdict(Cardinality(InWindow(request[r].now)))
                 ELSE verdict)

Check(r) ==
    /\ request[r].pc = "checking"
    /\ Transaction(r, "judged")
    /\ UNCHANGED clock

\* execute() raises, before or after Redis ran the transaction: fail open.
CheckFails(r) ==
    /\ "redis" \in Faults
    /\ request[r].pc = "checking"
    /\ \/ Transaction(r, "allowedUncounted")
       \/ Become(r, "allowedUncounted") /\ UNCHANGED <<entries, expires>>
    /\ UNCHANGED clock

\* zrem(key, f"{now}")
RemoveOwnEntry(r) ==
    /\ request[r].pc = "rejecting"
    /\ entries' = entries \ {request[r].now}
    /\ Become(r, "denied")
    /\ UNCHANGED <<clock, expires>>

\* zrem raises: the except clause lets the request pass, entry and all.
RemoveFails(r) ==
    /\ "redis" \in Faults
    /\ request[r].pc = "rejecting"
    /\ entries' \in {entries, entries \ {request[r].now}}
    /\ Become(r, "allowedOverLimit")
    /\ UNCHANGED <<clock, expires>>

\* The gateway process dies between the two commands.
GatewayDies(r) ==
    /\ "gateway" \in Faults
    /\ request[r].pc = "rejecting"
    /\ Become(r, "gone")
    /\ UNCHANGED <<clock, entries, expires>>

\* get_remaining: it changes the set only by dropping what left the window.
GetRemaining ==
    /\ entries' = InWindow(clock)
    /\ UNCHANGED <<clock, request, expires>>

\* reset, or the eviction of the key when Redis is full (allkeys-lru): the
\* requests allowed so far are forgiven.
Reset ==
    /\ entries' = {}
    /\ expires' = 0
    /\ request' = [r \in Requests |-> IF request[r].pc = "allowed"
                                     THEN [request[r] EXCEPT !.pc = "forgiven"]
                                     ELSE request[r]]
    /\ UNCHANGED clock

Next ==
    \/ Tick
    \/ \E r \in Requests :
         \/ Begin(r)
         \/ Check(r)
         \/ CheckFails(r)
         \/ RemoveOwnEntry(r)
         \/ RemoveFails(r)
         \/ GatewayDies(r)
    \/ GetRemaining
    \/ Reset

Spec == Init /\ [][Next]_vars

--------------------------------------------------------------------------
\* Under every fault, delay and collision of time stamps

\* Stamps of the requests that added an entry without being judged to be
\* within the limit.
Unjudged ==
    {request[r].now : r \in {q \in Requests : request[q].pc \in
        {"rejecting", "allowedUncounted", "allowedOverLimit", "gone"}}}

\* The entries of judged requests never exceed the limit, whatever entries of
\* rejected or failed checks are in the set beside them, are left in it or
\* are taken out late (rate_limiter.py:42-59).
JudgedWithinLimit == Cardinality(entries \ Unjudged) <= Max

\* Nobody is locked out for longer than a window: a denied request had Max
\* other requests started within the window before it, so neither a leaked
\* entry nor a lost zrem denies anybody once its window is over
\* (rate_limiter.py:42, 57).
DenialHasCause ==
    \A r \in Requests : request[r].pc \in {"rejecting", "denied"} =>
        Max <= Cardinality({q \in Requests \ {r} :
                 request[q].pc # "idle" /\ request[q].now + Window > request[r].now})

\* No window holds more than Max allowed requests, whatever errors, dying
\* processes and rejected requests come between them.  The window is shorter
\* by MaxDelay than the one asked for, because a transaction that runs late
\* drops entries by the clock of its start, and requests that share their stamp
\* with another are not counted, because a rejection removes the entry of both
\* (rate_limiter.py:36-58).  With either of the two left out it does not hold.
Unshared(r) ==
    \A q \in Requests \ {r} :
        request[q].pc # "idle" => request[q].now # request[r].now

WindowLimit ==
    \A t \in Instants :
        Cardinality({r \in Requests :
            /\ request[r].pc = "allowed"
            /\ Unshared(r)
            /\ request[r].now <= t
            /\ request[r].now + Window > t + MaxDelay}) <= Max
=============================================================================
