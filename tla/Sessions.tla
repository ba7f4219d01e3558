------------------------------ MODULE Sessions ------------------------------
(* Signed tokens and their revocation: login, refresh and logout            *)
(* (api-gateway/routers/auth.py) and the check every other endpoint makes   *)
(* (get_current_user in api-gateway/auth.py), beside the administration of  *)
(* the accounts the tokens were issued for.                                 *)
(*                                                                          *)
(* Time is a clock of ticks, several to a second, because the code mixes    *)
(* both: the claim exp and the time to live of a blacklist key are whole    *)
(* seconds (PyJWT and int() cut the fraction off), while requests happen at *)
(* any time.  A step is one read or write of a store with the computation   *)
(* up to the next one; between two steps of a request others may move and   *)
(* time may pass.  Signatures and password hashes are assumed to do their   *)
(* work: a client can send every token ever issued and no other.            *)
(*                                                                          *)
(* Definitions marked "Mutant" are not part of the model: each is a wrong   *)
(* form of the definition after it that one of the properties rejects.      *)
EXTENDS UserAccounts

CONSTANTS
    Tokens,         \* bound: tokens that can be issued
    NoToken,
    Requests,       \* bound: requests in flight
    TicksPerSecond,
    LifeSeconds,    \* settings.jwt_expire_hours, in seconds
    MaxTime,        \* bound: the clock, in ticks
    RedisFaults     \* subset of {"unavailable", "eviction"}

ASSUME SessionsAssumption ==
    /\ NoToken \notin Tokens
    /\ TicksPerSecond \in Nat \ {0}
    /\ LifeSeconds \in Nat \ {0}
    /\ MaxTime \in Nat
    /\ RedisFaults \subseteq {"unavailable", "eviction"}

Life == LifeSeconds * TicksPerSecond

VARIABLES
    clock,
    token,          \* tokens issued: [account, role, exp, root], the root being
                    \* the token of the login the chain of refreshes began with
    until,          \* until[t]: the tick the blacklist key of t expires at, or 0
    request,        \* request[r]: the request r is executing
    loggedOut,      \* tokens whose logout was answered "ok" (history)
    evicted         \* tokens whose key Redis dropped (history)

tokenVars == <<token, until, loggedOut, evicted>>
vars == <<accountVars, clock, token, until, request, loggedOut, evicted>>

Issued == DOMAIN token

Token == [account : Accounts, role : Roles, exp : Nat, root : Tokens]

\* pc "signin" is a login; "check" .. "set" are the others, with the token of
\* the Authorization header, that of the body, and out: those of them that had
\* been logged out before the request came.
Request ==
    [pc : {"idle", "signin", "check", "accepted", "body", "renew", "set"},
     kind : {"use", "login", "refresh", "logout"},
     header : Tokens \cup {NoToken},
     body : Tokens \cup {NoToken},
     account : Accounts,
     role : Roles,
     ttl : Nat,
     out : SUBSET Tokens,
     open : BOOLEAN]                \* the check was skipped, Redis being away

Idle == [pc |-> "idle", kind |-> "use", header |-> NoToken, body |-> NoToken,
         account |-> Admin, role |-> AdminRole, ttl |-> 0, out |-> {},
         open |-> FALSE]

SessionsTypeOK ==
    /\ clock \in 0..MaxTime
    /\ Issued \subseteq Tokens
    /\ token \in [Issued -> Token]
    /\ \A t \in Issued : token[t].root \in Issued
    /\ until \in [Tokens -> Nat]
    /\ request \in [Requests -> Request]
    /\ \A r \in Requests :
         request[r].pc \in {"check", "accepted", "body", "renew", "set"} =>
             {request[r].header, request[r].body} \subseteq Issued
    /\ loggedOut \subseteq Issued
    /\ evicted \subseteq Tokens

TypeOK == AccountsTypeOK /\ SessionsTypeOK

Init ==
    /\ AccountsInit
    /\ clock = 0
    /\ token = [t \in {} |-> 0]
    /\ until = [t \in Tokens |-> 0]
    /\ request = [r \in Requests |-> Idle]
    /\ loggedOut = {}
    /\ evicted = {}

--------------------------------------------------------------------------
\* Tokens and the blacklist (api-gateway/auth.py)

\* A number of ticks without the fraction of a second.
WholeSeconds(ticks) == ticks - (ticks % TicksPerSecond)

Valid(t) == clock < token[t].exp

\* create_access_token: a token with a jti of its own.
Issue(n, a, role, root) ==
    /\ n \in Tokens \ Issued
    /\ token' = [t \in Issued \cup {n} |->
          IF t \in Issued THEN token[t]
          ELSE [account |-> a, role |-> role, root |-> root,
                exp |-> WholeSeconds(clock) + Life]]

\* Mutant: a second is taken off as a margin, on the wrong side.
TimeToLive_Margin(t) ==
    IF WholeSeconds(token[t].exp - clock) > TicksPerSecond
    THEN WholeSeconds(token[t].exp - clock) - TicksPerSecond
    ELSE Life

\* blacklist_token: what int() leaves of the remaining time, and the full life
\* time when that is 0 or the token has expired since it was verified.
TimeToLive(t) ==
    IF Valid(t) /\ WholeSeconds(token[t].exp - clock) > 0
    THEN WholeSeconds(token[t].exp - clock)
    ELSE Life

Blacklisted(t) == clock < until[t]

Owner(t) == token[t].account

Become(r, new) == request' = [request EXCEPT ![r] = new]

Finish(r) == Become(r, Idle)

--------------------------------------------------------------------------
\* POST /api/auth/login

\* Mutant: is_active is not looked at.
SelectUser_AnyState(r) ==
    /\ request[r].pc = "idle"
    /\ \E n \in Names : \E a \in Named(n) :
         Become(r, [Idle EXCEPT !.pc = "signin", !.kind = "login",
                                !.account = a, !.role = account[a].role])
    /\ Start
    /\ UNCHANGED <<account, creation, clock, tokenVars>>

\* No such row, a wrong password and a disabled account end the request.
SelectUser(r) ==
    /\ request[r].pc = "idle"
    /\ \E n \in Names : \E a \in Named(n) :
         /\ account[a].active
         /\ Become(r, [Idle EXCEPT !.pc = "signin", !.kind = "login",
                                   !.account = a, !.role = account[a].role])
    /\ Start
    /\ UNCHANGED <<account, creation, clock, tokenVars>>

\* After the UPDATE of last_login, with what the SELECT returned.
IssueLogin(r) ==
    /\ request[r].pc = "signin"
    /\ \E n \in Tokens : Issue(n, request[r].account, request[r].role, n)
    /\ Finish(r)
    /\ UNCHANGED <<accountVars, clock, until, loggedOut, evicted>>

--------------------------------------------------------------------------
\* get_current_user, before every other endpoint

\* Mutant: a request without an Authorization header is let through.
VerifyHeader_Missing(r) ==
    /\ request[r].pc = "idle"
    /\ \E kind \in {"use", "refresh", "logout"}, h \in Issued \cup {NoToken}, b \in Issued :
         /\ h = NoToken \/ Valid(h)
         /\ Become(r, [Idle EXCEPT !.pc = "check", !.kind = kind, !.header = h,
                                   !.body = b, !.out = loggedOut \cap {h, b}])
    /\ Start
    /\ UNCHANGED <<account, creation, clock, tokenVars>>

VerifyHeader(r) ==
    /\ request[r].pc = "idle"
    /\ \E kind \in {"use", "refresh", "logout"}, h, b \in Issued :
         /\ kind = "use" => b = h
         /\ Valid(h)
         /\ Become(r, [Idle EXCEPT !.pc = "check", !.kind = kind, !.header = h,
                                   !.body = b, !.out = loggedOut \cap {h, b}])
    /\ Start
    /\ UNCHANGED <<account, creation, clock, tokenVars>>

Authenticated(r, open) ==
    Become(r, [request[r] EXCEPT !.open = open,
                 !.pc = IF request[r].kind = "use" THEN "accepted" ELSE "body"])

\* If Redis cannot be asked, the request is let through.
CheckHeader(r) ==
    /\ request[r].pc = "check"
    /\ \/ Blacklisted(request[r].header) /\ Finish(r)
       \/ ~Blacklisted(request[r].header) /\ Authenticated(r, FALSE)
       \/ "unavailable" \in RedisFaults /\ Authenticated(r, TRUE)
    /\ UNCHANGED <<accountVars, clock, tokenVars>>

\* The endpoint itself, which trusts the claims; see the other modules.
Serve(r) ==
    /\ request[r].pc = "accepted"
    /\ Finish(r)
    /\ UNCHANGED <<accountVars, clock, tokenVars>>

--------------------------------------------------------------------------
\* POST /api/auth/refresh and /api/auth/logout

\* verify_token and the comparison of the owners; 401, 400 or 403 otherwise.
BodyAccepted(r) ==
    Valid(request[r].body) /\ Owner(request[r].body) = Owner(request[r].header)

\* Mutant: the blacklist is not looked at again for the token of the body.
CheckBody_HeaderOnly(r) ==
    /\ request[r].pc = "body"
    /\ request[r].kind = "refresh"
    /\ \/ BodyAccepted(r) /\ Become(r, [request[r] EXCEPT !.pc = "renew"])
       \/ ~BodyAccepted(r) /\ Finish(r)
    /\ UNCHANGED <<accountVars, clock, tokenVars>>

\* Here an unavailable Redis ends the request with a 500.
CheckBody(r) ==
    LET b == request[r].body
    IN  /\ request[r].pc = "body"
        /\ request[r].kind = "refresh"
        /\ \/ /\ BodyAccepted(r) /\ ~Blacklisted(b)
              /\ Become(r, [request[r] EXCEPT !.pc = "renew"])
           \/ /\ ~BodyAccepted(r) \/ Blacklisted(b) \/ "unavailable" \in RedisFaults
              /\ Finish(r)
        /\ UNCHANGED <<accountVars, clock, tokenVars>>

\* Mutant: the role is taken from the authenticated user, that is the header.
Renew_RoleOfHeader(r) ==
    LET b == request[r].body
    IN  /\ request[r].pc = "renew"
        /\ \E n \in Tokens :
             Issue(n, Owner(b), token[request[r].header].role, token[b].root)
        /\ Finish(r)
        /\ UNCHANGED <<accountVars, clock, until, loggedOut, evicted>>

\* A new token with the claims of the old one; the row is not read again, and
\* the old token stays as valid as it was.
Renew(r) ==
    LET b == request[r].body
    IN  /\ request[r].pc = "renew"
        /\ \E n \in Tokens : Issue(n, Owner(b), token[b].role, token[b].root)
        /\ Finish(r)
        /\ UNCHANGED <<accountVars, clock, until, loggedOut, evicted>>

PrepareLogout(r) ==
    /\ request[r].pc = "body"
    /\ request[r].kind = "logout"
    /\ \/ /\ BodyAccepted(r)
          /\ Become(r, [request[r] EXCEPT !.pc = "set",
                                          !.ttl = TimeToLive(request[r].body)])
       \/ ~BodyAccepted(r) /\ Finish(r)
    /\ UNCHANGED <<accountVars, clock, tokenVars>>

\* SETEX; if it raises, it may still have set the key.
SetBlacklist(r) ==
    LET b == request[r].body
    IN  /\ request[r].pc = "set"
        /\ \/ /\ until' = [until EXCEPT ![b] = clock + request[r].ttl]
              /\ loggedOut' = loggedOut \cup {b}
           \/ /\ "unavailable" \in RedisFaults
              /\ until' \in {until, [until EXCEPT ![b] = clock + request[r].ttl]}
              /\ UNCHANGED loggedOut
        /\ Finish(r)
        /\ UNCHANGED <<accountVars, clock, token, evicted>>

--------------------------------------------------------------------------
\* A statement raises, or the gateway process dies.
Drop(r) ==
    /\ request[r].pc # "idle"
    /\ Finish(r)
    /\ UNCHANGED <<accountVars, clock, tokenVars>>

\* allkeys-lru (docker-compose.yml).
Evict(t) ==
    /\ "eviction" \in RedisFaults
    /\ Blacklisted(t)
    /\ until' = [until EXCEPT ![t] = 0]
    /\ evicted' = evicted \cup {t}
    /\ UNCHANGED <<accountVars, clock, token, request, loggedOut>>

Tick ==
    /\ clock < MaxTime
    /\ clock' = clock + 1
    /\ UNCHANGED <<accountVars, tokenVars, request>>

RequestStep(r) ==
    \/ SelectUser(r)
    \/ IssueLogin(r)
    \/ VerifyHeader(r)
    \/ CheckHeader(r)
    \/ Serve(r)
    \/ CheckBody(r)
    \/ Renew(r)
    \/ PrepareLogout(r)
    \/ SetBlacklist(r)
    \/ Drop(r)

Next ==
    \/ \E r \in Requests : RequestStep(r)
    \/ \E t \in Issued : Evict(t)
    \/ Tick
    \/ AdminStep /\ UNCHANGED <<clock, tokenVars, request>>

Spec == Init /\ [][Next]_vars

--------------------------------------------------------------------------
\* The blacklist key of a token that was logged out lives on until less than
\* one second before the token expires, unless Redis evicts it: however long
\* the logout took between computing the time to live and setting the key, and
\* although both ends are cut to whole seconds (auth.py:66-83).  In that last
\* second the token is accepted again, so nothing stronger holds.
RevokedUntilLastSecond ==
    \A t \in loggedOut \ evicted :
        clock <= token[t].exp - TicksPerSecond => Blacklisted(t)

\* A request that came after the logout of its token was answered does not get
\* through with it and does not renew it, except in the token's last second, if
\* Redis evicted the key, or, for a request but not for a refresh, if Redis
\* could not be asked (auth.py:141-148, routers/auth.py:101).  A refresh that
\* was already on its way when the logout came may still be answered.
LogoutIsSeen ==
    \A r \in Requests :
        LET sees(t) == \/ t \notin request[r].out \/ t \in evicted
                       \/ clock > token[t].exp - TicksPerSecond
        IN  /\ request[r].pc \in {"accepted", "body", "renew", "set"} =>
                 request[r].open \/ sees(request[r].header)
            /\ request[r].pc = "renew" => sees(request[r].body)

\* Every token of a chain of refreshes is a token of the user, with the role,
\* the login at its root was for, whichever tokens of whichever users are sent
\* in the header and the body, and whatever became of the role since
\* (routers/auth.py:92-110).
SessionKeepsIdentity ==
    \A t \in Issued :
        LET root == token[t].root
        IN  token[root].root = root /\ Owner(t) = Owner(root)
                /\ token[t].role = token[root].role

Sessions(a) == {token[t].root : t \in {s \in Issued : Owner(s) = a}}

\* A deactivated account, once the logins that had read it before are through,
\* gets no further session: what it keeps are the chains of refreshes it had,
\* whatever creations, logins and refreshes of others do (routers/auth.py:57,
\* 104; admin-panel/app.py:267).
SessionsFrozen ==
    [][\A a \in Users :
          /\ ~account[a].active
          /\ \A r \in Requests :
               request[r].pc = "signin" => request[r].account # a
          => /\ Sessions(a)' = Sessions(a)
             /\ \A r \in Requests : request'[r].pc = "signin" /\ ~account'[a].active
                  => request'[r].account # a]_vars
=============================================================================
