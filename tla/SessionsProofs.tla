---------------------------- MODULE SessionsProofs ----------------------------
(* Theorems of UserAccounts and Sessions for any number of accounts, tokens, *)
(* requests and names, any length of a second and of a token's life, and     *)
(* with or without an unavailable or evicting Redis.                         *)
EXTENDS Sessions, TLAPS

--------------------------------------------------------------------------
\* Accounts

\* A request that starts leaves the accounts as they are.
LEMMA StartKeepsAccounts ==
    ASSUME AccountsTypeOK, Start, UNCHANGED <<account, creation>>
    PROVE  AccountsTypeOK'
BY AccountsAssumption DEF AccountsTypeOK, Start, Users

\* What the administration of the accounts does to them is well typed.
LEMMA AdminKeepsTypes == ASSUME AccountsTypeOK, AdminStep PROVE AccountsTypeOK'
<1> USE AccountsAssumption DEF AccountsTypeOK, Users
<1>1. AdminName \in Names /\ AdminEmail \in Emails
  BY DEF Account
<1>2. ASSUME NEW c \in Creations, CheckName(c) PROVE AccountsTypeOK'
  <2>1. PICK n \in Names, e \in Emails :
          creation' = [creation EXCEPT ![c] =
             IF Named(n) = {} THEN [pc |-> "insert", name |-> n, email |-> e]
             ELSE CreationAt("done")]
    BY <1>2 DEF CheckName
  <2> QED BY <1>1, <1>2, <2>1 DEF CheckName, CreationAt, Start
<1>3. ASSUME NEW c \in Creations, InsertAccount(c) PROVE AccountsTypeOK'
  <2>1. creation[c].name \in Names /\ creation[c].email \in Emails
    OBVIOUS
  <2>2. account' = account \/ \E role \in Roles : account' = Inserted(c, role)
    BY <1>3 DEF InsertAccount
  <2>3. ASSUME NEW role \in Roles
        PROVE  /\ DOMAIN Inserted(c, role) \subseteq Accounts
               /\ Inserted(c, role) \in [DOMAIN Inserted(c, role) -> Account]
    BY <2>1 DEF Inserted, Account, Accounts
  <2>4. creation' \in [Creations ->
          [pc : {"idle", "insert", "done"}, name : Names, email : Emails]]
    BY <1>1, <1>3 DEF InsertAccount, Answer, CreationAt
  <2> QED BY <1>3, <2>2, <2>3, <2>4 DEF InsertAccount
<1>4. ASSUME NEW a \in Users, UpdateAccount(a) PROVE AccountsTypeOK'
  <2>1. PICK e \in Emails, role \in Roles, active \in BOOLEAN :
          account' = [account EXCEPT ![a] =
             [name |-> @.name, email |-> e, role |-> role, active |-> active]]
    BY <1>4 DEF UpdateAccount
  <2> QED BY <1>4, <2>1 DEF UpdateAccount, Start, Account
<1>5. ASSUME NEW a \in Users, DeactivateAccount(a) PROVE AccountsTypeOK'
  <2>1. account[a] \in Account
    OBVIOUS
  <2>2. [account[a] EXCEPT !.active = FALSE] \in Account
    BY <2>1 DEF Account
  <2>3. account' \in [Users -> Account] /\ DOMAIN account' = DOMAIN account
    BY <1>5, <2>2 DEF DeactivateAccount, Account
  <2> QED BY <1>5, <2>3 DEF DeactivateAccount, Start
<1> QED BY <1>2, <1>3, <1>4, <1>5 DEF AdminStep

\* The initial accounts: the one row that init.sql inserts.
LEMMA AccountsBegin == AccountsInit => AccountsTypeOK /\ NamesIdentify
BY AccountsAssumption
   DEF AccountsInit, AccountsTypeOK, Users, Accounts, Account, CreationAt, NamesIdentify

\* Names and addresses stay unique: whatever a creation read before, its INSERT
\* is refused when one of the two is taken, and so is an UPDATE of the address.
LEMMA AdminKeepsNames ==
    ASSUME AccountsTypeOK, NamesIdentify, AdminStep PROVE NamesIdentify'
<1> USE DEF AccountsTypeOK, Users, NamesIdentify
<1>1. ASSUME NEW c \in Creations, CheckName(c) PROVE NamesIdentify'
  BY <1>1 DEF CheckName
<1>2. ASSUME NEW c \in Creations, InsertAccount(c) PROVE NamesIdentify'
  <2>1. CASE UNCHANGED account
    BY <2>1
  <2>2. ASSUME NEW role \in Roles, account' = Inserted(c, role),
               Named(creation[c].name) = {}, HavingEmail(creation[c].email) = {}
        PROVE  NamesIdentify'
    <3>1. \A a \in Users : account[a].name # creation[c].name
                             /\ account[a].email # creation[c].email
      BY <2>2 DEF Named, HavingEmail
    <3> QED BY <2>2, <3>1 DEF Inserted
  <2> QED BY <1>2, <2>1, <2>2 DEF InsertAccount
<1>3. ASSUME NEW a \in Users, UpdateAccount(a) PROVE NamesIdentify'
  <2>1. PICK e \in Emails, role \in Roles, active \in BOOLEAN :
          /\ HavingEmail(e) \subseteq {a}
          /\ account' = [account EXCEPT ![a] =
                [name |-> @.name, email |-> e, role |-> role, active |-> active]]
    BY <1>3 DEF UpdateAccount
  <2>2. \A b \in Users \ {a} : account[b].email # e
    BY <2>1 DEF HavingEmail
  <2>3. /\ account'[a].name = account[a].name /\ account'[a].email = e
        /\ \A b \in Users \ {a} : account'[b] = account[b]
    BY <2>1 DEF Account
  <2>4. DOMAIN account' = DOMAIN account
    BY <2>1
  <2> QED BY <2>2, <2>3, <2>4
<1>4. ASSUME NEW a \in Users, DeactivateAccount(a) PROVE NamesIdentify'
  BY <1>4 DEF DeactivateAccount, Account
<1> QED BY <1>1, <1>2, <1>3, <1>4 DEF AdminStep

--------------------------------------------------------------------------
\* Types of the sessions

Late == {"check", "accepted", "body", "renew", "set"}

\* What an admissible content of request[r] is.
Sound(q) ==
    q \in Request /\ (q.pc \in Late => {q.header, q.body} \subseteq Issued)

\* The content of a request between two of its lives.
LEMMA IdleIsSound == Sound(Idle) /\ Idle.pc = "idle"
BY AccountsAssumption, SessionsAssumption
   DEF Sound, Idle, Request, Late, Account, Accounts

\* The requests of a well typed state are sound.
LEMMA RequestsAreSound ==
    ASSUME SessionsTypeOK, NEW r \in Requests PROVE Sound(request[r])
BY DEF SessionsTypeOK, Sound, Late

\* A step of one request that changes nothing else.
LEMMA RequestMoves ==
    ASSUME SessionsTypeOK, NEW r \in Requests, NEW q, Sound(q), Become(r, q),
           UNCHANGED <<clock, tokenVars>>
    PROVE  SessionsTypeOK'
BY DEF SessionsTypeOK, Sound, Late, Become, tokenVars, Issued

\* The logout of a token that was issued, or what is left of a failed one.
LEMMA KeyMoves ==
    ASSUME SessionsTypeOK, NEW r \in Requests, Finish(r), NEW b \in Issued,
           UNCHANGED <<clock, token, evicted>>,
           until' \in [Tokens -> Nat], loggedOut' \in {loggedOut, loggedOut \cup {b}}
    PROVE  SessionsTypeOK'
BY IdleIsSound DEF SessionsTypeOK, Sound, Late, Finish, Become, Issued

\* The remaining time without the fraction of a second is less than a second
\* shorter.
LEMMA SecondsCut ==
    ASSUME NEW x \in Nat
    PROVE  /\ WholeSeconds(x) \in Nat
           /\ x < WholeSeconds(x) + TicksPerSecond
           /\ WholeSeconds(x) <= x
<1>1. TicksPerSecond \in Nat /\ TicksPerSecond > 0
  BY SessionsAssumption
<1>2. x % TicksPerSecond \in 0..(TicksPerSecond - 1)
  BY <1>1
<1>3. x % TicksPerSecond <= x
  <2>1. x = TicksPerSecond * (x \div TicksPerSecond) + (x % TicksPerSecond)
    BY <1>1
  <2>2. x \div TicksPerSecond \in Nat
    BY <1>1
  <2>3. TicksPerSecond * (x \div TicksPerSecond) \in Nat
    BY <1>1, <2>2
  <2> QED BY <1>2, <2>1, <2>3
<1> QED BY <1>1, <1>2, <1>3 DEF WholeSeconds

\* The life of a token is a number of ticks.
LEMMA LifeIsNat == Life \in Nat
BY SessionsAssumption DEF Life

\* A time to live is a number of ticks that ends less than a second before the
\* token does.
LEMMA TimeToLiveCovers ==
    ASSUME NEW t, clock \in Nat, token[t].exp \in Nat
    PROVE  /\ TimeToLive(t) \in Nat
           /\ clock + TimeToLive(t) + TicksPerSecond > token[t].exp
<1>1. TicksPerSecond \in Nat /\ TicksPerSecond > 0 /\ Life \in Nat
  BY SessionsAssumption, LifeIsNat
<1>2. CASE ~Valid(t)
  BY <1>1, <1>2 DEF Valid, TimeToLive
<1>3. CASE Valid(t)
  <2> DEFINE x == token[t].exp - clock
  <2>1. x \in Nat
    BY <1>3 DEF Valid
  <2>2. WholeSeconds(x) \in Nat /\ x < WholeSeconds(x) + TicksPerSecond
    BY <2>1, SecondsCut
  <2>3. TimeToLive(t) = IF WholeSeconds(x) > 0 THEN WholeSeconds(x) ELSE Life
    BY <1>3 DEF TimeToLive
  <2> HIDE DEF x
  <2>4. token[t].exp = clock + x
    BY DEF x
  <2>5. CASE WholeSeconds(x) > 0
    BY <1>1, <2>1, <2>2, <2>3, <2>4, <2>5
  <2>6. CASE ~(WholeSeconds(x) > 0)
    BY <1>1, <2>1, <2>2, <2>3, <2>4, <2>6
  <2> QED BY <2>5, <2>6
<1> QED BY <1>2, <1>3

\* A new token leaves those there were as they are.
LEMMA IssueAdds ==
    ASSUME SessionsTypeOK, NEW n \in Tokens, NEW a \in Accounts, NEW role \in Roles,
           NEW root \in Issued \cup {n}, Issue(n, a, role, root)
    PROVE  /\ Issued' = Issued \cup {n} /\ n \notin Issued
           /\ token' \in [Issued' -> Token]
           /\ \A t \in Issued : token'[t] = token[t]
           /\ token'[n].account = a /\ token'[n].role = role /\ token'[n].root = root
<1>1. n \notin Issued /\ Issued \subseteq Tokens /\ token \in [Issued -> Token]
  BY DEF Issue, SessionsTypeOK
<1>2. WholeSeconds(clock) + Life \in Nat
  BY SecondsCut, LifeIsNat DEF SessionsTypeOK
<1> DEFINE new == [account |-> a, role |-> role, root |-> root,
                   exp |-> WholeSeconds(clock) + Life]
<1>3. new \in Token
  BY <1>1, <1>2 DEF Token
<1>4. token' = [t \in Issued \cup {n} |-> IF t \in Issued THEN token[t] ELSE new]
  BY DEF Issue
<1>5. Issued' = Issued \cup {n}
  BY <1>4 DEF Issued
<1> HIDE DEF new
<1>6. token' \in [Issued' -> Token] /\ (\A t \in Issued : token'[t] = token[t])
        /\ token'[n] = new
  BY <1>1, <1>3, <1>4, <1>5
<1> QED BY <1>1, <1>5, <1>6 DEF new

\* Issuing a token at the end of a request keeps the types.
LEMMA IssueKeepsTypes ==
    ASSUME SessionsTypeOK, NEW r \in Requests, NEW n \in Tokens, NEW a \in Accounts,
           NEW role \in Roles, NEW root \in Issued \cup {n}, Issue(n, a, role, root),
           Finish(r), UNCHANGED <<clock, until, loggedOut, evicted>>
    PROVE  SessionsTypeOK'
<1>1. /\ Issued' = Issued \cup {n} /\ token' \in [Issued' -> Token]
      /\ \A t \in Issued : token'[t] = token[t]
      /\ token'[n].root = root
  BY IssueAdds
<1>2. \A t \in Issued' : token'[t].root \in Issued'
  BY <1>1 DEF SessionsTypeOK
<1>3. /\ request' \in [Requests -> Request]
      /\ \A q \in Requests : request'[q].pc \in Late =>
           {request'[q].header, request'[q].body} \subseteq Issued
  BY IdleIsSound DEF SessionsTypeOK, Finish, Become, Sound, Late
<1> QED BY <1>1, <1>2, <1>3 DEF SessionsTypeOK, Late

\* One step of a request keeps the types.
LEMMA RequestKeepsTypes ==
    ASSUME TypeOK, NEW r \in Requests, RequestStep(r) PROVE SessionsTypeOK'
<1>1. AccountsTypeOK /\ SessionsTypeOK /\ Sound(request[r])
  BY RequestsAreSound DEF TypeOK
<1>2. CASE SelectUser(r)
  <2>1. PICK n \in Names : \E a \in Named(n) :
          Become(r, [Idle EXCEPT !.pc = "signin", !.kind = "login",
                                 !.account = a, !.role = account[a].role])
    BY <1>2 DEF SelectUser
  <2>2. PICK a \in Named(n) :
          Become(r, [Idle EXCEPT !.pc = "signin", !.kind = "login",
                                 !.account = a, !.role = account[a].role])
    BY <2>1
  <2>3. a \in Accounts /\ account[a].role \in Roles
    BY <1>1 DEF Named, AccountsTypeOK, Account
  <2>4. Sound([Idle EXCEPT !.pc = "signin", !.kind = "login",
                           !.account = a, !.role = account[a].role])
    BY <2>3, IdleIsSound DEF Sound, Idle, Request, Late
  <2> QED BY <1>1, <1>2, <2>2, <2>4, RequestMoves DEF SelectUser
<1>3. CASE IssueLogin(r)
  <2>1. request[r].account \in Accounts /\ request[r].role \in Roles
    BY <1>1 DEF Sound, Request
  <2> QED BY <1>1, <1>3, <2>1, IssueKeepsTypes DEF IssueLogin
<1>4. CASE VerifyHeader(r)
  <2>1. PICK kind \in {"use", "refresh", "logout"}, h \in Issued, b \in Issued :
          Become(r, [Idle EXCEPT !.pc = "check", !.kind = kind, !.header = h,
                                 !.body = b, !.out = loggedOut \cap {h, b}])
    BY <1>4 DEF VerifyHeader
  <2>2. Sound([Idle EXCEPT !.pc = "check", !.kind = kind, !.header = h,
                           !.body = b, !.out = loggedOut \cap {h, b}])
    BY <1>1, IdleIsSound DEF Sound, Idle, Request, Late, SessionsTypeOK
  <2> QED BY <1>1, <1>4, <2>1, <2>2, RequestMoves DEF VerifyHeader
<1>5. CASE CheckHeader(r)
  <2>1. ASSUME NEW open \in BOOLEAN
        PROVE  Sound([request[r] EXCEPT !.open = open,
                        !.pc = IF request[r].kind = "use" THEN "accepted" ELSE "body"])
    BY <1>1, <1>5 DEF CheckHeader, Sound, Request, Late
  <2> QED BY <1>1, <1>5, <2>1, RequestMoves, IdleIsSound
          DEF CheckHeader, Authenticated, Finish
<1>6. CASE Serve(r) \/ Drop(r)
  BY <1>1, <1>6, RequestMoves, IdleIsSound DEF Serve, Drop, Finish
<1>7. CASE CheckBody(r)
  <2>1. Sound([request[r] EXCEPT !.pc = "renew"])
    BY <1>1, <1>7 DEF CheckBody, Sound, Request, Late
  <2> QED BY <1>1, <1>7, <2>1, RequestMoves, IdleIsSound DEF CheckBody, Finish
<1>8. CASE Renew(r)
  <2> DEFINE b == request[r].body
  <2>1. b \in Issued
    BY <1>1, <1>8 DEF Renew, Sound, Late
  <2>2. Owner(b) \in Accounts /\ token[b].role \in Roles /\ token[b].root \in Issued
    BY <1>1, <2>1 DEF SessionsTypeOK, Token, Owner
  <2> QED BY <1>1, <1>8, <2>2, IssueKeepsTypes DEF Renew
<1>9. CASE PrepareLogout(r)
  <2>1. request[r].body \in Issued
    BY <1>1, <1>9 DEF PrepareLogout, Sound, Late
  <2>2. TimeToLive(request[r].body) \in Nat
    BY <1>1, <2>1, TimeToLiveCovers DEF SessionsTypeOK, Token
  <2>3. Sound([request[r] EXCEPT !.pc = "set", !.ttl = TimeToLive(request[r].body)])
    BY <1>1, <2>1, <2>2, <1>9 DEF PrepareLogout, Sound, Request, Late
  <2> QED BY <1>1, <1>9, <2>3, RequestMoves, IdleIsSound DEF PrepareLogout, Finish
<1>10. CASE SetBlacklist(r)
  <2> DEFINE b == request[r].body
  <2>1. b \in Issued /\ clock + request[r].ttl \in Nat
    BY <1>1, <1>10 DEF SetBlacklist, Sound, Late, Request, SessionsTypeOK
  <2>2. until' \in {until, [until EXCEPT ![b] = clock + request[r].ttl]}
    BY <1>10 DEF SetBlacklist
  <2>3. until' \in [Tokens -> Nat]
    BY <1>1, <2>1, <2>2 DEF SessionsTypeOK
  <2>4. loggedOut' \in {loggedOut, loggedOut \cup {b}}
    BY <1>10 DEF SetBlacklist
  <2> QED BY <1>1, <1>10, <2>1, <2>3, <2>4, KeyMoves DEF SetBlacklist
<1> QED BY <1>2, <1>3, <1>4, <1>5, <1>6, <1>7, <1>8, <1>9, <1>10 DEF RequestStep

\* A request that leaves the accounts alone keeps their types.
LEMMA RequestKeepsAccounts ==
    ASSUME AccountsTypeOK, NEW r \in Requests, RequestStep(r)
    PROVE  AccountsTypeOK' /\ account' = account
<1>1. CASE SelectUser(r) \/ VerifyHeader(r)
  BY <1>1, StartKeepsAccounts DEF SelectUser, VerifyHeader
<1>2. CASE UNCHANGED accountVars
  BY <1>2 DEF accountVars, AccountsTypeOK, Users
<1> QED BY <1>1, <1>2 DEF RequestStep, IssueLogin, CheckHeader, Serve, CheckBody,
                          Renew, PrepareLogout, SetBlacklist, Drop

\* Accounts, tokens, requests and blacklist have their types, requests carry
\* issued tokens, and chains of refreshes have issued roots.
THEOREM TypeCorrect == Spec => []TypeOK
<1>1. Init => TypeOK
  <2> SUFFICES ASSUME Init PROVE TypeOK
    OBVIOUS
  <2>1. AccountsTypeOK
    BY AccountsBegin DEF Init
  <2>2. SessionsTypeOK
    BY SessionsAssumption, IdleIsSound
       DEF Init, SessionsTypeOK, Issued, Sound, Late
  <2> QED BY <2>1, <2>2 DEF TypeOK
<1>2. TypeOK /\ [Next]_vars => TypeOK'
  <2> SUFFICES ASSUME TypeOK, [Next]_vars PROVE TypeOK'
    OBVIOUS
  <2>0. AccountsTypeOK /\ SessionsTypeOK
    BY DEF TypeOK
  <2>1. ASSUME NEW r \in Requests, RequestStep(r) PROVE TypeOK'
    BY <2>0, <2>1, RequestKeepsTypes, RequestKeepsAccounts DEF TypeOK
  <2>2. ASSUME NEW t \in Issued, Evict(t) PROVE TypeOK'
    <3>1. AccountsTypeOK'
      BY <2>0, <2>2 DEF Evict, accountVars, AccountsTypeOK, Users
    <3>2. SessionsTypeOK'
      BY <2>0, <2>2 DEF Evict, SessionsTypeOK, Issued
    <3> QED BY <3>1, <3>2 DEF TypeOK
  <2>3. CASE Tick
    <3>1. AccountsTypeOK'
      BY <2>0, <2>3 DEF Tick, accountVars, AccountsTypeOK, Users
    <3>2. clock' \in 0..MaxTime
      BY <2>0, <2>3, SessionsAssumption DEF Tick, SessionsTypeOK
    <3>3. SessionsTypeOK'
      BY <2>0, <2>3, <3>2 DEF Tick, SessionsTypeOK, Issued, tokenVars
    <3> QED BY <3>1, <3>3 DEF TypeOK
  <2>4. CASE AdminStep /\ UNCHANGED <<clock, tokenVars, request>>
    <3>1. AccountsTypeOK'
      BY <2>0, <2>4, AdminKeepsTypes
    <3>2. SessionsTypeOK'
      BY <2>0, <2>4 DEF SessionsTypeOK, Issued, tokenVars
    <3> QED BY <3>1, <3>2 DEF TypeOK
  <2>5. CASE UNCHANGED vars
    BY <2>0, <2>5 DEF vars, accountVars, TypeOK, AccountsTypeOK, Users,
                      SessionsTypeOK, Issued
  <2> QED BY <2>1, <2>2, <2>3, <2>4, <2>5 DEF Next
<1> QED BY <1>1, <1>2, PTL DEF Spec

--------------------------------------------------------------------------
\* What no step takes back

\* An issued token keeps its claims, an evicted key stays in the history, and
\* the clock goes forward.
LEMMA StepKeeps ==
    ASSUME TypeOK, [Next]_vars
    PROVE  /\ Issued \subseteq Issued' /\ \A t \in Issued : token'[t] = token[t]
           /\ evicted \subseteq evicted' /\ clock \in Nat /\ clock' \in Nat
           /\ clock <= clock'
<1>0. AccountsTypeOK /\ SessionsTypeOK /\ clock \in Nat
  BY SessionsAssumption DEF TypeOK, SessionsTypeOK
<1>1. ASSUME NEW r \in Requests, RequestStep(r)
      PROVE  /\ Issued \subseteq Issued' /\ \A t \in Issued : token'[t] = token[t]
             /\ evicted' = evicted /\ clock' = clock
  <2>1. CASE IssueLogin(r) \/ Renew(r)
    <3>1. PICK n, a, role, root : Issue(n, a, role, root)
      BY <2>1 DEF IssueLogin, Renew
    <3>2. Issued \subseteq Issued' /\ \A t \in Issued : token'[t] = token[t]
      BY <3>1 DEF Issue, Issued
    <3> QED BY <2>1, <3>2 DEF IssueLogin, Renew
  <2>2. CASE UNCHANGED <<clock, token, evicted>>
    BY <2>2 DEF Issued
  <2> QED BY <1>1, <2>1, <2>2
          DEF RequestStep, SelectUser, VerifyHeader, CheckHeader, Serve, CheckBody,
              PrepareLogout, SetBlacklist, Drop, tokenVars
<1>2. ASSUME NEW t \in Issued, Evict(t)
      PROVE  evicted \subseteq evicted' /\ UNCHANGED <<clock, token>>
  BY <1>2 DEF Evict
<1>3. CASE Tick
  BY <1>0, <1>3 DEF Tick, tokenVars, Issued
<1>4. CASE UNCHANGED <<clock, token, evicted>>
  BY <1>0, <1>4 DEF Issued
<1> QED BY <1>0, <1>1, <1>2, <1>3, <1>4 DEF Next, vars, tokenVars, Issued

\* What a step of a request makes of the requests, and of the blacklist.
LEMMA OneRequestMoves ==
    ASSUME SessionsTypeOK, NEW r \in Requests, NEW q, Become(r, q)
    PROVE  /\ request'[r] = q
           /\ \A p \in Requests \ {r} : request'[p] = request[p]
BY DEF SessionsTypeOK, Become

--------------------------------------------------------------------------
\* Names

\* Names and addresses identify accounts, however the SELECTs and INSERTs of
\* creations and the UPDATEs of the administration interleave.
THEOREM NamesAreUnique == Spec => []NamesIdentify
<1>1. Init => NamesIdentify
  BY AccountsBegin DEF Init
<1>2. TypeOK /\ NamesIdentify /\ [Next]_vars => NamesIdentify'
  <2> SUFFICES ASSUME TypeOK, NamesIdentify, [Next]_vars PROVE NamesIdentify'
    OBVIOUS
  <2>0. AccountsTypeOK
    BY DEF TypeOK
  <2>1. CASE AdminStep
    BY <2>0, <2>1, AdminKeepsNames
  <2>2. CASE account' = account
    BY <2>2 DEF NamesIdentify, Users
  <2>3. ASSUME NEW r \in Requests, RequestStep(r) PROVE account' = account
    BY <2>0, <2>3, RequestKeepsAccounts
  <2>4. (\E t \in Issued : Evict(t)) \/ Tick \/ UNCHANGED vars => account' = account
    BY DEF Evict, Tick, vars, accountVars
  <2> QED BY <2>1, <2>2, <2>3, <2>4 DEF Next
<1> QED BY <1>1, <1>2, TypeCorrect, PTL DEF Spec

--------------------------------------------------------------------------
\* Logouts

\* A key that is set, or is about to be set by a logout that has computed its
\* time to live, outlives the token but for less than a second.
KeysLast ==
    \A t \in loggedOut \ evicted : until[t] + TicksPerSecond > token[t].exp

LogoutsUnderWay ==
    \A r \in Requests : request[r].pc = "set" =>
        clock + request[r].ttl + TicksPerSecond > token[request[r].body].exp

\* The logouts under way stay in time while other requests and the clock move.
LEMMA LogoutsWait ==
    ASSUME TypeOK, LogoutsUnderWay, [Next]_vars,
           NEW r \in Requests, NEW q, Become(r, q),
           q.pc = "set" => clock' + q.ttl + TicksPerSecond > token'[q.body].exp
    PROVE  LogoutsUnderWay'
<1> SUFFICES ASSUME NEW p \in Requests, request'[p].pc = "set"
             PROVE  clock' + request'[p].ttl + TicksPerSecond
                      > token'[request'[p].body].exp
  BY DEF LogoutsUnderWay
<1>0. SessionsTypeOK
  BY DEF TypeOK
<1>1. CASE p = r
  BY <1>0, <1>1, OneRequestMoves
<1>2. CASE p # r
  <2>1. request'[p] = request[p]
    BY <1>0, <1>2, OneRequestMoves
  <2>2. request[p].body \in Issued /\ request[p].ttl \in Nat
    BY <1>0, <2>1, RequestsAreSound DEF Sound, Late, Request
  <2>3. token'[request[p].body] = token[request[p].body]
          /\ token[request[p].body].exp \in Nat
    BY <1>0, <2>2, StepKeeps DEF SessionsTypeOK, Token
  <2>4. clock \in Nat /\ clock' \in Nat /\ clock <= clock' /\ TicksPerSecond \in Nat
    BY StepKeeps, SessionsAssumption
  <2>5. clock + request[p].ttl + TicksPerSecond > token[request[p].body].exp
    BY <2>1 DEF LogoutsUnderWay
  <2> QED BY <2>1, <2>2, <2>3, <2>4, <2>5
<1> QED BY <1>1, <1>2

\* The keys that are set stay as they are while no key is touched.
LEMMA KeysStay ==
    ASSUME TypeOK, KeysLast, [Next]_vars, UNCHANGED <<until, loggedOut>>
    PROVE  KeysLast'
<1>1. loggedOut \subseteq Issued
  BY DEF TypeOK, SessionsTypeOK
<1> QED BY <1>1, StepKeeps DEF KeysLast

\* One step of a request keeps both.
LEMMA RequestKeepsKeys ==
    ASSUME TypeOK, KeysLast, LogoutsUnderWay, NEW r \in Requests, RequestStep(r)
    PROVE  KeysLast' /\ LogoutsUnderWay'
<1>0. SessionsTypeOK /\ [Next]_vars /\ Sound(request[r])
  BY RequestsAreSound DEF TypeOK, Next
<1>1. CASE SetBlacklist(r)
  <2> DEFINE b == request[r].body
  <2>1. b \in Issued /\ b \in Tokens /\ request[r].pc = "set"
    BY <1>0, <1>1 DEF SetBlacklist, Sound, Late, SessionsTypeOK
  <2>2. clock + request[r].ttl + TicksPerSecond > token[b].exp
    BY <2>1 DEF LogoutsUnderWay
  <2>3. until' \in {until, [until EXCEPT ![b] = clock + request[r].ttl]}
          /\ loggedOut' \in {loggedOut, loggedOut \cup {b}} /\ UNCHANGED <<token, evicted>>
          /\ (loggedOut' # loggedOut => until' = [until EXCEPT ![b] = clock + request[r].ttl])
    BY <1>1 DEF SetBlacklist
  <2>4. KeysLast'
    <3> SUFFICES ASSUME NEW t \in loggedOut' \ evicted'
                 PROVE  until'[t] + TicksPerSecond > token'[t].exp
      BY DEF KeysLast
    <3>1. CASE t \in loggedOut
      BY <1>0, <2>1, <2>2, <2>3, <3>1 DEF KeysLast, SessionsTypeOK
    <3>2. CASE t \notin loggedOut
      BY <1>0, <2>1, <2>2, <2>3, <3>2 DEF SessionsTypeOK
    <3> QED BY <3>1, <3>2
  <2>5. LogoutsUnderWay'
    BY <1>0, <1>1, LogoutsWait, IdleIsSound DEF SetBlacklist, Finish
  <2> QED BY <2>4, <2>5
<1>2. CASE PrepareLogout(r)
  <2> DEFINE b == request[r].body
             q == [request[r] EXCEPT !.pc = "set", !.ttl = TimeToLive(b)]
  <2>1. b \in Issued
    BY <1>0, <1>2 DEF PrepareLogout, Sound, Late
  <2>2. clock \in Nat /\ token[b].exp \in Nat
    BY <1>0, <2>1, StepKeeps DEF SessionsTypeOK, Token
  <2>3. clock + TimeToLive(b) + TicksPerSecond > token[b].exp
    BY <2>2, TimeToLiveCovers
  <2>4. q.ttl = TimeToLive(b) /\ q.body = b
    BY <1>0 DEF Sound, Request
  <2>5. KeysLast' /\ UNCHANGED <<clock, token>>
    BY <1>0, <1>2, KeysStay DEF PrepareLogout, tokenVars
  <2>6. CASE Become(r, q)
    <3> HIDE DEF q, b
    <3> QED BY <1>0, <2>3, <2>4, <2>5, <2>6, LogoutsWait
  <2>7. CASE Finish(r)
    BY <1>0, <2>5, <2>7, LogoutsWait, IdleIsSound DEF Finish
  <2> QED BY <1>2, <2>5, <2>6, <2>7 DEF PrepareLogout
<1>3. ASSUME UNCHANGED <<until, loggedOut>>, NEW q, Become(r, q), q.pc # "set"
      PROVE  KeysLast' /\ LogoutsUnderWay'
  BY <1>0, <1>3, KeysStay, LogoutsWait
<1>4. CASE SelectUser(r)
  <2>1. PICK n \in Names : \E a \in Named(n) :
          Become(r, [Idle EXCEPT !.pc = "signin", !.kind = "login",
                                 !.account = a, !.role = account[a].role])
    BY <1>4 DEF SelectUser
  <2>2. PICK a \in Named(n) :
          Become(r, [Idle EXCEPT !.pc = "signin", !.kind = "login",
                                 !.account = a, !.role = account[a].role])
    BY <2>1
  <2> QED BY <1>3, <1>4, <2>2 DEF SelectUser, Idle, tokenVars
<1>5. CASE VerifyHeader(r)
  <2>1. PICK kind \in {"use", "refresh", "logout"}, h \in Issued, b \in Issued :
          Become(r, [Idle EXCEPT !.pc = "check", !.kind = kind, !.header = h,
                                 !.body = b, !.out = loggedOut \cap {h, b}])
    BY <1>5 DEF VerifyHeader
  <2> QED BY <1>3, <1>5, <2>1 DEF VerifyHeader, Idle, tokenVars
<1>6. CASE CheckHeader(r)
  <2>1. ASSUME NEW open, Authenticated(r, open) PROVE KeysLast' /\ LogoutsUnderWay'
    <3>1. [request[r] EXCEPT !.open = open,
             !.pc = IF request[r].kind = "use" THEN "accepted" ELSE "body"].pc # "set"
      BY <1>0 DEF Sound, Request
    <3> QED BY <1>3, <1>6, <2>1, <3>1 DEF CheckHeader, Authenticated, tokenVars
  <2>2. CASE Finish(r)
    BY <1>3, <1>6, <2>2, IdleIsSound DEF CheckHeader, Finish, tokenVars
  <2> QED BY <1>6, <2>1, <2>2 DEF CheckHeader
<1>7. CASE CheckBody(r)
  <2>1. [request[r] EXCEPT !.pc = "renew"].pc # "set"
    BY <1>0 DEF Sound, Request
  <2> QED BY <1>3, <1>7, <2>1, IdleIsSound DEF CheckBody, Finish, tokenVars
<1>8. CASE IssueLogin(r) \/ Renew(r) \/ Serve(r) \/ Drop(r)
  BY <1>3, <1>8, IdleIsSound DEF IssueLogin, Renew, Serve, Drop, Finish, tokenVars
<1> QED BY <1>1, <1>2, <1>4, <1>5, <1>6, <1>7, <1>8 DEF RequestStep

\* The keys of the tokens that were logged out last, whoever moves.
LEMMA StepKeepsKeys ==
    ASSUME TypeOK, KeysLast, LogoutsUnderWay, [Next]_vars
    PROVE  KeysLast' /\ LogoutsUnderWay'
<1>0. SessionsTypeOK
  BY DEF TypeOK
<1>1. ASSUME UNCHANGED request PROVE LogoutsUnderWay'
  <2> SUFFICES ASSUME NEW p \in Requests, request[p].pc = "set"
               PROVE  clock' + request[p].ttl + TicksPerSecond
                        > token'[request[p].body].exp
    BY <1>1 DEF LogoutsUnderWay
  <2>1. request[p].body \in Issued /\ request[p].ttl \in Nat
    BY <1>0, RequestsAreSound DEF Sound, Late, Request
  <2>2. token'[request[p].body] = token[request[p].body]
          /\ token[request[p].body].exp \in Nat
    BY <1>0, <2>1, StepKeeps DEF SessionsTypeOK, Token
  <2>3. clock \in Nat /\ clock' \in Nat /\ clock <= clock' /\ TicksPerSecond \in Nat
    BY StepKeeps, SessionsAssumption
  <2>4. clock + request[p].ttl + TicksPerSecond > token[request[p].body].exp
    BY DEF LogoutsUnderWay
  <2> QED BY <2>1, <2>2, <2>3, <2>4
<1>2. ASSUME NEW t \in Issued, Evict(t) PROVE KeysLast' /\ LogoutsUnderWay'
  <2>1. KeysLast'
    BY <1>0, <1>2 DEF Evict, KeysLast, SessionsTypeOK
  <2> QED BY <1>1, <1>2, <2>1 DEF Evict
<1>3. CASE UNCHANGED <<until, loggedOut, request>>
  BY <1>1, <1>3, KeysStay
<1> QED BY <1>2, <1>3, RequestKeepsKeys DEF Next, Tick, vars, tokenVars

\* The blacklist key of a token that was logged out is there until the token's
\* last second, unless Redis evicted it.
THEOREM LogoutLasts == Spec => []RevokedUntilLastSecond
<1>1. Init => KeysLast /\ LogoutsUnderWay
  BY IdleIsSound DEF Init, KeysLast, LogoutsUnderWay, Idle
<1>2. TypeOK /\ KeysLast /\ LogoutsUnderWay /\ [Next]_vars
        => KeysLast' /\ LogoutsUnderWay'
  BY StepKeepsKeys
<1>3. TypeOK /\ KeysLast => RevokedUntilLastSecond
  <2> SUFFICES ASSUME TypeOK, KeysLast, NEW t \in loggedOut \ evicted,
                      clock <= token[t].exp - TicksPerSecond
               PROVE  clock < until[t]
    BY DEF RevokedUntilLastSecond, Blacklisted
  <2>1. /\ clock \in Nat /\ until[t] \in Nat /\ token[t].exp \in Nat
        /\ TicksPerSecond \in Nat
    BY SessionsAssumption DEF TypeOK, SessionsTypeOK, Token
  <2>2. until[t] + TicksPerSecond > token[t].exp
    BY DEF KeysLast
  <2> QED BY <2>1, <2>2
<1> QED BY <1>1, <1>2, <1>3, TypeCorrect, PTL DEF Spec

\* What LogoutIsSeen says of the two tokens of a request.
Sees(r, t) ==
    \/ t \notin request[r].out \/ t \in evicted
    \/ clock > token[t].exp - TicksPerSecond

SeesBoth(r) ==
    /\ request[r].pc \in {"accepted", "body", "renew", "set"} =>
         request[r].open \/ Sees(r, request[r].header)
    /\ request[r].pc = "renew" => Sees(r, request[r].body)

OutIsLoggedOut == \A r \in Requests : request[r].out \subseteq loggedOut

\* A token that is not on the blacklist now was not logged out in time.
LEMMA NotBlacklistedIsSeen ==
    ASSUME TypeOK, RevokedUntilLastSecond, OutIsLoggedOut,
           NEW r \in Requests, NEW t \in Issued, ~Blacklisted(t)
    PROVE  Sees(r, t)
<1>1. clock \in Nat /\ token[t].exp \in Nat /\ TicksPerSecond \in Nat
  BY SessionsAssumption DEF TypeOK, SessionsTypeOK, Token
<1>2. t \in loggedOut \ evicted => ~(clock <= token[t].exp - TicksPerSecond)
  BY DEF RevokedUntilLastSecond
<1> QED BY <1>1, <1>2 DEF Sees, OutIsLoggedOut

\* What a request has seen of a token remains so.
LEMMA SeenStays ==
    ASSUME TypeOK, [Next]_vars, NEW r \in Requests, NEW t \in Issued, Sees(r, t),
           request'[r].out = request[r].out
    PROVE  Sees(r, t)'
<1>1. /\ evicted \subseteq evicted' /\ token'[t] = token[t]
      /\ clock \in Nat /\ clock' \in Nat /\ clock <= clock'
  BY StepKeeps
<1>2. token[t].exp \in Nat /\ TicksPerSecond \in Nat
  BY SessionsAssumption DEF TypeOK, SessionsTypeOK, Token
<1> QED BY <1>1, <1>2 DEF Sees

\* So a request that does not move keeps what it has seen.
LEMMA WaitingStillSees ==
    ASSUME TypeOK, [Next]_vars, NEW r \in Requests, SeesBoth(r),
           request'[r] = request[r]
    PROVE  SeesBoth(r)'
<1>1. request[r].pc \in Late => request[r].header \in Issued /\ request[r].body \in Issued
  BY RequestsAreSound DEF TypeOK, Sound
<1> QED BY <1>1, SeenStays DEF SeesBoth, Late

\* A request that moves has looked at the blacklist before it comes to where
\* it matters.
LEMMA MovingSees ==
    ASSUME TypeOK, RevokedUntilLastSecond, OutIsLoggedOut,
           NEW r \in Requests, SeesBoth(r), RequestStep(r)
    PROVE  SeesBoth(r)' /\ (request'[r].out \subseteq loggedOut \/ request'[r].out = {})
<1>0. SessionsTypeOK /\ [Next]_vars /\ Sound(request[r])
  BY RequestsAreSound DEF TypeOK, Next
<1> DEFINE h == request[r].header
           b == request[r].body
<1>1. ASSUME Finish(r) PROVE SeesBoth(r)' /\ request'[r].out = {}
  BY <1>0, <1>1, OneRequestMoves DEF Finish, Idle, SeesBoth
<1>2. CASE SelectUser(r)
  <2>1. PICK n \in Names : \E a \in Named(n) :
          Become(r, [Idle EXCEPT !.pc = "signin", !.kind = "login",
                                 !.account = a, !.role = account[a].role])
    BY <1>2 DEF SelectUser
  <2>2. PICK a \in Named(n) :
          Become(r, [Idle EXCEPT !.pc = "signin", !.kind = "login",
                                 !.account = a, !.role = account[a].role])
    BY <2>1
  <2> DEFINE q == [Idle EXCEPT !.pc = "signin", !.kind = "login",
                               !.account = a, !.role = account[a].role]
  <2>3. q.pc = "signin" /\ q.out = {}
    BY DEF Idle
  <2> HIDE DEF q
  <2>4. request'[r] = q
    BY <1>0, <2>2, OneRequestMoves DEF q
  <2> QED BY <2>3, <2>4 DEF SeesBoth
<1>3. CASE VerifyHeader(r)
  <2>1. PICK kind \in {"use", "refresh", "logout"}, x \in Issued, y \in Issued :
          Become(r, [Idle EXCEPT !.pc = "check", !.kind = kind, !.header = x,
                                 !.body = y, !.out = loggedOut \cap {x, y}])
    BY <1>3 DEF VerifyHeader
  <2> DEFINE q == [Idle EXCEPT !.pc = "check", !.kind = kind, !.header = x,
                               !.body = y, !.out = loggedOut \cap {x, y}]
  <2>2. q.pc = "check" /\ q.out \subseteq loggedOut
    BY DEF Idle
  <2> HIDE DEF q
  <2>3. request'[r] = q
    BY <1>0, <2>1, OneRequestMoves DEF q
  <2> QED BY <2>2, <2>3 DEF SeesBoth
<1>4. CASE CheckHeader(r)
  <2>1. h \in Issued
    BY <1>0, <1>4 DEF CheckHeader, Sound, Late
  <2>2. ASSUME NEW open \in BOOLEAN, Authenticated(r, open), open \/ ~Blacklisted(h)
        PROVE  SeesBoth(r)' /\ request'[r].out \subseteq loggedOut
    <3>1. /\ request'[r].header = h /\ request'[r].out = request[r].out
          /\ request'[r].open = open /\ request'[r].pc \in {"accepted", "body"}
      <4> DEFINE q == [request[r] EXCEPT !.open = open,
                         !.pc = IF request[r].kind = "use" THEN "accepted" ELSE "body"]
      <4>1. /\ q.header = h /\ q.out = request[r].out
            /\ q.open = open /\ q.pc \in {"accepted", "body"}
        BY <1>0 DEF Sound, Request
      <4> HIDE DEF q
      <4>2. request'[r] = q
        BY <1>0, <2>2, OneRequestMoves DEF q, Authenticated
      <4> QED BY <4>1, <4>2
    <3>2. open \/ Sees(r, h)'
      BY <1>0, <2>1, <2>2, <3>1, NotBlacklistedIsSeen, SeenStays
    <3> QED BY <3>1, <3>2 DEF SeesBoth, Sees, OutIsLoggedOut
  <2> QED BY <1>1, <1>4, <2>2 DEF CheckHeader
<1>5. CASE CheckBody(r)
  <2>1. h \in Issued /\ b \in Issued
    BY <1>0, <1>5 DEF CheckBody, Sound, Late
  <2>2. ASSUME ~Blacklisted(b), Become(r, [request[r] EXCEPT !.pc = "renew"])
        PROVE  SeesBoth(r)' /\ request'[r].out \subseteq loggedOut
    <3>1. /\ request'[r].header = h /\ request'[r].body = b
          /\ request'[r].out = request[r].out
          /\ request'[r].open = request[r].open /\ request'[r].pc = "renew"
      BY <1>0, <2>2, OneRequestMoves DEF Sound, Request
    <3>2. Sees(r, b)'
      BY <1>0, <2>1, <2>2, <3>1, NotBlacklistedIsSeen, SeenStays
    <3>3. request[r].open \/ Sees(r, h)'
      BY <1>0, <1>5, <2>1, <3>1, SeenStays DEF CheckBody, SeesBoth
    <3> QED BY <3>1, <3>2, <3>3 DEF SeesBoth, Sees, OutIsLoggedOut
  <2> QED BY <1>1, <1>5, <2>2 DEF CheckBody
<1>6. CASE PrepareLogout(r)
  <2>1. h \in Issued
    BY <1>0, <1>6 DEF PrepareLogout, Sound, Late
  <2>2. ASSUME NEW ttl, Become(r, [request[r] EXCEPT !.pc = "set", !.ttl = ttl])
        PROVE  SeesBoth(r)' /\ request'[r].out \subseteq loggedOut
    <3>1. /\ request'[r].header = h /\ request'[r].out = request[r].out
          /\ request'[r].open = request[r].open /\ request'[r].pc = "set"
      <4> DEFINE q == [request[r] EXCEPT !.pc = "set", !.ttl = ttl]
      <4>1. /\ q.header = h /\ q.out = request[r].out
            /\ q.open = request[r].open /\ q.pc = "set"
        BY <1>0 DEF Sound, Request
      <4> HIDE DEF q
      <4>2. request'[r] = q
        BY <1>0, <2>2, OneRequestMoves DEF q
      <4> QED BY <4>1, <4>2
    <3>2. request[r].open \/ Sees(r, h)'
      BY <1>0, <1>6, <2>1, <3>1, SeenStays DEF PrepareLogout, SeesBoth
    <3> QED BY <3>1, <3>2 DEF SeesBoth, Sees, OutIsLoggedOut
  <2> QED BY <1>1, <1>6, <2>2 DEF PrepareLogout
<1>7. CASE IssueLogin(r) \/ Serve(r) \/ Renew(r) \/ SetBlacklist(r) \/ Drop(r)
  BY <1>1, <1>7 DEF IssueLogin, Serve, Renew, SetBlacklist, Drop
<1> QED BY <1>2, <1>3, <1>4, <1>5, <1>6, <1>7 DEF RequestStep

\* Tokens that were logged out stay so.
LEMMA LoggedOutStays ==
    ASSUME [Next]_vars PROVE loggedOut \subseteq loggedOut'
BY DEF Next, vars, RequestStep, SelectUser, IssueLogin, VerifyHeader, CheckHeader, Serve,
       CheckBody, Renew, PrepareLogout, SetBlacklist, Drop, Evict, Tick, tokenVars

\* A token whose logout was answered before the request came does not get the
\* request through, apart from the last second, evictions and an unavailable
\* Redis.
THEOREM LogoutsAreSeen == Spec => []LogoutIsSeen
<1> DEFINE All == \A r \in Requests : SeesBoth(r)
<1>1. Init => All /\ OutIsLoggedOut
  BY DEF Init, Idle, SeesBoth, OutIsLoggedOut
<1>2. TypeOK /\ RevokedUntilLastSecond /\ All /\ OutIsLoggedOut /\ [Next]_vars
        => All' /\ OutIsLoggedOut'
  <2> SUFFICES ASSUME TypeOK, RevokedUntilLastSecond, All, OutIsLoggedOut, [Next]_vars
               PROVE  All' /\ OutIsLoggedOut'
    OBVIOUS
  <2>1. ASSUME NEW r \in Requests, RequestStep(r) PROVE All' /\ OutIsLoggedOut'
    <3>1. /\ SeesBoth(r)'
          /\ request'[r].out \subseteq loggedOut \/ request'[r].out = {}
      BY <2>1, MovingSees
    <3>2. PICK q : Become(r, q)
      BY <2>1 DEF RequestStep, SelectUser, IssueLogin, VerifyHeader, CheckHeader, Serve,
                  CheckBody, Renew, PrepareLogout, SetBlacklist, Drop, Finish, Authenticated
    <3>3. \A p \in Requests \ {r} : request'[p] = request[p]
      BY <3>2, OneRequestMoves DEF TypeOK
    <3>4. \A p \in Requests \ {r} : SeesBoth(p)'
      BY <3>3, WaitingStillSees
    <3>5. \A p \in Requests : request'[p].out \subseteq loggedOut
      BY <3>1, <3>3 DEF OutIsLoggedOut
    <3> QED BY <3>1, <3>4, <3>5, LoggedOutStays DEF OutIsLoggedOut
  <2>2. CASE UNCHANGED request
    <3>1. All'
      BY <2>2, WaitingStillSees
    <3> QED BY <2>2, <3>1, LoggedOutStays DEF OutIsLoggedOut
  <2> QED BY <2>1, <2>2 DEF Next, Evict, Tick, vars
<1>3. All => LogoutIsSeen
  BY DEF SeesBoth, Sees, LogoutIsSeen
<1> HIDE DEF All
<1> QED BY <1>1, <1>2, <1>3, TypeCorrect, LogoutLasts, PTL DEF Spec

--------------------------------------------------------------------------
\* Chains of refreshes

\* A step issues no token, a login's, or one with the claims of another.
LEMMA TokensIssued ==
    ASSUME TypeOK, [Next]_vars
    PROVE  \/ Issued' = Issued /\ token' = token
           \/ \E r \in Requests, n \in Tokens \ Issued :
                /\ Issued' = Issued \cup {n} /\ \A t \in Issued : token'[t] = token[t]
                /\ \/ /\ request[r].pc = "signin"
                      /\ token'[n].account = request[r].account /\ token'[n].root = n
                   \/ \E b \in Issued :
                        /\ token'[n].account = token[b].account
                        /\ token'[n].role = token[b].role
                        /\ token'[n].root = token[b].root
<1>0. SessionsTypeOK
  BY DEF TypeOK
<1>1. ASSUME NEW r \in Requests, IssueLogin(r)
      PROVE  \E n \in Tokens \ Issued :
               /\ Issued' = Issued \cup {n} /\ \A t \in Issued : token'[t] = token[t]
               /\ request[r].pc = "signin"
               /\ token'[n].account = request[r].account /\ token'[n].root = n
  <2>1. request[r].account \in Accounts /\ request[r].role \in Roles
    BY <1>0, RequestsAreSound DEF Sound, Request
  <2>2. PICK n \in Tokens : Issue(n, request[r].account, request[r].role, n)
    BY <1>1 DEF IssueLogin
  <2>3. /\ Issued' = Issued \cup {n} /\ n \notin Issued
        /\ \A t \in Issued : token'[t] = token[t]
        /\ token'[n].account = request[r].account /\ token'[n].root = n
    BY <1>0, <2>1, <2>2, IssueAdds
  <2> QED BY <1>1, <2>3 DEF IssueLogin
<1>2. ASSUME NEW r \in Requests, Renew(r)
      PROVE  \E n \in Tokens \ Issued :
               /\ Issued' = Issued \cup {n} /\ \A t \in Issued : token'[t] = token[t]
               /\ \E b \in Issued :
                    /\ token'[n].account = token[b].account
                    /\ token'[n].role = token[b].role
                    /\ token'[n].root = token[b].root
  <2> DEFINE b == request[r].body
  <2>1. b \in Issued
    BY <1>0, <1>2, RequestsAreSound DEF Renew, Sound, Late
  <2>2. token[b].account \in Accounts /\ token[b].role \in Roles /\ token[b].root \in Issued
    BY <1>0, <2>1 DEF SessionsTypeOK, Token
  <2>3. PICK n \in Tokens : Issue(n, token[b].account, token[b].role, token[b].root)
    BY <1>2 DEF Renew, Owner
  <2>4. /\ Issued' = Issued \cup {n} /\ n \notin Issued
        /\ \A t \in Issued : token'[t] = token[t]
        /\ token'[n].account = token[b].account /\ token'[n].role = token[b].role
        /\ token'[n].root = token[b].root
    BY <1>0, <2>2, <2>3, IssueAdds
  <2> QED BY <2>1, <2>4
<1>3. CASE token' = token
  BY <1>3 DEF Issued
<1> QED BY <1>1, <1>2, <1>3
        DEF Next, vars, RequestStep, SelectUser, VerifyHeader, CheckHeader, Serve,
            CheckBody, PrepareLogout, SetBlacklist, Drop, Evict, Tick, tokenVars

\* Every token has the user and the role of the login its chain began with.
THEOREM IdentityIsKept == Spec => []SessionKeepsIdentity
<1>1. Init => SessionKeepsIdentity
  BY DEF Init, SessionKeepsIdentity, Issued
<1>2. TypeOK /\ SessionKeepsIdentity /\ [Next]_vars => SessionKeepsIdentity'
  <2> SUFFICES ASSUME TypeOK, SessionKeepsIdentity, [Next]_vars
               PROVE  SessionKeepsIdentity'
    OBVIOUS
  <2>1. \A t \in Issued : token[t].root \in Issued
    BY DEF TypeOK, SessionsTypeOK
  <2>2. CASE Issued' = Issued /\ token' = token
    BY <2>2 DEF SessionKeepsIdentity, Owner
  <2>3. ASSUME NEW n, n \notin Issued, Issued' = Issued \cup {n},
               \A t \in Issued : token'[t] = token[t],
               \/ token'[n].root = n
               \/ \E b \in Issued :
                    /\ token'[n].account = token[b].account
                    /\ token'[n].role = token[b].role
                    /\ token'[n].root = token[b].root
        PROVE  SessionKeepsIdentity'
    BY <2>1, <2>3 DEF SessionKeepsIdentity, Owner
  <2> QED BY <2>2, <2>3, TokensIssued
<1> QED BY <1>1, <1>2, TypeCorrect, PTL DEF Spec

\* A login goes on only for an account that was active when it was read.
LEMMA LoginsAreOfActive ==
    ASSUME TypeOK, [Next]_vars, NEW r \in Requests, request'[r].pc = "signin",
           request[r].pc # "signin"
    PROVE  account[request'[r].account].active /\ account' = account
<1>0. SessionsTypeOK /\ AccountsTypeOK
  BY DEF TypeOK
<1>1. PICK p \in Requests : RequestStep(p)
  BY DEF Next, vars, Evict, Tick
<1>2. account' = account
  BY <1>0, <1>1, RequestKeepsAccounts
<1>3. ASSUME NEW q, Become(p, q), q.pc # "signin" PROVE FALSE
  BY <1>0, <1>3, OneRequestMoves
<1>4. CASE SelectUser(p)
  <2>1. PICK n \in Names : \E a \in Named(n) :
          /\ account[a].active
          /\ Become(p, [Idle EXCEPT !.pc = "signin", !.kind = "login",
                                    !.account = a, !.role = account[a].role])
    BY <1>4 DEF SelectUser
  <2>2. PICK a \in Named(n) :
          /\ account[a].active
          /\ Become(p, [Idle EXCEPT !.pc = "signin", !.kind = "login",
                                    !.account = a, !.role = account[a].role])
    BY <2>1
  <2> DEFINE q == [Idle EXCEPT !.pc = "signin", !.kind = "login",
                               !.account = a, !.role = account[a].role]
  <2>3. q.account = a
    BY DEF Idle
  <2> HIDE DEF q
  <2>4. request'[p] = q /\ \A o \in Requests \ {p} : request'[o] = request[o]
    BY <1>0, <2>2, OneRequestMoves DEF q
  <2> QED BY <1>2, <2>2, <2>3, <2>4
<1>5. CASE VerifyHeader(p)
  <2>1. PICK kind \in {"use", "refresh", "logout"}, x \in Issued, y \in Issued :
          Become(p, [Idle EXCEPT !.pc = "check", !.kind = kind, !.header = x,
                                 !.body = y, !.out = loggedOut \cap {x, y}])
    BY <1>5 DEF VerifyHeader
  <2>2. [Idle EXCEPT !.pc = "check", !.kind = kind, !.header = x,
                     !.body = y, !.out = loggedOut \cap {x, y}].pc # "signin"
    BY DEF Idle
  <2> QED BY <1>3, <2>1, <2>2
<1>6. CASE Finish(p)
  BY <1>3, <1>6, IdleIsSound DEF Finish
<1>7. Sound(request[p])
  BY <1>0, RequestsAreSound
<1>8. CASE CheckHeader(p) \/ CheckBody(p) \/ PrepareLogout(p)
  <2>1. ASSUME NEW open
        PROVE  [request[p] EXCEPT !.open = open,
                  !.pc = IF request[p].kind = "use" THEN "accepted" ELSE "body"].pc
                 # "signin"
    BY <1>7 DEF Sound, Request
  <2>2. [request[p] EXCEPT !.pc = "renew"].pc # "signin"
    BY <1>7 DEF Sound, Request
  <2>3. ASSUME NEW ttl PROVE [request[p] EXCEPT !.pc = "set", !.ttl = ttl].pc # "signin"
    BY <1>7 DEF Sound, Request
  <2> QED BY <1>3, <1>6, <1>8, <2>1, <2>2, <2>3
          DEF CheckHeader, Authenticated, CheckBody, PrepareLogout
<1> QED BY <1>1, <1>4, <1>5, <1>6, <1>8
        DEF RequestStep, IssueLogin, Serve, Renew, SetBlacklist, Drop

\* A deactivated account gets no further session once the logins that had read
\* it before are through.
THEOREM NoSessionAfterDeactivation == Spec => SessionsFrozen
<1>1. ASSUME TypeOK, SessionKeepsIdentity, [Next]_vars, NEW a \in Users,
             ~account[a].active,
             \A r \in Requests : request[r].pc = "signin" => request[r].account # a
      PROVE  /\ Sessions(a)' = Sessions(a)
             /\ \A r \in Requests : request'[r].pc = "signin" /\ ~account'[a].active
                  => request'[r].account # a
  <2>1. Sessions(a)' = Sessions(a)
    <3>1. CASE Issued' = Issued /\ token' = token
      BY <3>1 DEF Sessions, Owner
    <3>2. ASSUME NEW r \in Requests, NEW n \in Tokens \ Issued,
                 Issued' = Issued \cup {n}, \A t \in Issued : token'[t] = token[t],
                 request[r].pc = "signin", token'[n].account = request[r].account
          PROVE  Sessions(a)' = Sessions(a)
      BY <1>1, <3>2 DEF Sessions, Owner
    <3>3. ASSUME NEW n \in Tokens \ Issued, NEW b \in Issued,
                 Issued' = Issued \cup {n}, \A t \in Issued : token'[t] = token[t],
                 token'[n].account = token[b].account, token'[n].root = token[b].root
          PROVE  Sessions(a)' = Sessions(a)
      BY <3>3 DEF Sessions, Owner
    <3> QED BY <1>1, <3>1, <3>2, <3>3, TokensIssued
  <2>2. ASSUME NEW r \in Requests, request'[r].pc = "signin", ~account'[a].active
        PROVE  request'[r].account # a
    <3>1. CASE request[r].pc # "signin"
      BY <1>1, <2>2, <3>1, LoginsAreOfActive
    <3>2. CASE request'[r] = request[r]
      BY <1>1, <2>2, <3>2
    <3>3. CASE request[r].pc = "signin" /\ request'[r] # request[r]
      <4>0. SessionsTypeOK
        BY <1>1 DEF TypeOK
      <4>1. PICK p \in Requests : RequestStep(p)
        BY <1>1, <3>3 DEF Next, vars, Evict, Tick
      <4>2. PICK q : Become(p, q)
        BY <4>1 DEF RequestStep, SelectUser, IssueLogin, VerifyHeader, CheckHeader, Serve,
                    CheckBody, Renew, PrepareLogout, SetBlacklist, Drop, Finish,
                    Authenticated
      <4>3. p = r
        BY <3>3, <4>0, <4>2, OneRequestMoves
      <4>4. Finish(r)
        BY <3>3, <4>1, <4>3 DEF RequestStep, SelectUser, IssueLogin, VerifyHeader,
             CheckHeader, Serve, CheckBody, Renew, PrepareLogout, SetBlacklist, Drop
      <4>5. request'[r] = Idle
        BY <4>0, <4>4, OneRequestMoves DEF Finish
      <4> QED BY <2>2, <4>5, IdleIsSound
    <3> QED BY <3>1, <3>2, <3>3
  <2> QED BY <2>1, <2>2
<1>2. TypeOK /\ SessionKeepsIdentity /\ [Next]_vars =>
        \A a \in Users :
          /\ ~account[a].active
          /\ \A r \in Requests :
               request[r].pc = "signin" => request[r].account # a
          => /\ Sessions(a)' = Sessions(a)
             /\ \A r \in Requests : request'[r].pc = "signin" /\ ~account'[a].active
                  => request'[r].account # a
  BY <1>1
<1> QED BY <1>2, TypeCorrect, IdentityIsKept, PTL DEF Spec, SessionsFrozen
=============================================================================
