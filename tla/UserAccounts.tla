---------------------------- MODULE UserAccounts ----------------------------
(* The users table (scripts/init.sql) and the administration of it by the   *)
(* admin panel (admin-panel/app.py).  Creating an account is a SELECT for   *)
(* the name and an INSERT, in transactions of their own as far as other     *)
(* requests can tell (READ COMMITTED, no lock), so only the constraints of  *)
(* the table keep two creations of one name apart.  Passwords, departments  *)
(* and time stamps are left out: nothing modelled here depends on them.     *)
EXTENDS Naturals, FiniteSets

CONSTANTS
    Creations,      \* POST /api/admin/users requests; each inserts at most a row
    Admin,          \* the row that init.sql inserts
    Names,
    Emails,
    Roles,
    AdminName, AdminEmail, AdminRole,   \* its contents
    MaxRequests     \* bound: requests of any kind

Accounts == Creations \cup {Admin}

Account == [name : Names, email : Emails, role : Roles, active : BOOLEAN]

ASSUME AccountsAssumption ==
    /\ Admin \notin Creations
    /\ [name |-> AdminName, email |-> AdminEmail, role |-> AdminRole, active |-> TRUE]
         \in Account
    /\ MaxRequests \in Nat

VARIABLES
    account,        \* the rows of users, by id
    creation,       \* creation[c]: [pc, name, email]
    started         \* requests of any kind so far

accountVars == <<account, creation, started>>

Users == DOMAIN account

AccountsTypeOK ==
    /\ Users \subseteq Accounts
    /\ account \in [Users -> Account]
    /\ creation \in [Creations ->
          [pc : {"idle", "insert", "done"}, name : Names, email : Emails]]
    /\ started \in 0..MaxRequests

CreationAt(pc) == [pc |-> pc, name |-> AdminName, email |-> AdminEmail]

AccountsInit ==
    /\ account = [a \in {Admin} |->
          [name |-> AdminName, email |-> AdminEmail, role |-> AdminRole, active |-> TRUE]]
    /\ creation = [c \in Creations |-> CreationAt("idle")]
    /\ started = 0

Named(n) == {a \in Users : account[a].name = n}

HavingEmail(e) == {a \in Users : account[a].email = e}

Start == started < MaxRequests /\ started' = started + 1

\* The SELECT for the name; 409 if it returns a row.
CheckName(c) ==
    /\ creation[c].pc = "idle"
    /\ \E n \in Names, e \in Emails :
         creation' = [creation EXCEPT ![c] =
           IF Named(n) = {} THEN [pc |-> "insert", name |-> n, email |-> e]
           ELSE CreationAt("done")]
    /\ Start
    /\ UNCHANGED account

Inserted(c, role) ==
    [a \in Users \cup {c} |->
        IF a \in Users THEN account[a]
        ELSE [name |-> creation[c].name, email |-> creation[c].email,
              role |-> role, active |-> TRUE]]

Answer(c) == creation' = [creation EXCEPT ![c] = CreationAt("done")]

\* Mutant: the table has no constraint on the name; the SELECT has to do.
InsertAccount_TrustsSelect(c) ==
    /\ creation[c].pc = "insert"
    /\ HavingEmail(creation[c].email) = {}
    /\ \E role \in Roles : account' = Inserted(c, role)
    /\ Answer(c)
    /\ UNCHANGED started

\* The INSERT raises (a 500) if the name or the address is taken by now.
InsertAccount(c) ==
    /\ creation[c].pc = "insert"
    /\ IF Named(creation[c].name) = {} /\ HavingEmail(creation[c].email) = {}
       THEN \E role \in Roles : account' = Inserted(c, role)
       ELSE UNCHANGED account
    /\ Answer(c)
    /\ UNCHANGED started

\* One UPDATE of any of the columns; it raises if the address is another's.
UpdateAccount(a) ==
    /\ \E e \in Emails, role \in Roles, active \in BOOLEAN :
         /\ HavingEmail(e) \subseteq {a}
         /\ account' = [account EXCEPT ![a] =
              [name |-> @.name, email |-> e, role |-> role, active |-> active]]
    /\ Start
    /\ UNCHANGED creation

\* DELETE: the row stays, with is_active = false.
DeactivateAccount(a) ==
    /\ account' = [account EXCEPT ![a].active = FALSE]
    /\ Start
    /\ UNCHANGED creation

AdminStep ==
    \/ \E c \in Creations : CheckName(c) \/ InsertAccount(c)
    \/ \E a \in Users : UpdateAccount(a) \/ DeactivateAccount(a)

--------------------------------------------------------------------------
\* A user name or an address leads to one account: the login and the SELECT
\* of a creation read one row and take it for the only one, although two
\* creations of a name can both find it free and an update can take an address
\* a creation is about to insert (admin-panel/app.py:211-217, 254, init.sql:15).
NamesIdentify ==
    \A a, b \in Users : a # b =>
        account[a].name # account[b].name /\ account[a].email # account[b].email
=============================================================================
