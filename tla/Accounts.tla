------------------------------ MODULE Accounts ------------------------------
(***************************************************************************)
(* Accounts and logins: the users routes (api/v1/users.py), POST           *)
(* /auth/login, and the tables users and known_login_ips behind them.      *)
(*                                                                         *)
(* A request reads the rows it needs, checks them, and writes with one     *)
(* commit; it awaits the database in between, and a login from a new       *)
(* address also awaits the notification channels.  Tokens name a username; *)
(* the role is read from the table on every request.                       *)
(***************************************************************************)
EXTENDS Naturals, FiniteSets

CONSTANTS
    Requests,     \* request slots, each used once: the bound on a behaviour
    Names,        \* usernames
    Ips,          \* client addresses
    MaxId,        \* bound on the number of users ever created
    Asks,         \* the requests clients may send, a subset of Ask
    FirstUsers,   \* the users tables there may be at first
    FirstAdmin,   \* the username of the admin that is made when there is nobody
    Faults,       \* what may go wrong: "db", "crash"
    MaxInFlight   \* bound on the requests being served at the same time

VARIABLES
    users,        \* the users table: Ids -> User
    known,        \* known_login_ips: how many rows for <<user id, address>>
    alerted,      \* history: <<user id, address>> that some channel was told of
    missed,       \* history: those an alert was dispatched for and reached nobody
    req           \* the requests

vars == <<users, known, alerted, missed, req>>

Ids   == 1 .. MaxId
Roles == {"admin", "viewer"}
User  == [there: BOOLEAN, name: Names, role: Roles \union {"none"}]
NoUser == [there |-> FALSE, name |-> CHOOSE n \in Names : TRUE, role |-> "none"]

\* by: the username of the caller's token, or of the login; on: the user acted
\* on; name, role and ip matter to the operations that take them.
Ask == [op: {"login", "create", "role", "delete"}, by: Names, on: Ids,
        name: Names, role: Roles, ip: Ips]
NoAsk == [op |-> "login", by |-> CHOOSE n \in Names : TRUE, on |-> 1,
          name |-> CHOOSE n \in Names : TRUE, role |-> "viewer", ip |-> CHOOSE i \in Ips : TRUE]

Steps == {"idle", "auth", "find", "write", "known", "alert", "lookup", "insert", "bump", "done"}
Reply == {"none", "ok", "unauthorized", "forbidden", "bad_request", "not_found",
          "conflict", "error", "lost"}

ASSUME ConstantAssumption ==
    /\ MaxId \in Nat \ {0} /\ MaxInFlight \in Nat
    /\ Names # {} /\ Ips # {} /\ FirstAdmin \in Names
    /\ Asks \subseteq Ask
    /\ FirstUsers \subseteq [Ids -> User]
    /\ \A us \in FirstUsers :
          /\ \A i \in Ids : us[i].there => us[i].role \in Roles
          /\ \E i \in Ids : us[i].there /\ us[i].role = "admin"

TypeOK ==
    /\ users \in [Ids -> User]
    /\ \A i \in Ids : users[i].there => users[i].role \in Roles
    /\ known \in [Ids \X Ips -> Nat]
    /\ alerted \subseteq Ids \X Ips /\ missed \subseteq Ids \X Ips
    /\ req \in [Requests -> [pc: Steps, ask: Ask, me: Ids, role: Roles, reply: Reply]]

-----------------------------------------------------------------------------
Job(r)   == req[r].ask
Op(r)    == Job(r).op
At(r, p) == req[r].pc = p
Active   == {r \in Requests : req[r].pc \notin {"idle", "done"}}
Place(r) == <<req[r].me, Job(r).ip>>
Dispatched == alerted \union missed

Goto(r, p)   == req' = [req EXCEPT ![r].pc = p]
Close(r, a)  == req' = [req EXCEPT ![r].pc = "done", ![r].reply = a]

Named(n) == {i \in Ids : users[i].there /\ users[i].name = n}
Admins   == {i \in Ids : users[i].there /\ users[i].role = "admin"}
Unused   == {i \in Ids : \A j \in Ids : users[j] # NoUser => j < i}
NextId   == {i \in Unused : \A j \in Unused : i <= j}

Init ==
    /\ users \in FirstUsers
    /\ known = [p \in Ids \X Ips |-> 0]
    /\ alerted = {} /\ missed = {}
    /\ req = [r \in Requests |-> [pc |-> "idle", ask |-> NoAsk, me |-> 1,
                                  role |-> "viewer", reply |-> "none"]]

Arrive(r, a) ==
    /\ At(r, "idle") /\ Cardinality(Active) < MaxInFlight
    /\ req' = [req EXCEPT ![r].pc = "auth", ![r].ask = a]
    /\ UNCHANGED <<users, known, alerted, missed>>

-----------------------------------------------------------------------------
(* The users routes.                                                       *)

\* get_current_user and require_admin, which the login takes the place of.
Authenticate(r) ==
    /\ At(r, "auth")
    /\ IF Named(Job(r).by) = {} THEN Close(r, "unauthorized")
       ELSE \E i \in Named(Job(r).by) :
              IF Op(r) = "login"
                THEN req' = [req EXCEPT ![r].pc = "known", ![r].me = i]
              ELSE IF users[i].role # "admin" THEN Close(r, "forbidden")
              ELSE req' = [req EXCEPT ![r].pc = "find", ![r].me = i]
    /\ UNCHANGED <<users, known, alerted, missed>>

\* Mutant of Find: the check that it is not the caller's own account is missing.
FindAny(r) ==
    /\ At(r, "find")
    /\ IF Op(r) = "create"
         THEN IF Named(Job(r).name) # {} THEN Close(r, "conflict") ELSE Goto(r, "write")
       ELSE IF ~users[Job(r).on].there THEN Close(r, "not_found")
       ELSE req' = [req EXCEPT ![r].pc = "write", ![r].role = users[Job(r).on].role]
    /\ UNCHANGED <<users, known, alerted, missed>>

Find(r) ==
    /\ At(r, "find")
    /\ IF Op(r) = "create"
         THEN IF Named(Job(r).name) # {} THEN Close(r, "conflict") ELSE Goto(r, "write")
       ELSE IF ~users[Job(r).on].there THEN Close(r, "not_found")
       ELSE IF Job(r).on = req[r].me THEN Close(r, "bad_request")
       ELSE req' = [req EXCEPT ![r].pc = "write", ![r].role = users[Job(r).on].role]
    /\ UNCHANGED <<users, known, alerted, missed>>

\* After its commit the row is read again, which may fail.
Committed(r) ==
    \/ Close(r, "ok")
    \/ "db" \in Faults /\ Close(r, "error")

\* Mutant of CreateUser: the role of the request is not stored.
CreateUserNoRole(r) ==
    /\ At(r, "write") /\ Op(r) = "create"
    /\ IF Named(Job(r).name) # {} THEN Close(r, "error") /\ UNCHANGED users
       ELSE \E i \in NextId :
              /\ users' = [users EXCEPT ![i].there = TRUE, ![i].name = Job(r).name]
              /\ Committed(r)
    /\ UNCHANGED <<known, alerted, missed>>

\* The username is unique in the table; ids are not used again.
CreateUser(r) ==
    /\ At(r, "write") /\ Op(r) = "create"
    /\ IF Named(Job(r).name) # {} THEN Close(r, "error") /\ UNCHANGED users
       ELSE \E i \in NextId :
              /\ users' = [users EXCEPT ![i] = [there |-> TRUE, name |-> Job(r).name,
                                                role |-> Job(r).role]]
              /\ Committed(r)
    /\ UNCHANGED <<known, alerted, missed>>

\* A role that is the one the session read is not written; either way the row
\* is read again after the commit, which fails when it is gone.
UpdateRole(r) ==
    /\ At(r, "write") /\ Op(r) = "role"
    /\ IF ~users[Job(r).on].there THEN Close(r, "error") /\ UNCHANGED users
       ELSE /\ users' = [users EXCEPT ![Job(r).on].role =
                           IF Job(r).role = req[r].role THEN @ ELSE Job(r).role]
            /\ Committed(r)
    /\ UNCHANGED <<known, alerted, missed>>

\* The rows of known_login_ips refer to the user: the database refuses to
\* delete one who has ever logged in.
DeleteUser(r) ==
    /\ At(r, "write") /\ Op(r) = "delete"
    /\ IF \E ip \in Ips : known[<<Job(r).on, ip>>] > 0
         THEN Close(r, "error") /\ UNCHANGED users
         ELSE /\ users' = [users EXCEPT ![Job(r).on].there = FALSE]
              /\ Close(r, "ok")
    /\ UNCHANGED <<known, alerted, missed>>

-----------------------------------------------------------------------------
(* The login.                                                              *)

\* Mutant of IsKnown: the address is looked up without the account.
IsKnownToAnyone(r) ==
    /\ At(r, "known")
    /\ Goto(r, IF \E i \in Ids : known[<<i, Job(r).ip>>] > 0 THEN "lookup" ELSE "alert")
    /\ UNCHANGED <<users, known, alerted, missed>>

\* is_known: two rows for one address are an error, here and in record.
IsKnown(r) ==
    /\ At(r, "known")
    /\ IF known[Place(r)] > 1 THEN Close(r, "error")
       ELSE Goto(r, IF known[Place(r)] = 1 THEN "lookup" ELSE "alert")
    /\ UNCHANGED <<users, known, alerted, missed>>

\* dispatch_security_alert: without an enabled channel it returns, and a
\* delivery that fails is logged.  The login goes on, whoever was told.
Alert(r) ==
    /\ At(r, "alert")
    /\ \/ alerted' = alerted \union {Place(r)} /\ UNCHANGED missed
       \/ missed' = missed \union {Place(r)} /\ UNCHANGED alerted
    /\ Goto(r, "lookup")
    /\ UNCHANGED <<users, known>>

Lookup(r) ==
    /\ At(r, "lookup")
    /\ IF known[Place(r)] > 1 THEN Close(r, "error")
       ELSE Goto(r, IF known[Place(r)] = 1 THEN "bump" ELSE "insert")
    /\ UNCHANGED <<users, known, alerted, missed>>

\* No constraint keeps a second row for the address out of the table.
Record(r) ==
    /\ At(r, "insert")
    /\ IF users[req[r].me].there
         THEN known' = [known EXCEPT ![Place(r)] = @ + 1] /\ Close(r, "ok")
         ELSE Close(r, "error") /\ UNCHANGED known
    /\ UNCHANGED <<users, alerted, missed>>

\* last_seen is set on a row that is there for as long as its user is.
Bump(r) == At(r, "bump") /\ Close(r, "ok") /\ UNCHANGED <<users, known, alerted, missed>>

-----------------------------------------------------------------------------
\* A statement fails; so does reading the channels before an alert is sent,
\* which nothing catches in the login.
DbFails(r) ==
    /\ "db" \in Faults /\ r \in Active
    /\ Close(r, "error")
    /\ UNCHANGED <<users, known, alerted, missed>>

\* _seed_admin, when the backend starts.
Seed ==
    IF \E i \in Ids : users[i].there
      THEN UNCHANGED users
      ELSE \E i \in NextId :
             users' = [users EXCEPT ![i] = [there |-> TRUE, name |-> FirstAdmin, role |-> "admin"]]

\* The backend stops, and starts again.
Crash ==
    /\ "crash" \in Faults /\ Active # {}
    /\ req' = [r \in Requests |->
                 IF r \in Active THEN [req[r] EXCEPT !.pc = "done", !.reply = "lost"]
                                 ELSE req[r]]
    /\ Seed
    /\ UNCHANGED <<known, alerted, missed>>

Serve(r) ==
    \/ Authenticate(r) \/ Find(r) \/ CreateUser(r) \/ UpdateRole(r) \/ DeleteUser(r)
    \/ IsKnown(r) \/ Alert(r) \/ Lookup(r) \/ Record(r) \/ Bump(r) \/ DbFails(r)

Next ==
    \/ \E r \in Requests, a \in Asks : Arrive(r, a)
    \/ \E r \in Requests : Serve(r)
    \/ Crash

Spec == Init /\ [][Next]_vars

-----------------------------------------------------------------------------
(* What holds.                                                             *)

\* An address becomes known to an account only after a login of that account
\* dispatched an alert for it, whatever logins overlap and wherever one breaks
\* off: one that fails before the row leaves the alert to be repeated.  That a
\* channel was told is not promised: one alert that reached nobody is enough for
\* the address to be recorded, and later logins then dispatch none.
KnownWasDispatched == \A p \in DOMAIN known : known[p] > 0 => p \in Dispatched

\* Requests that may have taken the role of admin from the account they name.
Removals == {r \in Requests :
                /\ Op(r) = "delete" \/ (Op(r) = "role" /\ Job(r).role # "admin")
                /\ req[r].reply \in {"ok", "error"}}

\* The admins are gone only when they removed each other at the same time: as
\* nobody can demote or delete the account they act with, and each request
\* finds out who its caller is now, removals that leave no admin form a circle.
OnlyTogether ==
    Admins = {} =>
        \E rs \in SUBSET Removals :
            rs # {} /\ \A r \in rs : \E s \in rs \ {r} : Job(s).on = req[r].me

-----------------------------------------------------------------------------
(* The inductive invariant behind KnownWasDispatched.                      *)

\* A login on its way to the row found the address known or is past the dispatch.
PastAlert ==
    \A r \in Requests : req[r].pc \in {"lookup", "insert"} => Place(r) \in Dispatched

AccountInv == TypeOK /\ KnownWasDispatched /\ PastAlert

-----------------------------------------------------------------------------
(* The inductive invariant behind OnlyTogether.                            *)

\* Requests that were found to be an admin's, and have yet to write.
Admitted == {r \in Requests : req[r].pc \in {"find", "write"}}

\* Removals rs explain what became of the admins: whoever was admitted, or made
\* one of them, is an admin still or was removed by another of them.
Explain(rs) ==
    /\ \A r \in rs : Job(r).on # req[r].me
    /\ \A r \in rs \union Admitted : req[r].me \in Admins \/ \E s \in rs : Job(s).on = req[r].me
    /\ Admins = {} => rs # {}

AdminsInv ==
    /\ \A r \in Requests : req[r].pc # "done" => req[r].reply = "none"
    /\ \A r \in Requests : At(r, "write") /\ Op(r) # "create" => Job(r).on # req[r].me
    /\ \E rs \in SUBSET Removals : Explain(rs)

=============================================================================
