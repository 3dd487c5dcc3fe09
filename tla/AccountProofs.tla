---------------------------- MODULE AccountProofs ----------------------------
(***************************************************************************)
(* Proofs about Accounts: for any users, addresses, requests and faults,   *)
(* an address is known only after an alert for it was dispatched.          *)
(***************************************************************************)
EXTENDS Accounts, TLAPS

\* A request: where it is, what it asks, whom it acts for, what it answers.
Request == [pc: Steps, ask: Ask, me: Ids, role: Roles, reply: Reply]

\* The place of a request is a user and an address.
LEMMA PlaceTypes ==
    ASSUME TypeOK, NEW r \in Requests
    PROVE  /\ req[r] \in Request
           /\ Op(r) \in {"login", "create", "role", "delete"}
           /\ Job(r).on \in Ids /\ Job(r).name \in Names /\ Job(r).role \in Roles
           /\ Place(r) \in Ids \X Ips
           /\ known[Place(r)] \in Nat
<1>1. req[r] \in Request
  BY DEF TypeOK, Request
<1>2. Job(r) \in Ask /\ req[r].me \in Ids
  BY <1>1 DEF Request, Job
<1>3. /\ Op(r) \in {"login", "create", "role", "delete"}
      /\ Job(r).on \in Ids /\ Job(r).name \in Names /\ Job(r).role \in Roles
      /\ Job(r).ip \in Ips
  BY <1>2 DEF Ask, Op
<1> QED
  BY <1>1, <1>2, <1>3 DEF Place, TypeOK

\* The initial tables and requests have their types.
LEMMA TypeInit == Init => TypeOK
<1> SUFFICES ASSUME Init PROVE TypeOK
  OBVIOUS
<1>1. (CHOOSE n \in Names : TRUE) \in Names /\ (CHOOSE i \in Ips : TRUE) \in Ips
  BY ConstantAssumption
<1>2. NoAsk \in Ask /\ 1 \in Ids
  BY <1>1, ConstantAssumption DEF NoAsk, Ask, Ids, Roles
<1>3. req \in [Requests -> Request]
  BY <1>2 DEF Init, Request, Steps, Reply, Roles
<1> QED
  BY <1>3, ConstantAssumption DEF Init, TypeOK, Request

\* Going on and answering are moves.
LEMMA GotoMoves ==
    ASSUME TypeOK, NEW r \in Requests, NEW p \in Steps, Goto(r, p)
    PROVE  /\ req' \in [Requests -> Request]
           /\ req'[r] = [req[r] EXCEPT !.pc = p]
           /\ \A q \in Requests \ {r} : req'[q] = req[q]
<1>1. req \in [Requests -> Request]
  BY DEF TypeOK, Request
<1>2. [req[r] EXCEPT !.pc = p] \in Request
  BY <1>1 DEF Request
<1> QED
  BY <1>1, <1>2 DEF Goto

\* An answer leaves the place of the request as it is.
LEMMA CloseMoves ==
    ASSUME TypeOK, NEW r \in Requests, NEW a \in Reply, Close(r, a)
    PROVE  /\ req' \in [Requests -> Request]
           /\ req'[r].pc = "done" /\ Place(r)' = Place(r)
           /\ \A q \in Requests \ {r} : req'[q] = req[q]
<1>1. req \in [Requests -> Request]
  BY DEF TypeOK, Request
<1>2. [req[r] EXCEPT !.pc = "done", !.reply = a] \in Request
  BY <1>1 DEF Request, Steps
<1> QED
  BY <1>1, <1>2 DEF Close, Place, Job, Request

\* A step keeps the types of the users.
UsersTyped == users \in [Ids -> User] /\ \A i \in Ids : users[i].there => users[i].role \in Roles

\* No dispatch is forgotten.
DispatchGrows ==
    /\ Dispatched \subseteq Dispatched'
    /\ alerted' \subseteq Ids \X Ips /\ missed' \subseteq Ids \X Ips

\* What a step of a request must do for the invariant to be kept: it moves that
\* request only, forgets no dispatch, and neither a request nor a row gets past an
\* alert that was not dispatched.
LEMMA Keeps ==
    ASSUME AccountInv, NEW r \in Requests,
           req' \in [Requests -> Request],
           \A q \in Requests \ {r} : req'[q] = req[q],
           req'[r].pc \in {"lookup", "insert"} => Place(r)' \in Dispatched',
           DispatchGrows,
           known' \in [Ids \X Ips -> Nat],
           \A p \in Ids \X Ips : known'[p] > 0 => p \in Dispatched',
           UsersTyped'
    PROVE  AccountInv'
<1>1. TypeOK'
  BY DEF TypeOK, UsersTyped, Request, DispatchGrows
<1>2. KnownWasDispatched'
  BY DEF KnownWasDispatched
<1>3. ASSUME NEW q \in Requests, (req[q].pc)' \in {"lookup", "insert"}
      PROVE  Place(q)' \in Dispatched'
  <2>1. CASE q = r
    BY <1>3, <2>1
  <2>2. CASE q # r
    <3>1. req'[q] = req[q]
      BY <2>2
    <3>2. Place(q) \in Dispatched
      BY <1>3, <3>1 DEF AccountInv, PastAlert
    <3> QED
      BY <3>1, <3>2 DEF Place, Job, DispatchGrows
  <2> QED
    BY <2>1, <2>2
<1> QED
  BY <1>1, <1>2, <1>3 DEF AccountInv, PastAlert

\* An answer keeps the invariant, whatever it does to the users.
LEMMA Answers ==
    ASSUME AccountInv, NEW r \in Requests, NEW a \in Reply, Close(r, a),
           UNCHANGED <<known, alerted, missed>>, UsersTyped'
    PROVE  AccountInv'
<1>1. /\ req' \in [Requests -> Request] /\ req'[r].pc = "done"
      /\ \A q \in Requests \ {r} : req'[q] = req[q]
  BY CloseMoves DEF AccountInv
<1> QED
  BY <1>1, Keeps DEF AccountInv, TypeOK, KnownWasDispatched, Dispatched, DispatchGrows

\* So does going on, to the row only after the alert.
LEMMA GoesOn ==
    ASSUME AccountInv, NEW r \in Requests, NEW p \in Steps, Goto(r, p),
           UNCHANGED <<users, known>>,
           DispatchGrows,
           p \in {"lookup", "insert"} => Place(r) \in Dispatched'
    PROVE  AccountInv'
<1>1. /\ req' \in [Requests -> Request] /\ req'[r] = [req[r] EXCEPT !.pc = p]
      /\ \A q \in Requests \ {r} : req'[q] = req[q]
  BY GotoMoves DEF AccountInv
<1>2. req[r] \in Request
  BY PlaceTypes DEF AccountInv
<1>3. Place(r)' = Place(r) /\ req'[r].pc = p
  BY <1>1, <1>2 DEF Place, Job, Request
<1> QED
  BY <1>1, <1>3, Keeps DEF AccountInv, TypeOK, KnownWasDispatched, UsersTyped, Dispatched, DispatchGrows

\* Steps before the row or the address is written to.
LEMMA EarlySteps ==
    ASSUME AccountInv, NEW r \in Requests,
           \/ \E a \in Asks : Arrive(r, a)
           \/ Authenticate(r) \/ Find(r)
    PROVE  AccountInv'
<1>1. req \in [Requests -> Request] /\ UsersTyped
  BY DEF AccountInv, TypeOK, Request, UsersTyped
<1>2. CASE \E a \in Reply : Close(r, a) /\ UNCHANGED <<users, known, alerted, missed>>
  BY <1>1, <1>2, Answers DEF UsersTyped
<1>3. CASE \E p \in Steps \ {"lookup", "insert"} : Goto(r, p) /\ UNCHANGED <<users, known, alerted, missed>>
  BY <1>3, GoesOn DEF AccountInv, TypeOK, Dispatched, DispatchGrows
<1>4. ASSUME NEW new \in Request, req' = [req EXCEPT ![r] = new],
             new.pc \notin {"lookup", "insert"}, UNCHANGED <<users, known, alerted, missed>>
      PROVE  AccountInv'
  <2>1. /\ req' \in [Requests -> Request] /\ req'[r].pc \notin {"lookup", "insert"}
        /\ \A q \in Requests \ {r} : req'[q] = req[q]
    BY <1>1, <1>4
  <2> QED
    BY <1>1, <1>4, <2>1, Keeps DEF AccountInv, TypeOK, KnownWasDispatched, UsersTyped, Dispatched, DispatchGrows
<1>5. ASSUME NEW a \in Asks, Arrive(r, a) PROVE AccountInv'
  <2>1. [req[r] EXCEPT !.pc = "auth", !.ask = a] \in Request
    BY <1>1, ConstantAssumption DEF Request, Steps
  <2>2. req' = [req EXCEPT ![r] = [req[r] EXCEPT !.pc = "auth", !.ask = a]]
    BY <1>1, <1>5 DEF Arrive
  <2> QED
    BY <1>1, <1>4, <1>5, <2>1, <2>2 DEF Arrive, Request
<1>6. CASE Authenticate(r)
  <2>1. ASSUME NEW i \in Ids, NEW p \in {"known", "find"},
               req' = [req EXCEPT ![r].pc = p, ![r].me = i]
        PROVE  AccountInv'
    <3>1. [req[r] EXCEPT !.pc = p, !.me = i] \in Request
      BY <1>1 DEF Request, Steps
    <3>2. req' = [req EXCEPT ![r] = [req[r] EXCEPT !.pc = p, !.me = i]]
      BY <1>1, <2>1
    <3> QED
      BY <1>1, <1>4, <1>6, <3>1, <3>2 DEF Authenticate, Request
  <2> QED
    BY <1>2, <1>6, <2>1 DEF Authenticate, Reply, Named
<1>7. CASE Find(r)
  <2>1. CASE req' = [req EXCEPT ![r].pc = "write", ![r].role = users[Job(r).on].role]
             /\ users[Job(r).on].there
    <3> DEFINE new == [req[r] EXCEPT !.pc = "write", !.role = users[Job(r).on].role]
    <3>1. users[Job(r).on].role \in Roles
      BY <1>1, <2>1, PlaceTypes DEF AccountInv, UsersTyped
    <3>2. new \in Request
      BY <1>1, <3>1 DEF Request, Steps
    <3>3. req' = [req EXCEPT ![r] = new]
      BY <1>1, <2>1
    <3>4. new.pc = "write"
      BY <1>1 DEF Request
    <3> QED
      BY <1>4, <1>7, <3>2, <3>3, <3>4 DEF Find
  <2> QED
    BY <1>2, <1>3, <1>7, <2>1 DEF Find, Reply, Steps
<1> QED
  BY <1>5, <1>6, <1>7

\* Writing the users keeps their types, and every write is answered.
LEMMA UserSteps ==
    ASSUME AccountInv, NEW r \in Requests, CreateUser(r) \/ UpdateRole(r) \/ DeleteUser(r)
    PROVE  AccountInv'
<1>1. UsersTyped /\ Job(r).on \in Ids /\ Job(r).name \in Names /\ Job(r).role \in Roles
  BY PlaceTypes DEF AccountInv, TypeOK, UsersTyped
<1>2. /\ UNCHANGED <<known, alerted, missed>>
      /\ Close(r, "ok") \/ Close(r, "error")
  BY DEF CreateUser, UpdateRole, DeleteUser, Committed
<1>3. UsersTyped'
  <2>1. CASE UNCHANGED users
    BY <1>1, <2>1 DEF UsersTyped
  <2>2. ASSUME NEW i \in Ids,
               users' = [users EXCEPT ![i] = [there |-> TRUE, name |-> Job(r).name,
                                              role |-> Job(r).role]]
        PROVE  UsersTyped'
    BY <1>1, <2>2 DEF UsersTyped, User
  <2>3. ASSUME NEW o \in Roles, users' = [users EXCEPT ![Job(r).on].role = o]
        PROVE  UsersTyped'
    BY <1>1, <2>3 DEF UsersTyped, User
  <2>4. CASE users' = [users EXCEPT ![Job(r).on].there = FALSE]
    BY <1>1, <2>4 DEF UsersTyped, User
  <2>5. CASE CreateUser(r)
    BY <2>1, <2>2, <2>5 DEF CreateUser, NextId, Unused
  <2>6. CASE UpdateRole(r)
    <3>1. CASE users[Job(r).on].there
      <4>1. users[Job(r).on].role \in Roles
        BY <1>1, <3>1 DEF UsersTyped
      <4>2. users' = [users EXCEPT ![Job(r).on].role =
                        IF Job(r).role = req[r].role THEN users[Job(r).on].role
                                                    ELSE Job(r).role]
        BY <1>1, <2>6, <3>1 DEF UpdateRole, UsersTyped
      <4> QED
        BY <1>1, <2>3, <4>1, <4>2
    <3> QED
      BY <2>1, <2>6, <3>1 DEF UpdateRole
  <2> QED
    BY <2>1, <2>4, <2>5, <2>6 DEF DeleteUser
<1> QED
  BY <1>2, <1>3, Answers DEF Reply

\* A login alerts before it records the address, unless the address is known.
LEMMA LoginSteps ==
    ASSUME AccountInv, NEW r \in Requests,
           IsKnown(r) \/ Alert(r) \/ Lookup(r) \/ Record(r) \/ Bump(r) \/ DbFails(r)
    PROVE  AccountInv'
<1>1. /\ Place(r) \in Ids \X Ips /\ known[Place(r)] \in Nat
      /\ known \in [Ids \X Ips -> Nat] /\ UsersTyped
      /\ \A p \in Ids \X Ips : known[p] > 0 => p \in Dispatched
  BY PlaceTypes DEF AccountInv, TypeOK, UsersTyped, KnownWasDispatched
<1>0. ASSUME UNCHANGED <<alerted, missed>> PROVE DispatchGrows
  BY <1>0 DEF AccountInv, TypeOK, Dispatched, DispatchGrows
<1>2. ASSUME NEW a \in Reply, Close(r, a), UNCHANGED <<users, known, alerted, missed>>
      PROVE  AccountInv'
  BY <1>1, <1>2, Answers DEF UsersTyped
<1>3. CASE IsKnown(r)
  <2>1. known[Place(r)] = 1 => Place(r) \in Dispatched
    BY <1>1
  <2> QED
    BY <1>0, <1>1, <1>2, <1>3, <2>1, GoesOn DEF IsKnown, Reply, Steps, DispatchGrows
<1>4. CASE Alert(r)
  <2>1. DispatchGrows /\ Place(r) \in Dispatched'
    BY <1>1, <1>4 DEF Alert, AccountInv, TypeOK, Dispatched, DispatchGrows
  <2> QED
    BY <1>4, <2>1, GoesOn DEF Alert, Steps
<1>5. CASE Lookup(r)
  <2>1. Place(r) \in Dispatched
    BY <1>5 DEF AccountInv, PastAlert, Lookup, At
  <2> QED
    BY <1>0, <1>1, <1>2, <1>5, <2>1, GoesOn DEF Lookup, Reply, Steps, DispatchGrows
<1>6. CASE Record(r)
  <2>1. Place(r) \in Dispatched
    BY <1>6 DEF AccountInv, PastAlert, Record, At
  <2>2. CASE known' = [known EXCEPT ![Place(r)] = @ + 1] /\ Close(r, "ok")
    <3>1. /\ known' \in [Ids \X Ips -> Nat]
          /\ \A p \in Ids \X Ips : known'[p] > 0 => p \in Dispatched
      BY <1>1, <2>1, <2>2
    <3>2. /\ req' \in [Requests -> Request] /\ req'[r].pc = "done"
          /\ \A q \in Requests \ {r} : req'[q] = req[q]
      BY <2>2, CloseMoves DEF AccountInv, Reply
    <3> QED
      BY <1>0, <1>1, <1>6, <3>1, <3>2, Keeps DEF Record, UsersTyped, Dispatched
  <2> QED
    BY <1>2, <1>6, <2>2 DEF Record, Reply
<1> QED
  BY <1>2, <1>3, <1>4, <1>5, <1>6 DEF Bump, DbFails, Reply

\* A restart leaves the tables, and no request on its way.
LEMMA CrashStep == ASSUME AccountInv, Crash PROVE AccountInv'
<1>1. req \in [Requests -> Request]
  BY DEF AccountInv, TypeOK, Request
<1>2. /\ req' \in [Requests -> Request]
      /\ \A r \in Requests : req'[r].pc = "done" \/ req'[r] = req[r]
  BY <1>1 DEF Crash, Request, Steps, Reply
<1>3. TypeOK'
  <2>1. UsersTyped
    BY DEF AccountInv, TypeOK, UsersTyped
  <2>2. ASSUME NEW i \in Ids,
               users' = [users EXCEPT ![i] = [there |-> TRUE, name |-> FirstAdmin, role |-> "admin"]]
        PROVE  UsersTyped'
    BY <2>1, <2>2, ConstantAssumption DEF UsersTyped, User, Roles
  <2>3. UsersTyped'
    BY <2>1, <2>2 DEF Crash, Seed, NextId, Unused, UsersTyped
  <2> QED
    BY <1>2, <2>3 DEF AccountInv, TypeOK, Crash, Request, UsersTyped
<1>4. PastAlert'
  <2>1. ASSUME NEW r \in Requests, (req[r].pc)' \in {"lookup", "insert"}
        PROVE  Place(r)' \in Dispatched'
    <3>1. req'[r] = req[r] /\ Dispatched' = Dispatched
      BY <1>2, <2>1 DEF Crash, Dispatched
    <3>2. Place(r) \in Dispatched
      BY <2>1, <3>1 DEF AccountInv, PastAlert
    <3> QED
      BY <3>1, <3>2 DEF Place, Job
  <2> QED
    BY <2>1 DEF PastAlert
<1> QED
  BY <1>3, <1>4 DEF AccountInv, KnownWasDispatched, Crash, Dispatched

-----------------------------------------------------------------------------
\* The invariant holds at first, and every step keeps it.
LEMMA InvInit == Init => AccountInv
  BY TypeInit DEF Init, AccountInv, KnownWasDispatched, PastAlert

LEMMA InvStep == AccountInv /\ [Next]_vars => AccountInv'
<1> SUFFICES ASSUME AccountInv, [Next]_vars PROVE AccountInv'
  OBVIOUS
<1>1. CASE UNCHANGED vars
  BY <1>1 DEF vars, AccountInv, TypeOK, KnownWasDispatched, PastAlert, Dispatched, Place, Job
<1> QED
  BY <1>1, EarlySteps, UserSteps, LoginSteps, CrashStep DEF Next, Serve

\* Types, and where the logins are that have dispatched their alert.
THEOREM Invariance == Spec => []AccountInv
<1> QED
  BY InvInit, InvStep, PTL DEF Spec

\* An address becomes known to an account only after an alert for it was
\* dispatched for that account, to a channel or to nobody.
THEOREM DispatchedFirst == Spec => []KnownWasDispatched
<1>1. AccountInv => KnownWasDispatched
  BY DEF AccountInv
<1> QED
  BY Invariance, <1>1, PTL

-----------------------------------------------------------------------------
(* The admins.  The set of removals that explains their absence is grown by  *)
(* the request that writes, and by no other.                                 *)

\* Nobody is removed by steps that leave the admins and the removals there are,
\* and admit admins only.
LEMMA SameRemovals ==
    ASSUME AdminsInv, Admins \subseteq Admins', Removals \subseteq Removals',
           \A r \in Removals : Job(r)' = Job(r) /\ req'[r].me = req[r].me,
           \A r \in Admitted' : req'[r].me \in Admins' \/ (r \in Admitted /\ req'[r].me = req[r].me)
    PROVE  (\E rs \in SUBSET Removals : Explain(rs))'
<1>1. PICK rs \in SUBSET Removals : Explain(rs)
  BY DEF AdminsInv
<1>2. \A s \in rs : Job(s)' = Job(s) /\ req'[s].me = req[s].me
  BY <1>1
<1>3. ASSUME NEW r \in rs \union Admitted'
      PROVE  req'[r].me \in Admins' \/ \E s \in rs : Job(s)'.on = req'[r].me
  BY <1>1, <1>2, <1>3 DEF Explain
<1>4. \A r \in rs : Job(r)'.on # req'[r].me
  BY <1>1, <1>2 DEF Explain
<1>5. Admins' = {} => rs # {}
  BY <1>1 DEF Explain
<1>6. Explain(rs)'
  BY <1>3, <1>4, <1>5 DEF Explain
<1> QED
  BY <1>1, <1>6

\* A removal that takes the role from the account it names, and from no other,
\* explains that itself.
LEMMA OneMoreRemoval ==
    ASSUME AdminsInv, NEW r \in Admitted, Job(r).on # req[r].me,
           r \in Removals', Admins \ {Job(r).on} \subseteq Admins',
           Removals \subseteq Removals', Admitted' \subseteq Admitted,
           \A q \in Requests : Job(q)' = Job(q) /\ req'[q].me = req[q].me
    PROVE  (\E rs \in SUBSET Removals : Explain(rs))'
<1>1. PICK rs \in SUBSET Removals : Explain(rs)
  BY DEF AdminsInv
<1> DEFINE more == rs \union {r}
<1>2. more \subseteq Requests /\ Admitted \subseteq Requests
  BY <1>1 DEF Removals, Admitted
<1>3. ASSUME NEW q \in more \union Admitted'
      PROVE  req'[q].me \in Admins' \/ \E s \in more : Job(s)'.on = req'[q].me
  <2>1. q \in rs \union Admitted /\ q \in Requests
    BY <1>2
  <2>2. req[q].me \in Admins \/ \E s \in rs : Job(s).on = req[q].me
    BY <1>1, <2>1 DEF Explain
  <2>3. CASE req[q].me = Job(r).on
    BY <1>2, <2>1, <2>3
  <2>4. CASE req[q].me \in Admins /\ req[q].me # Job(r).on
    BY <2>1, <2>4
  <2>5. CASE \E s \in rs : Job(s).on = req[q].me
    BY <1>2, <2>1, <2>5
  <2> QED
    BY <2>2, <2>3, <2>4, <2>5
<1>4. \A q \in more : Job(q)'.on # req'[q].me
  BY <1>1, <1>2 DEF Explain
<1>5. Explain(more)'
  BY <1>3, <1>4 DEF Explain
<1>6. more \in SUBSET Removals'
  BY <1>1
<1> QED
  BY <1>5, <1>6

\* A request goes on: where it is, and the account it acts for.
LEMMA MovesOn ==
    ASSUME TypeOK, AdminsInv, NEW r \in Requests, NEW new \in Request,
           req' = [req EXCEPT ![r] = new], UNCHANGED users,
           req[r].pc # "done", new.pc # "done", new.reply = req[r].reply,
           new.pc \in {"find", "write"} =>
               \/ new.me \in Admins
               \/ r \in Admitted /\ new.me = req[r].me,
           new.pc = "write" /\ new.ask.op # "create" => new.ask.on # new.me
    PROVE  AdminsInv'
<1>1. /\ req \in [Requests -> Request] /\ req'[r] = new
      /\ \A q \in Requests \ {r} : req'[q] = req[q]
  BY DEF TypeOK, Request
<1>2. Admins' = Admins
  BY DEF Admins
<1>3. /\ \A q \in Requests : req'[q].pc # "done" => req'[q].reply = "none"
      /\ \A q \in Requests : At(q, "write")' /\ Op(q)' # "create" => Job(q)'.on # req'[q].me
  BY <1>1 DEF AdminsInv, At, Op, Job
<1>4. r \notin Removals
  BY DEF AdminsInv, Removals
<1>5. /\ Removals \subseteq Removals'
      /\ \A q \in Removals : Job(q)' = Job(q) /\ req'[q].me = req[q].me
  BY <1>1, <1>4 DEF Removals, Op, Job
<1>6. \A q \in Admitted' : req'[q].me \in Admins' \/ (q \in Admitted /\ req'[q].me = req[q].me)
  BY <1>1, <1>2 DEF Admitted
<1>7. (\E rs \in SUBSET Removals : Explain(rs))'
  BY <1>2, <1>5, <1>6, SameRemovals
<1> QED
  BY <1>3, <1>7 DEF AdminsInv

\* What an answer does: it is the last thing the request does.
LEMMA Closed ==
    ASSUME TypeOK, AdminsInv, NEW r \in Requests, NEW a \in Reply, Close(r, a), req[r].pc # "done"
    PROVE  /\ \A q \in Requests : req'[q].pc # "done" => req'[q].reply = "none"
           /\ \A q \in Requests : At(q, "write")' /\ Op(q)' # "create" => Job(q)'.on # req'[q].me
           /\ \A q \in Requests : Job(q)' = Job(q) /\ req'[q].me = req[q].me
           /\ Removals \subseteq Removals' /\ Admitted' \subseteq Admitted
           /\ req'[r].reply = a
<1>1. req \in [Requests -> Request]
  BY DEF TypeOK, Request
<1>2. /\ req'[r] = [req[r] EXCEPT !.pc = "done", !.reply = a]
      /\ \A q \in Requests \ {r} : req'[q] = req[q]
  BY <1>1 DEF Close
<1>3. /\ req'[r].pc = "done" /\ req'[r].reply = a
      /\ req'[r].ask = req[r].ask /\ req'[r].me = req[r].me
  BY <1>1, <1>2 DEF Request
<1>4. \A q \in Requests : Job(q)' = Job(q) /\ req'[q].me = req[q].me
  BY <1>2, <1>3 DEF Job
<1>5. req[r].reply = "none"
  BY DEF AdminsInv
<1>6. Removals \subseteq Removals'
  BY <1>2, <1>4, <1>5 DEF Removals, Op
<1>7. Admitted' \subseteq Admitted
  BY <1>2, <1>3 DEF Admitted
<1>8. \A q \in Requests : req'[q].pc # "done" => req'[q].reply = "none"
  BY <1>2, <1>3 DEF AdminsInv
<1>9. \A q \in Requests : At(q, "write")' /\ Op(q)' # "create" => Job(q)'.on # req'[q].me
  BY <1>2, <1>3, <1>4 DEF AdminsInv, At, Op
<1> QED
  BY <1>3, <1>4, <1>6, <1>7, <1>8, <1>9

\* An answer that takes nobody's role.
LEMMA Harmless ==
    ASSUME TypeOK, AdminsInv, NEW r \in Requests, NEW a \in Reply, Close(r, a), req[r].pc # "done",
           Admins \subseteq Admins'
    PROVE  AdminsInv'
<1>1. \A q \in Admitted' : q \in Admitted /\ req'[q].me = req[q].me
  BY Closed DEF Admitted
<1>2. \A q \in Removals : Job(q)' = Job(q) /\ req'[q].me = req[q].me
  BY Closed DEF Removals
<1>3. (\E rs \in SUBSET Removals : Explain(rs))'
  BY <1>1, <1>2, Closed, SameRemovals
<1> QED
  BY <1>3, Closed DEF AdminsInv

\* One that takes another's.
LEMMA Removes ==
    ASSUME TypeOK, AdminsInv, NEW r \in Requests, NEW a \in {"ok", "error"}, Close(r, a), At(r, "write"),
           Op(r) = "delete" \/ (Op(r) = "role" /\ Job(r).role # "admin"),
           Admins \ {Job(r).on} \subseteq Admins'
    PROVE  AdminsInv'
<1>1. r \in Admitted /\ req[r].pc # "done" /\ Job(r).on # req[r].me
  BY DEF At, Admitted, AdminsInv
<1>2. a \in Reply
  BY DEF Reply
<1>3. r \in Removals'
  <2>1. Job(r)' = Job(r) /\ req'[r].reply = a
    BY <1>1, <1>2, Closed
  <2> QED
    BY <2>1 DEF Removals, Op
<1>4. (\E rs \in SUBSET Removals : Explain(rs))'
  BY <1>1, <1>2, <1>3, Closed, OneMoreRemoval
<1> QED
  BY <1>1, <1>2, <1>4, Closed DEF AdminsInv

\* A step of a request keeps it.
LEMMA AdminsServe == ASSUME AccountInv, AdminsInv, NEW r \in Requests, Serve(r) PROVE AdminsInv'
<1>1. /\ req[r] \in Request /\ req \in [Requests -> Request] /\ users \in [Ids -> User]
      /\ Job(r).on \in Ids /\ Job(r).role \in Roles /\ TypeOK
  BY PlaceTypes DEF AccountInv, TypeOK, Request
<1>2. ASSUME NEW a \in Reply, Close(r, a), req[r].pc # "done", UNCHANGED users PROVE AdminsInv'
  BY <1>1, <1>2, Harmless DEF Admins
<1>3. ASSUME NEW p \in Steps \ {"find", "write", "done"}, Goto(r, p), req[r].pc # "done", UNCHANGED users
      PROVE  AdminsInv'
  <2>1. [req[r] EXCEPT !.pc = p] \in Request
    BY <1>1 DEF Request
  <2>2. req' = [req EXCEPT ![r] = [req[r] EXCEPT !.pc = p]]
    BY <1>1, <1>3 DEF Goto
  <2> QED
    BY <1>1, <1>3, <2>1, <2>2, MovesOn DEF Request
<1>4. CASE Authenticate(r)
  <2>1. ASSUME NEW i \in Ids, NEW p \in {"known", "find"}, p = "find" => i \in Admins,
               req' = [req EXCEPT ![r].pc = p, ![r].me = i]
        PROVE  AdminsInv'
    <3> DEFINE new == [req[r] EXCEPT !.pc = p, !.me = i]
    <3>1. new \in Request /\ new.pc = p /\ new.me = i /\ new.reply = req[r].reply
      BY <1>1 DEF Request, Steps
    <3>2. req' = [req EXCEPT ![r] = new]
      BY <1>1, <2>1
    <3>3. req[r].pc = "auth" /\ UNCHANGED users
      BY <1>4 DEF Authenticate, At
    <3> QED
      BY <1>1, <2>1, <3>1, <3>2, <3>3, MovesOn
  <2>2. \A i \in Named(Job(r).by) : i \in Ids /\ (users[i].role = "admin" => i \in Admins)
    BY DEF Named, Admins
  <2>3. \/ Close(r, "unauthorized") \/ Close(r, "forbidden")
        \/ \E i \in Ids : req' = [req EXCEPT ![r].pc = "known", ![r].me = i]
        \/ \E i \in Admins : req' = [req EXCEPT ![r].pc = "find", ![r].me = i]
    <3>1. CASE Named(Job(r).by) = {}
      BY <1>4, <3>1 DEF Authenticate
    <3>2. CASE Named(Job(r).by) # {}
      <4>1. PICK i \in Named(Job(r).by) :
               IF Op(r) = "login"
                 THEN req' = [req EXCEPT ![r].pc = "known", ![r].me = i]
               ELSE IF users[i].role # "admin" THEN Close(r, "forbidden")
               ELSE req' = [req EXCEPT ![r].pc = "find", ![r].me = i]
        BY <1>4, <3>2 DEF Authenticate
      <4> QED
        BY <2>2, <4>1
    <3> QED
      BY <3>1, <3>2
  <2>4. req[r].pc # "done" /\ UNCHANGED users
    BY <1>4 DEF Authenticate, At
  <2>5. Admins \subseteq Ids
    BY DEF Admins
  <2> QED
    BY <1>2, <2>1, <2>3, <2>4, <2>5 DEF Reply
<1>5. CASE Find(r)
  <2>1. CASE Op(r) = "create" /\ Goto(r, "write")
    <3> DEFINE new == [req[r] EXCEPT !.pc = "write"]
    <3>1. /\ new \in Request /\ new.pc = "write" /\ new.me = req[r].me
          /\ new.reply = req[r].reply /\ new.ask = req[r].ask
      BY <1>1 DEF Request, Steps
    <3>2. req' = [req EXCEPT ![r] = new]
      BY <1>1, <2>1 DEF Goto
    <3> QED
      BY <1>1, <1>5, <2>1, <3>1, <3>2, MovesOn DEF Find, At, Admitted, Op, Job
  <2>2. CASE /\ Job(r).on # req[r].me /\ users[Job(r).on].there
             /\ req' = [req EXCEPT ![r].pc = "write", ![r].role = users[Job(r).on].role]
    <3> DEFINE new == [req[r] EXCEPT !.pc = "write", !.role = users[Job(r).on].role]
    <3>1. users[Job(r).on].role \in Roles
      BY <1>1, <2>2 DEF TypeOK
    <3>2. /\ new \in Request /\ new.pc = "write" /\ new.me = req[r].me
          /\ new.reply = req[r].reply /\ new.ask = req[r].ask
      BY <1>1, <3>1 DEF Request, Steps
    <3>3. req' = [req EXCEPT ![r] = new]
      BY <1>1, <2>2
    <3> QED
      BY <1>1, <1>5, <2>2, <3>2, <3>3, MovesOn DEF Find, At, Admitted, Job
  <2> QED
    BY <1>2, <1>5, <2>1, <2>2 DEF Find, Reply, At
<1>6. CASE CreateUser(r)
  <2>1. ASSUME NEW i \in Unused,
               users' = [users EXCEPT ![i] = [there |-> TRUE, name |-> Job(r).name,
                                              role |-> Job(r).role]]
        PROVE  Admins \subseteq Admins'
    <3>1. i \in Ids /\ users[i] = NoUser
      BY <1>1, ConstantAssumption DEF Unused, Ids
    <3>2. i \notin Admins
      BY <3>1 DEF Admins, NoUser
    <3> QED
      BY <1>1, <2>1, <3>2 DEF Admins
  <2> QED
    BY <1>1, <1>2, <1>6, <2>1, Harmless DEF CreateUser, NextId, Committed, Reply, At
<1>7. CASE UpdateRole(r)
  <2>1. CASE users[Job(r).on].there
    <3>1. Committed(r) /\ req[r].pc = "write" /\ Op(r) = "role"
      BY <1>7, <2>1 DEF UpdateRole, At
    <3>2. PICK o \in {users[Job(r).on].role, Job(r).role} : users' = [users EXCEPT ![Job(r).on].role = o]
      BY <1>1, <1>7, <2>1 DEF UpdateRole
    <3>3. Admins \ {Job(r).on} \subseteq Admins'
      BY <1>1, <3>2 DEF Admins
    <3>4. CASE Job(r).role = "admin"
      <4>1. Job(r).on \in Admins => o = "admin"
        BY <3>2, <3>4 DEF Admins
      <4>2. Admins \subseteq Admins'
        BY <1>1, <2>1, <3>2, <3>3, <4>1 DEF Admins, User
      <4> QED
        BY <1>1, <3>1, <4>2, Harmless DEF Committed, Reply
    <3> QED
      BY <1>1, <3>1, <3>3, <3>4, Removes DEF Committed, At
  <2> QED
    BY <1>2, <1>7, <2>1 DEF UpdateRole, Reply, At
<1>8. CASE DeleteUser(r)
  <2>1. CASE users' = [users EXCEPT ![Job(r).on].there = FALSE] /\ Close(r, "ok")
    <3>1. Admins \ {Job(r).on} \subseteq Admins'
      BY <1>1, <2>1 DEF Admins
    <3> QED
      BY <1>1, <1>8, <2>1, <3>1, Removes DEF DeleteUser
  <2> QED
    BY <1>2, <1>8, <2>1 DEF DeleteUser, Reply, At
<1>9. CASE IsKnown(r) \/ Alert(r) \/ Lookup(r) \/ Record(r) \/ Bump(r) \/ DbFails(r)
  BY <1>2, <1>3, <1>9
     DEF IsKnown, Alert, Lookup, Record, Bump, DbFails, Active, Reply, Steps, At
<1> QED
  BY <1>4, <1>5, <1>6, <1>7, <1>8, <1>9 DEF Serve

\* So does every other step.
LEMMA AdminsStep == AccountInv /\ AdminsInv /\ [Next]_vars => AdminsInv'
<1> SUFFICES ASSUME AccountInv, AdminsInv, [Next]_vars PROVE AdminsInv'
  OBVIOUS
<1>1. TypeOK /\ req \in [Requests -> Request]
  BY DEF AccountInv, TypeOK, Request
<1>2. CASE UNCHANGED vars
  BY <1>2 DEF vars, AdminsInv, Explain, Removals, Admitted, Admins, Op, Job, At
<1>3. ASSUME NEW r \in Requests, NEW a \in Asks, Arrive(r, a) PROVE AdminsInv'
  <2> DEFINE new == [req[r] EXCEPT !.pc = "auth", !.ask = a]
  <2>1. new \in Request /\ new.pc = "auth" /\ new.reply = req[r].reply
    BY <1>1, ConstantAssumption DEF Request, Steps
  <2>2. req' = [req EXCEPT ![r] = new]
    BY <1>1, <1>3 DEF Arrive
  <2> QED
    BY <1>1, <1>3, <2>1, <2>2, MovesOn DEF Arrive, At
<1>4. CASE Crash
  <2>1. \A r \in Requests : \/ req[r].pc # "done" /\ req'[r] = [req[r] EXCEPT !.pc = "done", !.reply = "lost"]
                            \/ req'[r] = req[r]
    BY <1>4 DEF Crash, Active
  <2>2. \A r \in Requests : /\ Job(r)' = Job(r) /\ req'[r].me = req[r].me
                            /\ req'[r] = req[r] \/ (req[r].pc # "done" /\ req'[r].pc = "done")
    BY <1>1, <2>1 DEF Job, Request
  <2>3. Admins \subseteq Admins'
    <3>1. CASE \E i \in Ids : users[i].there
      BY <1>4, <3>1 DEF Crash, Seed, Admins
    <3>2. CASE ~\E i \in Ids : users[i].there
      BY <3>2 DEF Admins
    <3> QED
      BY <3>1, <3>2
  <2>4. Removals \subseteq Removals' /\ Removals \subseteq Requests
    BY <2>2 DEF Removals, Op, AdminsInv
  <2>5. \A r \in Admitted' : r \in Admitted /\ req'[r].me = req[r].me
    BY <2>2 DEF Admitted
  <2>6. (\E rs \in SUBSET Removals : Explain(rs))'
    BY <2>2, <2>3, <2>4, <2>5, SameRemovals
  <2>7. \A q \in Requests : req'[q].pc # "done" => req'[q].reply = "none"
    BY <2>2 DEF AdminsInv
  <2>8. \A q \in Requests : At(q, "write")' /\ Op(q)' # "create" => Job(q)'.on # req'[q].me
    BY <2>2 DEF AdminsInv, At, Op
  <2> QED
    BY <2>6, <2>7, <2>8 DEF AdminsInv
<1> QED
  BY <1>2, <1>3, <1>4, AdminsServe DEF Next

\* At first there is an admin, and nobody was removed.
LEMMA AdminsInit == Init => AdminsInv
<1> SUFFICES ASSUME Init PROVE AdminsInv
  OBVIOUS
<1>1. \A r \in Requests : req[r].pc = "idle" /\ req[r].reply = "none"
  BY DEF Init
<1>2. Admins # {}
  BY ConstantAssumption DEF Init, Admins
<1>3. Explain({})
  BY <1>1, <1>2 DEF Explain, Admitted
<1> QED
  BY <1>1, <1>3 DEF AdminsInv, At

\* No request that acts alone, whatever it asks and however others overlap it,
\* leaves the system without an admin: those who are gone removed each other.
THEOREM AdminsGoTogether == Spec => []OnlyTogether
<1>1. AdminsInv => OnlyTogether
  <2> SUFFICES ASSUME AdminsInv, Admins = {}
               PROVE  \E rs \in SUBSET Removals :
                         rs # {} /\ \A r \in rs : \E s \in rs \ {r} : Job(s).on = req[r].me
    BY DEF OnlyTogether
  <2>1. PICK rs \in SUBSET Removals : Explain(rs)
    BY DEF AdminsInv
  <2>2. rs # {}
    BY <2>1 DEF Explain
  <2>3. ASSUME NEW r \in rs PROVE \E s \in rs \ {r} : Job(s).on = req[r].me
    BY <2>1 DEF Explain
  <2> QED
    BY <2>1, <2>2, <2>3
<1>2. Spec => []AdminsInv
  BY AdminsInit, AdminsStep, Invariance, PTL DEF Spec
<1> QED
  BY <1>1, <1>2, PTL
==============================================================================
