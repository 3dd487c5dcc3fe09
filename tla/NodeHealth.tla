----------------------------- MODULE NodeHealth -----------------------------
(***************************************************************************)
(* The nodes: the health poller (poll_health_forever), the requests that   *)
(* read a node's health, test it under load or power it off, and the SSH   *)
(* threads that all of them share.                                         *)
(*                                                                         *)
(* A sweep checks every node at once.  Its checks are tasks that share one *)
(* database session: while one of them commits, another that wants to is   *)
(* refused, and what it raises is dropped by asyncio.gather.  A request    *)
(* has a session of its own, with the rows as they were when it began.     *)
(*                                                                         *)
(* The backend runs on the control node and stops with it.                 *)
(***************************************************************************)
EXTENDS Naturals, Sequences, FiniteSets

CONSTANTS
    Nodes,
    Control,      \* the node the backend runs on
    Sweep,        \* the background task, an owner of checks like a request
    Requests,     \* request slots, each used once
    Asks,         \* what may be requested, a subset of Ask
    PoolSize,     \* threads for SSH commands
    Troubles,     \* what may happen: "node", "ssh", "db"
    MaxTroubles   \* bound on how often it does

VARIABLES
    up,           \* the nodes that answer
    status,       \* the nodes table
    cache,        \* node:<id>:health in Redis
    queue,        \* commands that wait for a thread: <<owner, node>>
    task,         \* what <<owner, node>> is at
    owner,        \* the sweep and the requests
    troubles      \* how much has gone wrong

vars == <<up, status, cache, queue, task, owner, troubles>>

Owners == {Sweep} \union Requests
Tasks  == Owners \X Nodes
Found  == {"ONLINE", "OFFLINE"}
Status == Found \union {"UNKNOWN"}
Ops    == {"sweep", "health", "stress", "reboot", "shutdown"}
Ask    == [op: Ops \ {"sweep"}, on: SUBSET Nodes]

\* seen: the session's rows; todo: nodes yet to be seen to; lost: nodes whose
\* status was set and not committed; wrote: another's was; broken: the session
\* was rolled back, so that whoever touches its rows again raises.
Owner  == [op: Ops, pc: {"idle", "busy", "done"}, seen: [Nodes -> Status],
           todo: SUBSET Nodes, lost: SUBSET Nodes, wrote: BOOLEAN, broken: BOOLEAN]
TaskPc == {"none", "queued", "running", "found", "commit", "refresh", "cache"}

ASSUME ConstantAssumption ==
    /\ Control \in Nodes /\ IsFiniteSet(Nodes) /\ Sweep \notin Requests
    /\ PoolSize \in Nat \ {0} /\ MaxTroubles \in Nat
    /\ Asks \subseteq Ask

TypeOK ==
    /\ up \subseteq Nodes
    /\ status \in [Nodes -> Status]
    /\ cache \in [Nodes -> Found \union {"none"}]
    /\ queue \in Seq(Tasks)
    /\ task \in [Tasks -> [pc: TaskPc, found: Found]]
    /\ owner \in [Owners -> Owner]
    /\ troubles \in 0 .. MaxTroubles

-----------------------------------------------------------------------------
At(o, n, p)  == task[<<o, n>>].pc = p
Busy(o)      == owner[o].pc = "busy"
Quiet(o)     == \A n \in Nodes : At(o, n, "none")
Checks(o)    == owner[o].op \in {"sweep", "health"}
Truth(n)     == IF n \in up THEN "ONLINE" ELSE "OFFLINE"
Workers      == Nodes \ {Control}
Alive        == Control \in up
Threads      == {t \in Tasks : task[t].pc = "running"}

Idle     == [op |-> "health", pc |-> "idle", seen |-> [n \in Nodes |-> "UNKNOWN"],
             todo |-> {}, lost |-> {}, wrote |-> FALSE, broken |-> FALSE]
AsTask(p) == [pc |-> p, found |-> "OFFLINE"]
Move(o, n, p) == task' = [task EXCEPT ![<<o, n>>].pc = p]
Leave(o, n)   == task' = [task EXCEPT ![<<o, n>>] = AsTask("none")]

Init ==
    /\ up = Nodes
    /\ status = [n \in Nodes |-> "UNKNOWN"]
    /\ cache = [n \in Nodes |-> "none"]
    /\ queue = <<>>
    /\ task = [t \in Tasks |-> AsTask("none")]
    /\ owner = [o \in Owners |-> Idle]
    /\ troubles = 0

Trouble(what) ==
    what \in Troubles /\ troubles < MaxTroubles /\ troubles' = troubles + 1

\* The orders in which the nodes of a set can be gone through.
Orders(ns) == {q \in [1 .. Cardinality(ns) -> ns] : \A i, j \in DOMAIN q : q[i] = q[j] => i = j}

\* Commands for the nodes are handed to the pool.
Submit(o, ns) ==
    /\ \E q \in Orders(ns) : queue' = queue \o [i \in DOMAIN q |-> <<o, q[i]>>]
    /\ task' = [t \in Tasks |-> IF t[1] = o /\ t[2] \in ns THEN AsTask("queued") ELSE task[t]]

-----------------------------------------------------------------------------
(* The sweep.                                                              *)

SweepBegin ==
    /\ Alive /\ ~Busy(Sweep)
    /\ owner' = [owner EXCEPT ![Sweep] = [Idle EXCEPT !.op = "sweep", !.pc = "busy", !.seen = status]]
    /\ Submit(Sweep, Nodes)
    /\ UNCHANGED <<up, status, cache, troubles>>

\* gather has all results and exceptions, and the session is closed: what was
\* set and not committed is gone.
SweepEnd ==
    /\ Alive /\ Busy(Sweep) /\ Quiet(Sweep)
    /\ owner' = [owner EXCEPT ![Sweep] = Idle]
    /\ UNCHANGED <<up, status, cache, queue, task, troubles>>

-----------------------------------------------------------------------------
(* The requests.                                                           *)

\* The request reads the nodes it is about.
Arrive(r, a) ==
    /\ Alive /\ owner[r].pc = "idle"
    /\ owner' = [owner EXCEPT ![r] = [Idle EXCEPT !.op = a.op, !.pc = "busy", !.todo = a.on,
                              !.seen = IF a.op = "health" THEN status ELSE @]]
    /\ UNCHANGED <<up, status, cache, queue, task, troubles>>

\* get_or_check, one node after the other.
GetOrCheck(r, n) ==
    /\ Alive /\ Busy(r) /\ Quiet(r) /\ owner[r].op = "health" /\ n \in owner[r].todo
    /\ owner' = [owner EXCEPT ![r].todo = @ \ {n}]
    /\ IF cache[n] # "none" THEN UNCHANGED <<queue, task>> ELSE Submit(r, {n})
    /\ UNCHANGED <<up, status, cache, troubles>>

\* Mutant of Batch: the control node is not kept for last.
BatchOfAll(r) == owner[r].todo

\* The nodes that are commanded at once.
Batch(r) ==
    IF owner[r].op = "shutdown" /\ owner[r].todo # {Control} THEN owner[r].todo \cap Workers
                                                             ELSE owner[r].todo

\* The stress test, restarts and shutdowns: the next batch, when the one before
\* has been answered.
Command(r) ==
    /\ Alive /\ Busy(r) /\ Quiet(r) /\ ~Checks(r) /\ owner[r].todo # {}
    /\ owner' = [owner EXCEPT ![r].todo = @ \ Batch(r)]
    /\ Submit(r, Batch(r))
    /\ UNCHANGED <<up, status, cache, troubles>>

Answer(r) ==
    /\ Alive /\ Busy(r) /\ Quiet(r) /\ owner[r].todo = {}
    /\ owner' = [owner EXCEPT ![r] = [Idle EXCEPT !.pc = "done"]]
    /\ UNCHANGED <<up, status, cache, queue, task, troubles>>

-----------------------------------------------------------------------------
(* The threads.                                                            *)

\* Mutant of Start: a thread for every command.
StartUnbounded ==
    /\ Alive /\ queue # <<>>
    /\ queue' = Tail(queue)
    /\ task' = [task EXCEPT ![Head(queue)].pc = "running"]
    /\ UNCHANGED <<up, status, cache, owner, troubles>>

Start ==
    /\ Alive /\ queue # <<>> /\ Cardinality(Threads) < PoolSize
    /\ queue' = Tail(queue)
    /\ task' = [task EXCEPT ![Head(queue)].pc = "running"]
    /\ UNCHANGED <<up, status, cache, owner, troubles>>

\* Mutant of MetricsEnd: without a timeout a node that is down is waited for.
MetricsEndUntimed(o, n) ==
    /\ Alive /\ At(o, n, "running") /\ Checks(o) /\ n \in up
    /\ task' = [task EXCEPT ![<<o, n>>] = [pc |-> "found", found |-> "ONLINE"]]
    /\ UNCHANGED <<up, status, cache, queue, owner, troubles>>

\* The metrics are there, or an error or a timeout is.
MetricsEnd(o, n) ==
    /\ Alive /\ At(o, n, "running") /\ Checks(o)
    /\ \/ /\ task' = [task EXCEPT ![<<o, n>>] = [pc |-> "found", found |-> Truth(n)]]
          /\ UNCHANGED troubles
       \/ /\ Trouble("ssh")
          /\ task' = [task EXCEPT ![<<o, n>>] = [pc |-> "found", found |-> "OFFLINE"]]
    /\ UNCHANGED <<up, status, cache, queue, owner>>

\* With the control node the backend stops, and its tasks with it.
Down(n) ==
    /\ up' = up \ {n}
    /\ IF n = Control
         THEN /\ queue' = <<>>
              /\ task' = [t \in Tasks |-> AsTask("none")]
              /\ owner' = [o \in Owners |->
                             IF o = Sweep \/ Busy(o)
                               THEN [Idle EXCEPT !.pc = IF o = Sweep THEN "idle" ELSE "done"]
                               ELSE owner[o]]
         ELSE UNCHANGED <<queue, owner>>

\* A stress test, or a command to a node that does not answer.
CommandEnd(o, n) ==
    /\ Alive /\ At(o, n, "running") /\ ~Checks(o)
    /\ \/ owner[o].op = "stress" /\ UNCHANGED troubles
       \/ n \notin up /\ UNCHANGED troubles
       \/ Trouble("ssh")
    /\ Leave(o, n)
    /\ UNCHANGED <<up, status, cache, queue, owner>>

\* reboot and shutdown take effect.
PowerOff(o, n) ==
    /\ Alive /\ At(o, n, "running") /\ owner[o].op \in {"reboot", "shutdown"} /\ n \in up
    /\ Down(n)
    /\ n # Control => Leave(o, n)
    /\ UNCHANGED <<status, cache, troubles>>

-----------------------------------------------------------------------------
(* What a check does with its result.                                      *)

Committing(o, n) == \E m \in Nodes \ {n} : At(o, m, "commit")
Refreshing(o, n) == \E m \in Nodes \ {n} : At(o, m, "refresh")

\* The session is rolled back: what was set is gone, and a request is over.
Rollback(o, n) ==
    /\ Leave(o, n)
    /\ owner' = [owner EXCEPT ![o].broken = TRUE, ![o].todo = {}, ![o].lost = {}]

\* Set on the session's row and refused the commit.  A session that is busy
\* reading may be rolled back by the attempt.
Lose(o, n) ==
    /\ Leave(o, n)
    /\ \E b \in {owner[o].broken, owner[o].broken \/ ~Committing(o, n)} :
          owner' = [owner EXCEPT ![o].seen[n] = task[<<o, n>>].found, ![o].lost = @ \union {n},
                                 ![o].broken = b]

\* Mutant of Compare: what has not changed is not cached.
CompareUnchanged(o, n) ==
    /\ Alive /\ At(o, n, "found")
    /\ IF owner[o].seen[n] = task[<<o, n>>].found
         THEN Leave(o, n) /\ UNCHANGED owner
         ELSE /\ ~Committing(o, n)
              /\ Move(o, n, "commit")
              /\ owner' = [owner EXCEPT ![o].seen[n] = task[<<o, n>>].found]
    /\ UNCHANGED <<up, status, cache, queue, troubles>>

Compare(o, n) ==
    /\ Alive /\ At(o, n, "found")
    /\ \/ owner[o].broken /\ Leave(o, n) /\ UNCHANGED owner
       \/ /\ owner[o].seen[n] = task[<<o, n>>].found
          /\ Move(o, n, "cache") /\ UNCHANGED owner
       \/ /\ owner[o].seen[n] # task[<<o, n>>].found
          /\ \/ (Committing(o, n) \/ Refreshing(o, n)) /\ Lose(o, n)
             \/ /\ ~Committing(o, n)
                /\ Move(o, n, "commit")
                /\ owner' = [owner EXCEPT ![o].seen[n] = task[<<o, n>>].found]
    /\ UNCHANGED <<up, status, cache, queue, troubles>>

\* Mutant of Commit: a commit that another check ran into fails with it.
CommitTogether(o, n) ==
    /\ Alive /\ At(o, n, "commit")
    /\ IF owner[o].lost # {}
         THEN Leave(o, n) /\ UNCHANGED <<status, owner>>
         ELSE /\ status' = [status EXCEPT ![n] = owner[o].seen[n]]
              /\ owner' = [owner EXCEPT ![o].wrote = TRUE]
              /\ Move(o, n, "refresh")
    /\ UNCHANGED <<up, cache, queue, troubles>>

\* The commit flushes what was set on the session's rows so far: its own row,
\* and those of checks that were refused if they were set early enough.
Commit(o, n) ==
    /\ Alive /\ At(o, n, "commit")
    /\ \/ /\ \E ns \in SUBSET owner[o].lost :
              /\ status' = [m \in Nodes |-> IF m = n \/ m \in ns THEN owner[o].seen[m]
                                                             ELSE status[m]]
              /\ owner' = [owner EXCEPT ![o].wrote = TRUE, ![o].lost = @ \ ns]
          /\ Move(o, n, "refresh")
       \/ owner[o].broken /\ Rollback(o, n) /\ UNCHANGED status
    /\ UNCHANGED <<up, cache, queue, troubles>>

\* The row is read again, unless another check commits or has rolled back.
Refresh(o, n) ==
    /\ Alive /\ At(o, n, "refresh")
    /\ \/ Move(o, n, "cache")
       \/ (Committing(o, n) \/ owner[o].broken) /\ Leave(o, n)
    /\ UNCHANGED <<up, status, cache, queue, owner, troubles>>

Cache(o, n) ==
    /\ Alive /\ At(o, n, "cache")
    /\ Leave(o, n)
    /\ cache' = [cache EXCEPT ![n] = task[<<o, n>>].found]
    /\ UNCHANGED <<up, status, queue, owner, troubles>>

DbFails(o, n) ==
    /\ Alive /\ task[<<o, n>>].pc \in {"commit", "refresh"}
    /\ Trouble("db")
    /\ Rollback(o, n)
    /\ UNCHANGED <<up, status, cache, queue>>

-----------------------------------------------------------------------------
(* The nodes, Redis and the administrators.                                *)

NodeFails(n) ==
    /\ n \in up /\ Trouble("node")
    /\ Down(n)
    /\ n # Control => UNCHANGED task
    /\ UNCHANGED <<status, cache>>

\* A node comes up; with the control node the backend starts again.
NodeComesUp(n) ==
    /\ n \notin up
    /\ up' = up \union {n}
    /\ UNCHANGED <<status, cache, queue, task, owner, troubles>>

Expire(n) ==
    /\ cache[n] # "none"
    /\ cache' = [cache EXCEPT ![n] = "none"]
    /\ UNCHANGED <<up, status, queue, task, owner, troubles>>

-----------------------------------------------------------------------------
Serve(r) ==
    \/ \E a \in Asks : Arrive(r, a)
    \/ \E n \in Nodes : GetOrCheck(r, n)
    \/ Command(r) \/ Answer(r)

Work(o, n) ==
    \/ MetricsEnd(o, n) \/ CommandEnd(o, n) \/ PowerOff(o, n)
    \/ Compare(o, n) \/ Commit(o, n) \/ Refresh(o, n) \/ Cache(o, n)

Next ==
    \/ SweepBegin \/ SweepEnd
    \/ \E r \in Requests : Serve(r)
    \/ Start
    \/ \E o \in Owners, n \in Nodes : Work(o, n) \/ DbFails(o, n)
    \/ \E n \in Nodes : NodeFails(n) \/ NodeComesUp(n) \/ Expire(n)

\* The poller and the threads go on; nothing is assumed of requests and nodes.
Fairness ==
    /\ WF_vars(SweepBegin) /\ WF_vars(SweepEnd) /\ WF_vars(Start)
    /\ \A o \in Owners, n \in Nodes : WF_vars(Work(o, n))

Spec == Init /\ [][Next]_vars /\ Fairness

-----------------------------------------------------------------------------
(* What holds.                                                             *)

\* Checks of one sweep get in each other's way, but one of them gets through:
\* as long as a result is lost, another was committed or is about to be.
OneGetsThrough ==
    owner[Sweep].lost # {} => owner[Sweep].wrote \/ \E n \in Nodes : At(Sweep, n, "commit")

\* shutdown_all_nodes takes the control node, and with it the backend, only
\* when none of its commands to the workers is waiting or running.
WorkersFirst ==
    [][\A r \in Requests :
          owner[r].op = "shutdown" /\ At(r, Control, "running") /\ Control \in up \ up' =>
              \A n \in Workers : At(r, n, "none") /\ n \notin owner[r].todo]_vars

\* When the nodes have settled the table comes to say which are up, however
\* sweeps, requests with older rows, and commands that hold threads overlap.
Converges == <>[](Alive => \A n \in Nodes : status[n] = Truth(n))

\* So does the cache, although a check that is refused leaves the entry of the
\* one before.
CacheConverges == <>[](Alive => \A n \in Nodes : cache[n] \in {"none", Truth(n)})

-----------------------------------------------------------------------------
(* The inductive invariant behind these.                                   *)

\* The queue has the tasks that wait, each once.
QueueMatches ==
    /\ \A i, j \in DOMAIN queue : queue[i] = queue[j] => i = j
    /\ {queue[i] : i \in DOMAIN queue} = {t \in Tasks : task[t].pc = "queued"}

\* A session commits for one check at a time, and a request has one check.
OneCommit ==
    /\ \A o \in Owners, m, n \in Nodes : At(o, m, "commit") /\ At(o, n, "commit") => m = n
    /\ \A r \in Requests : owner[r].lost = {}

\* Who runs commands has nothing of a check, and what is read again was written.
OneCheck ==
    /\ \A o \in Owners, n \in Nodes :
          task[<<o, n>>].pc \in {"found", "commit", "refresh", "cache"} => Checks(o)
    /\ \A r \in Requests, m, n \in Nodes :
          Checks(r) /\ ~At(r, m, "none") /\ ~At(r, n, "none") => m = n
    /\ \A n \in Nodes : At(Sweep, n, "refresh") => owner[Sweep].wrote

\* Nobody has tasks who does not wait for them, and nobody does without a backend.
Tended ==
    /\ \A o \in Owners : ~Busy(o) => Quiet(o)
    /\ ~Alive => \A o \in Owners : ~Busy(o)

\* A shutdown that has come to the control node is through with the workers.
ControlLast ==
    \A r \in Requests :
        owner[r].op = "shutdown" /\ ~At(r, Control, "none") =>
            \A n \in Workers : At(r, n, "none") /\ n \notin owner[r].todo

\* The commands that run have a thread each.
Pooled == IsFiniteSet(Threads) /\ Cardinality(Threads) <= PoolSize

NodesInv == /\ TypeOK /\ QueueMatches /\ Pooled /\ OneCommit /\ OneCheck /\ Tended
            /\ OneGetsThrough /\ ControlLast
=============================================================================
